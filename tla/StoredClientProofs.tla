------------------------- MODULE StoredClientProofs -------------------------
(***************************************************************************)
(* Store and forward as the two browsers see it, proved for every file     *)
(* length, chunk size and part size, and however often requests are lost,  *)
(* repeated or answered late: module StoredClient.  The five parts of the   *)
(* argument rest on one another:                                           *)
(*   - types;                                                              *)
(*   - which requests can be under way, so that the answer a caller takes  *)
(*     is the answer to what it asked;                                     *)
(*   - in what order the parts reach the server;                           *)
(*   - what rechunk and the sealer make of the bytes of the source, and    *)
(*     where each token of the container is (sender, network or server);   *)
(*   - what the receiver opens, writes and closes.                         *)
(*                                                                         *)
(* A record of sixteen fields is updated two fields at a time, and a       *)
(* conjunction a prover has to find whole is given a name: both are there  *)
(* for the provers.                                                        *)
(***************************************************************************)
EXTENDS StoredClient, SequenceTheorems, WellFoundedInduction, NaturalsInduction, TLAPS

----------------------------------------------------------------------------
(* Sequences *)

\* What SubSeq takes, counted from the place before it.
LEMMA StretchIsASeq ==
    ASSUME NEW S, NEW s \in Seq(S), NEW a \in Nat, NEW b \in Nat, b <= Len(s)
    PROVE  /\ SubSeq(s, a + 1, b) \in Seq(S)
           /\ Len(SubSeq(s, a + 1, b)) = IF a <= b THEN b - a ELSE 0
           /\ \A k \in 1..Len(SubSeq(s, a + 1, b)) : SubSeq(s, a + 1, b)[k] = s[a + k]
<1>1. \A k \in (a + 1)..b : s[k] \in S
  BY ElementOfSeq
<1>2. a + 1 \in Int /\ b \in Int
  OBVIOUS
<1>3. /\ SubSeq(s, a + 1, b) \in Seq(S)
      /\ Len(SubSeq(s, a + 1, b)) = IF a + 1 <= b THEN b - (a + 1) + 1 ELSE 0
      /\ \A k \in 1..b - (a + 1) + 1 : SubSeq(s, a + 1, b)[k] = s[(a + 1) + k - 1]
  BY <1>1, <1>2, SubSeqProperties
<1> QED BY <1>3

\* t is what s holds after place a and up to place b.
IsStretch(t, s, a, b) ==
    Len(t) = b - a /\ \A place \in 1..b - a : t[place] = s[a + place]

\* The same, for a stretch whose ends are in order.
LEMMA StretchOf ==
    ASSUME NEW S, NEW s \in Seq(S), NEW a \in Nat, NEW b \in Nat, a <= b, b <= Len(s)
    PROVE  SubSeq(s, a + 1, b) \in Seq(S) /\ IsStretch(SubSeq(s, a + 1, b), s, a, b)
BY StretchIsASeq DEF IsStretch

LEMMA StretchMeans ==
    ASSUME NEW t, NEW s, NEW a, NEW b, IsStretch(t, s, a, b)
    PROVE  Len(t) = b - a /\ \A i \in 1..b - a : t[i] = s[a + i]
BY DEF IsStretch

\* What \o puts together.
LEMMA JoinIsASeq ==
    ASSUME NEW S, NEW s \in Seq(S), NEW t \in Seq(S)
    PROVE  /\ s \o t \in Seq(S)
           /\ Len(s \o t) = Len(s) + Len(t)
           /\ \A k \in 1..Len(s) : (s \o t)[k] = s[k]
           /\ \A k \in 1..Len(t) : (s \o t)[Len(s) + k] = t[k]
BY ConcatProperties, LenProperties

\* j is s followed by t.
IsJoin(j, s, t) ==
    /\ Len(j) = Len(s) + Len(t)
    /\ \A k \in 1..Len(s) : j[k] = s[k]

LEMMA JoinOf ==
    ASSUME NEW S, NEW s \in Seq(S), NEW t \in Seq(S)
    PROVE  s \o t \in Seq(S) /\ IsJoin(s \o t, s, t)
BY JoinIsASeq DEF IsJoin

\* Putting together is associative, as an atom.
Associates(p, q, r) == (p \o q) \o r = p \o (q \o r)

LEMMA JoinsAssociate ==
    ASSUME NEW S, NEW p \in Seq(S), NEW q \in Seq(S), NEW r \in Seq(S)
    PROVE  Associates(p, q, r)
<1>1. (p \o q) \o r = p \o (q \o r)
  BY ConcatAssociative
<1> QED BY <1>1 DEF Associates

----------------------------------------------------------------------------
(* Types *)

\* What a byte can be.
Values == UNION {0..n : n \in Sizes}

\* A function on 1..n is a sequence of length n.
LEMMA MappingIsASeq ==
    ASSUME NEW S, NEW n \in Nat, NEW f, f \in [1..n -> S]
    PROVE  f \in Seq(S) /\ Len(f) = n
OBVIOUS

LEMMA OneIsASeq ==
    ASSUME NEW S, NEW x \in S
    PROVE  <<x>> \in Seq(S) /\ Len(<<x>>) = 1 /\ <<x>>[1] = x
OBVIOUS

\* A sealed chunk is its body and one tag, each token bound to all of it.
LEMMA SealIsASeq ==
    ASSUME NEW i \in Nat, NEW final \in BOOLEAN, NEW body \in Bytes
    PROVE  /\ Seal(i, final, body) \in Seq(Token)
           /\ Len(Seal(i, final, body)) = Len(body) + 1
           /\ \A k \in 1..Len(body) + 1 :
                Seal(i, final, body)[k] = [bound |-> Bound(i, final), of |-> body, at |-> k]
<1>1. Len(body) \in Nat
  BY DEF Bytes
<1>2. \A k \in 1..Len(body) + Tag :
        [bound |-> Bound(i, final), of |-> body, at |-> k] \in Token
  BY <1>1 DEF Token, Bound, Tag
<1>3. Seal(i, final, body) \in [1..Len(body) + Tag -> Token]
  BY <1>2 DEF Seal
<1>4. Len(body) + Tag \in Nat
  BY <1>1 DEF Tag
<1>5. Seal(i, final, body) \in Seq(Token) /\ Len(Seal(i, final, body)) = Len(body) + Tag
  BY <1>3, <1>4, MappingIsASeq
<1> QED BY <1>5 DEF Seal, Tag

\* The sizes are numbers.
LEMMA SizesAreNat == StoredAssumption => \A n \in Sizes : n \in Nat /\ 0..n \subseteq Nat
BY DEF StoredAssumption

\* The first bytes of a file are bytes.
LEMMA FrontIsBytes ==
    ASSUME NEW n \in Sizes, NEW m \in 0..n
    PROVE  [k \in 1..m |-> k] \in Bytes /\ Len([k \in 1..m |-> k]) = m
<1>1. n \in Nat /\ m \in Nat
  BY StoredAssumption DEF StoredAssumption
<1>2. \A k \in 1..m : k \in UNION {0..x : x \in Sizes}
  BY <1>1
<1>3. [k \in 1..m |-> k] \in [1..m -> UNION {0..x : x \in Sizes}]
  BY <1>2
<1> QED BY <1>1, <1>3, MappingIsASeq DEF Bytes

\* The header is one token, the sealed metadata two.
LEMMA PreambleIsASeq ==
    ASSUME Sizes # {}
    PROVE  /\ Header \in Seq(Token) /\ Len(Header) = 1
           /\ Metadata \in Seq(Token) /\ Len(Metadata) = 2
           /\ Header \o Metadata \in Seq(Token) /\ Len(Header \o Metadata) = 3
<1>1. <<>> \in Bytes /\ <<0>> \in Bytes /\ Len(<<0>>) = 1
  <2>1. PICK n \in Sizes : TRUE
    OBVIOUS
  <2>2. n \in Nat /\ 0 \in 0..n
    BY StoredAssumption DEF StoredAssumption
  <2>3. 0 \in UNION {0..x : x \in Sizes}
    BY <2>2
  <2> QED BY <2>3, EmptySeq DEF Bytes
<1>2. [bound |-> Bound(0, FALSE), of |-> <<>>, at |-> 0] \in Token
  BY <1>1 DEF Token, Bound
<1>3. Header \in Seq(Token) /\ Len(Header) = 1
  BY <1>2 DEF Header
<1>4. Metadata \in Seq(Token) /\ Len(Metadata) = 2
  <2>1. 0 \in Nat /\ FALSE \in BOOLEAN /\ <<0>> \in Bytes
    BY <1>1
  <2>2. /\ Seal(0, FALSE, <<0>>) \in Seq(Token)
        /\ Len(Seal(0, FALSE, <<0>>)) = Len(<<0>>) + 1
    BY <2>1, SealIsASeq, Zenon
  <2>3. Len(<<0>>) + 1 = 2
    OBVIOUS
  <2> QED BY <2>2, <2>3, Zenon DEF Metadata
<1>5. Header \o Metadata \in Seq(Token)
  BY <1>3, <1>4, JoinIsASeq
<1>6. Len(Header \o Metadata) = Len(Header) + Len(Metadata)
  BY <1>3, <1>4, JoinIsASeq
<1> QED BY <1>3, <1>4, <1>5, <1>6

\* The part of the type invariant about the sender, with what its steps need.
UpTyped ==
    /\ up \in Upload
    /\ Len(up.buffer) <= PartSize /\ Len(up.chunk) < ChunkSize /\ Len(up.pending) <= 1
    /\ up.at <= up.size

\* The receiver reads what has arrived of what was promised.
ReadingOK ==
    /\ down.pos <= down.arrived /\ down.arrived <= Len(server.blob) - server.stray
    /\ down.pc \notin {"push", "drain", "done", "failed"} => Len(sink.feed) <= 1

\* The type invariant, strengthened so that it is inductive.
TypeInv == TypeOK /\ UpTyped /\ ReadingOK

\* The fields of the sender, one by one.
LEMMA UploadFields ==
    ASSUME UpTyped
    PROVE  /\ up.size \in Sizes /\ up.size \in Nat /\ up.at \in Nat
           /\ up.input \in Bytes /\ up.chunk \in Bytes /\ up.counter \in Nat
           /\ up.pending \in Seq(Bytes)
           /\ up.yields \in Seq([bytes : Bytes, final : BOOLEAN])
           /\ up.out \in Seq(Token) /\ up.buffer \in Seq(Token)
           /\ up.index \in Nat /\ up.try \in 0..2
           /\ ChunkSize \in Nat /\ ChunkSize > 0 /\ PartSize \in Nat /\ PartSize > 0
           /\ Len(up.input) \in Nat /\ Len(up.chunk) \in Nat /\ Len(up.out) \in Nat
           /\ Len(up.buffer) \in Nat /\ Len(up.yields) \in Nat /\ Len(up.pending) \in Nat
<1>1. /\ up.size \in Sizes /\ up.at \in Nat
      /\ up.input \in Bytes /\ up.chunk \in Bytes /\ up.counter \in Nat
      /\ up.pending \in Seq(Bytes)
      /\ up.yields \in Seq([bytes : Bytes, final : BOOLEAN])
      /\ up.out \in Seq(Token) /\ up.buffer \in Seq(Token)
      /\ up.index \in Nat /\ up.try \in 0..2
  BY DEF UpTyped, Upload
<1>2. ChunkSize \in Nat /\ ChunkSize > 0 /\ PartSize \in Nat /\ PartSize > 0
  BY StoredAssumption DEF StoredAssumption
<1>3. up.size \in Nat
  BY <1>1, StoredAssumption DEF StoredAssumption
<1>4. /\ Len(up.out) \in Nat /\ Len(up.buffer) \in Nat
      /\ Len(up.yields) \in Nat /\ Len(up.pending) \in Nat
  BY <1>1, LenProperties
<1>5. Len(up.input) \in Nat /\ Len(up.chunk) \in Nat
  BY <1>1, LenProperties DEF Bytes
<1> QED BY <1>1, <1>2, <1>3, <1>4, <1>5

\* What Least returns.
LEMMA LeastIs ==
    ASSUME NEW a \in Int, NEW b \in Int
    PROVE  /\ Least(a, b) \in Int /\ Least(a, b) <= a /\ Least(a, b) <= b
           /\ a >= 0 /\ b >= 0 => Least(a, b) \in Nat
           /\ Least(a, b) = a \/ Least(a, b) = b
BY DEF Least

\* The catch of storedSend keeps the types.
LEMMA ThrowsTyped ==
    ASSUME UpTyped, NEW why \in {"source", "cancelled", "part", "commit"}
    PROVE  up' = Throws(up, why) => UpTyped'
<1> SUFFICES ASSUME up' = Throws(up, why) PROVE UpTyped'
  OBVIOUS
<1>1. up' \in Upload
  BY DEF Throws, UpTyped, Upload
<1>2. /\ up'.buffer = up.buffer /\ up'.chunk = up.chunk /\ up'.pending = up.pending
      /\ up'.at = up.at /\ up'.size = up.size
  BY DEF Throws, UpTyped, Upload
<1> QED BY <1>1, <1>2 DEF UpTyped

LEMMA PushesTyped == UpTyped /\ Pushes => UpTyped'
<1> SUFFICES ASSUME UpTyped, Pushes PROVE UpTyped'
  OBVIOUS
<1> DEFINE take == Least(PartSize - Len(up.buffer), Len(up.out))
           part == up.buffer \o SubSeq(up.out, 1, take)
           rest == SubSeq(up.out, take + 1, Len(up.out))
<1>1. /\ up.out \in Seq(Token) /\ up.buffer \in Seq(Token)
      /\ PartSize \in Nat /\ Len(up.buffer) <= PartSize
      /\ Len(up.out) \in Nat /\ Len(up.buffer) \in Nat
  BY UploadFields DEF UpTyped
<1>2. take \in Nat /\ take <= Len(up.out) /\ take <= PartSize - Len(up.buffer)
  <2>1. PartSize - Len(up.buffer) \in Int /\ PartSize - Len(up.buffer) >= 0 /\ Len(up.out) \in Int /\ Len(up.out) >= 0
    BY <1>1
  <2> QED BY <2>1, LeastIs
<1> HIDE DEF take
<1>3. SubSeq(up.out, 1, take) \in Seq(Token) /\ Len(SubSeq(up.out, 1, take)) = take
  <2>1. 0 \in Nat /\ 0 + 1 = 1 /\ 0 <= take
    BY <1>2
  <2>2. /\ SubSeq(up.out, 0 + 1, take) \in Seq(Token)
        /\ Len(SubSeq(up.out, 0 + 1, take)) = IF 0 <= take THEN take - 0 ELSE 0
    BY <1>1, <1>2, <2>1, StretchIsASeq
  <2> QED BY <1>2, <2>1, <2>2
<1>4. part \in Seq(Token) /\ Len(part) <= PartSize
  <2> DEFINE piece == SubSeq(up.out, 1, take)
  <2>1. piece \in Seq(Token) /\ Len(piece) = take
    BY <1>3
  <2> HIDE DEF piece
  <2>2. up.buffer \o piece \in Seq(Token) /\ Len(up.buffer \o piece) = Len(up.buffer) + Len(piece)
    BY <1>1, <2>1, JoinIsASeq
  <2>3. part = up.buffer \o piece
    BY DEF piece
  <2> HIDE DEF part
  <2> QED BY <1>1, <1>2, <2>1, <2>2, <2>3
<1>5. rest \in Seq(Token)
  <2>1. Len(up.out) \in Nat /\ Len(up.out) <= Len(up.out)
    BY <1>1, LenProperties
  <2> QED BY <1>1, <1>2, <2>1, StretchIsASeq
<1>6. up' = [up EXCEPT !.buffer = part, !.out = rest,
                       !.pc = IF Len(part) = PartSize THEN "part" ELSE @]
  BY DEF Pushes, Up, take, part
<1> HIDE DEF part, rest
<1>7. up' \in Upload
  BY <1>4, <1>5, <1>6 DEF UpTyped, Upload
<1>8. /\ up'.buffer = part /\ up'.chunk = up.chunk /\ up'.pending = up.pending
      /\ up'.at = up.at /\ up'.size = up.size
  BY <1>6 DEF UpTyped, Upload
<1> QED BY <1>4, <1>7, <1>8 DEF UpTyped

LEMMA SealsTyped == UpTyped /\ Seals => UpTyped'
<1> SUFFICES ASSUME UpTyped, Seals PROVE UpTyped'
  OBVIOUS
<1>1. CASE "sender" \in aborted
  BY <1>1, ThrowsTyped DEF Seals, Up
<1>2. CASE "sender" \notin aborted
  <2> DEFINE y == up.yields[1]
  <2>1. /\ y \in [bytes : Bytes, final : BOOLEAN]
        /\ Tail(up.yields) \in Seq([bytes : Bytes, final : BOOLEAN])
    <3>1. up.yields # <<>> /\ up.yields \in Seq([bytes : Bytes, final : BOOLEAN])
      BY UploadFields DEF Seals
    <3>2. 1 \in 1..Len(up.yields)
      BY <3>1, EmptySeq
    <3> QED BY <3>1, <3>2, ElementOfSeq, HeadTailProperties
  <2>2. Seal(up.counter, y.final, y.bytes) \in Seq(Token)
    BY <2>1, UploadFields, SealIsASeq
  <2>3. up' = [up EXCEPT !.out = Seal(up.counter, y.final, y.bytes),
                         !.counter = @ + 1, !.yields = Tail(@)]
    BY <1>2 DEF Seals, Up
  <2> HIDE DEF y
  <2>4. up' \in Upload
    <3> DEFINE out == Seal(up.counter, y.final, y.bytes)
               rest == Tail(up.yields)
               n == up.counter + 1
               v == [up EXCEPT !.out = out]
               w == [v EXCEPT !.counter = n]
    <3>1. /\ out \in Seq(Token) /\ n \in Nat
          /\ rest \in Seq([bytes : Bytes, final : BOOLEAN])
      BY <2>1, <2>2, UploadFields
    <3>2. up' = [w EXCEPT !.yields = rest]
      BY <2>3
    <3> HIDE DEF out, rest, n
    <3>3. v \in Upload
      BY <3>1 DEF UpTyped, Upload
    <3> HIDE DEF v
    <3>4. w \in Upload
      BY <3>1, <3>3 DEF Upload
    <3> HIDE DEF w
    <3> QED BY <3>1, <3>2, <3>4 DEF Upload
  <2>5. /\ up'.buffer = up.buffer /\ up'.chunk = up.chunk /\ up'.pending = up.pending
        /\ up'.at = up.at /\ up'.size = up.size
    BY <2>3 DEF UpTyped, Upload
  <2> QED BY <2>4, <2>5 DEF UpTyped
<1> QED BY <1>1, <1>2

LEMMA ReadsTyped == UpTyped /\ Reads => UpTyped'
<1> SUFFICES ASSUME UpTyped, Reads PROVE UpTyped'
  OBVIOUS
<1>1. PICK k \in 1..up.size - up.at :
        up' = [up EXCEPT !.input = SubSeq(File, up.at + 1, up.at + k), !.at = @ + k]
  BY DEF Reads, Up
<1>2. /\ up.size \in Sizes /\ up.size \in Nat /\ up.at \in Nat /\ k \in Nat
      /\ up.at + k \in Nat /\ up.at + k <= up.size
  <2>1. up.size \in Sizes /\ up.size \in Nat /\ up.at \in Nat
    BY UploadFields
  <2> QED BY <2>1
<1>3. File \in Bytes /\ Len(File) = up.size
  BY <1>2, FrontIsBytes DEF File
<1>4. SubSeq(File, up.at + 1, up.at + k) \in Bytes
  <2>1. up.at <= up.at + k /\ up.at + k <= Len(File)
    BY <1>2, <1>3
  <2>2. File \in Seq(Values) /\ Bytes = Seq(Values)
    BY <1>3 DEF Bytes, Values
  <2> QED BY <1>2, <2>1, <2>2, StretchOf
<1> DEFINE piece == SubSeq(File, up.at + 1, up.at + k)
<1>5. piece \in Bytes /\ up' = [up EXCEPT !.input = piece, !.at = @ + k]
  BY <1>1, <1>4
<1> HIDE DEF piece
<1>6. up' \in Upload
  BY <1>2, <1>5 DEF UpTyped, Upload
<1>7. /\ up'.buffer = up.buffer /\ up'.chunk = up.chunk /\ up'.pending = up.pending
      /\ up'.at = up.at + k /\ up'.size = up.size
  BY <1>5 DEF UpTyped, Upload
<1> QED BY <1>2, <1>6, <1>7 DEF UpTyped

LEMMA HeldBackTyped ==
    ASSUME UpTyped, NEW final \in BOOLEAN
    PROVE  /\ HeldBack(final) \in Seq([bytes : Bytes, final : BOOLEAN])
           /\ Len(HeldBack(final)) = Len(up.pending)
<1>1. up.pending \in Seq(Bytes) /\ Len(up.pending) \in Nat
  BY UploadFields
<1>2. \A j \in 1..Len(up.pending) : Yield(up.pending[j], final) \in [bytes : Bytes, final : BOOLEAN]
  BY <1>1, ElementOfSeq DEF Yield
<1>3. HeldBack(final) \in [1..Len(up.pending) -> [bytes : Bytes, final : BOOLEAN]]
  BY <1>2 DEF HeldBack
<1> QED BY <1>1, <1>3, MappingIsASeq

LEMMA FillsTyped == UpTyped /\ Fills => UpTyped'
<1> SUFFICES ASSUME UpTyped, Fills PROVE UpTyped'
  OBVIOUS
<1> DEFINE take == Least(ChunkSize - Len(up.chunk), Len(up.input))
           front == SubSeq(up.input, 1, take)
           chunk == up.chunk \o front
           rest == SubSeq(up.input, take + 1, Len(up.input))
<1>1. /\ up.input \in Bytes /\ up.chunk \in Bytes /\ ChunkSize \in Nat /\ ChunkSize > 0
      /\ Len(up.input) \in Nat /\ Len(up.chunk) \in Nat /\ Len(up.chunk) < ChunkSize
  BY UploadFields DEF UpTyped
<1>2. take \in Nat /\ take <= Len(up.input) /\ take <= ChunkSize - Len(up.chunk)
  <2>1. ChunkSize - Len(up.chunk) \in Int /\ ChunkSize - Len(up.chunk) >= 0 /\ Len(up.input) \in Int /\ Len(up.input) >= 0
    BY <1>1
  <2> QED BY <2>1, LeastIs
<1> HIDE DEF take
<1>3. front \in Bytes /\ Len(front) = take
  <2>1. 0 \in Nat /\ 0 + 1 = 1 /\ 0 <= take
    BY <1>2
  <2>2. /\ SubSeq(up.input, 0 + 1, take) \in Bytes
        /\ Len(SubSeq(up.input, 0 + 1, take)) = IF 0 <= take THEN take - 0 ELSE 0
    BY <1>1, <1>2, <2>1, StretchIsASeq DEF Bytes
  <2> QED BY <1>2, <2>1, <2>2
<1>4. rest \in Bytes
  <2>1. Len(up.input) \in Nat /\ Len(up.input) <= Len(up.input)
    BY <1>1
  <2> QED BY <1>1, <1>2, <2>1, StretchIsASeq DEF Bytes
<1> HIDE DEF front
<1>5. chunk \in Bytes /\ Len(chunk) = Len(up.chunk) + take
  <2>1. chunk \in Bytes /\ IsJoin(chunk, up.chunk, front)
    BY <1>1, <1>3, JoinOf DEF Bytes
  <2> QED BY <1>3, <2>1 DEF IsJoin
<1>6. up' = IF Len(chunk) < ChunkSize
            THEN [up EXCEPT !.chunk = chunk, !.input = rest]
            ELSE [up EXCEPT !.chunk = <<>>, !.input = rest,
                            !.yields = HeldBack(FALSE), !.pending = <<chunk>>]
  BY DEF Fills, Up, take, chunk, rest, front
<1> HIDE DEF chunk, rest
<1>7. CASE Len(chunk) < ChunkSize
  <2>1. up' \in Upload
    BY <1>4, <1>5, <1>6, <1>7 DEF UpTyped, Upload
  <2>2. /\ up'.buffer = up.buffer /\ up'.chunk = chunk /\ up'.pending = up.pending
        /\ up'.at = up.at /\ up'.size = up.size
    BY <1>6, <1>7 DEF UpTyped, Upload
  <2> QED BY <1>7, <2>1, <2>2 DEF UpTyped
<1>8. CASE ~(Len(chunk) < ChunkSize)
  <2> DEFINE none == <<>>
             yields == HeldBack(FALSE)
             pending == <<chunk>>
             v == [up EXCEPT !.chunk = none, !.input = rest]
             w == [v EXCEPT !.yields = yields]
  <2>1. none \in Bytes /\ Len(none) = 0
    BY EmptySeq DEF Bytes
  <2>2. yields \in Seq([bytes : Bytes, final : BOOLEAN])
    BY HeldBackTyped
  <2>3. pending \in Seq(Bytes) /\ Len(pending) = 1
    BY <1>5
  <2>4. up' = [w EXCEPT !.pending = pending]
    BY <1>6, <1>8
  <2> HIDE DEF none, yields, pending
  <2>5. v \in Upload /\ v.buffer = up.buffer /\ v.chunk = none /\ v.at = up.at /\ v.size = up.size
    BY <1>4, <2>1 DEF UpTyped, Upload
  <2> HIDE DEF v
  <2>6. w \in Upload /\ w.buffer = up.buffer /\ w.chunk = none /\ w.at = up.at /\ w.size = up.size
    BY <2>2, <2>5 DEF Upload
  <2> HIDE DEF w
  <2>7. /\ up' \in Upload /\ up'.buffer = up.buffer /\ up'.chunk = none
        /\ up'.at = up.at /\ up'.size = up.size /\ up'.pending = pending
    BY <2>3, <2>4, <2>6 DEF Upload
  <2>8. /\ Len(up'.buffer) <= PartSize /\ Len(up'.chunk) < ChunkSize
        /\ Len(up'.pending) <= 1 /\ up'.at <= up'.size
    <3>1. Len(up.buffer) <= PartSize /\ up.at <= up.size
      BY DEF UpTyped
    <3>2. Len(none) < ChunkSize
      BY <1>1, <2>1
    <3>3. Len(up'.buffer) = Len(up.buffer) /\ Len(up'.chunk) = Len(none)
          /\ Len(up'.pending) = Len(pending) /\ up'.at = up.at /\ up'.size = up.size
      BY <2>7, Zenon
    <3>4. Len(pending) <= 1
      BY <2>3
    <3> QED BY <3>1, <3>2, <3>3, <3>4, Zenon
  <2> QED BY <2>7, <2>8 DEF UpTyped
<1> QED BY <1>7, <1>8

LEMMA SourceEndsTyped == UpTyped /\ SourceEnds => UpTyped'
<1> SUFFICES ASSUME UpTyped, SourceEnds PROVE UpTyped'
  OBVIOUS
<1> DEFINE none == <<>>
           yields == LastYields
           v == [up EXCEPT !.ended = TRUE]
           w == [v EXCEPT !.yields = yields]
           x == [w EXCEPT !.chunk = none]
<1>1. /\ none \in Bytes /\ none \in Seq(Bytes) /\ Len(none) = 0 
  BY EmptySeq DEF Bytes
<1>2. yields \in Seq([bytes : Bytes, final : BOOLEAN])
  <2>1. Yield(up.chunk, TRUE) \in [bytes : Bytes, final : BOOLEAN]
    BY UploadFields DEF Yield
  <2>2. <<Yield(up.chunk, TRUE)>> \in Seq([bytes : Bytes, final : BOOLEAN])
    BY <2>1, OneIsASeq
  <2>3. HeldBack(FALSE) \o <<Yield(up.chunk, TRUE)>> \in Seq([bytes : Bytes, final : BOOLEAN])
    <3>1. HeldBack(FALSE) \in Seq([bytes : Bytes, final : BOOLEAN])
      BY HeldBackTyped
    <3> QED BY <2>2, <3>1, JoinIsASeq
  <2>4. HeldBack(TRUE) \in Seq([bytes : Bytes, final : BOOLEAN])
    BY HeldBackTyped
  <2> QED BY <2>3, <2>4 DEF LastYields
<1>3. up' = [up EXCEPT !.ended = TRUE, !.yields = yields, !.chunk = none, !.pending = none]
  BY DEF SourceEnds, Up
<1> HIDE DEF none, yields
<1>4. up' = [x EXCEPT !.pending = none]
  BY <1>3
<1>5. x \in Upload /\ x.buffer = up.buffer /\ x.chunk = none
      /\ x.at = up.at /\ x.size = up.size
  <2>1. v \in Upload /\ v.buffer = up.buffer /\ v.at = up.at /\ v.size = up.size
    BY DEF UpTyped, Upload
  <2> HIDE DEF v
  <2>2. w \in Upload /\ w.buffer = up.buffer /\ w.at = up.at /\ w.size = up.size
    BY <1>2, <2>1 DEF Upload
  <2> HIDE DEF w
  <2> QED BY <1>1, <2>2, ZenonT(40) DEF Upload
<1> HIDE DEF x
<1>6. up' \in Upload /\ up'.buffer = up.buffer /\ up'.chunk = none /\ up'.pending = none
      /\ up'.at = up.at /\ up'.size = up.size
  <2>1. up' \in Upload
    BY <1>1, <1>4, <1>5 DEF Upload
  <2>2. /\ up'.buffer = x.buffer /\ up'.chunk = x.chunk /\ up'.pending = none
        /\ up'.at = x.at /\ up'.size = x.size
    BY <1>4, <1>5 DEF Upload
  <2> QED BY <1>5, <2>1, <2>2
<1>7. /\ Len(up'.buffer) <= PartSize /\ Len(up'.chunk) < ChunkSize
      /\ Len(up'.pending) <= 1 /\ up'.at <= up'.size
  BY <1>1, <1>6, UploadFields DEF UpTyped
<1> QED BY <1>6, <1>7 DEF UpTyped

LEMMA FlushesTyped == UpTyped /\ Flushes => UpTyped'
<1> SUFFICES ASSUME UpTyped, Flushes PROVE UpTyped'
  OBVIOUS
<1>1. up' = [up EXCEPT !.pc = IF up.buffer = <<>> THEN "commit" ELSE "part"]
  BY DEF Flushes, Up
<1> QED BY <1>1 DEF UpTyped, Upload

LEMMA AsksTyped == \A op : UpTyped /\ Asks(op) => UpTyped'
BY DEF Asks, UpTyped, Upload

LEMMA PartAnsweredTyped == UpTyped /\ PartAnswered => UpTyped'
<1> SUFFICES ASSUME UpTyped, PartAnswered PROVE UpTyped'
  OBVIOUS
<1>1. CASE up.fetch = "ok"
  <2> DEFINE none == <<>>
             n == up.index + 1
             v == [up EXCEPT !.pc = "send", !.index = n]
             w == [v EXCEPT !.buffer = none]
             x == [w EXCEPT !.try = 0]
  <2>1. none \in Seq(Token) /\ Len(none) = 0 /\ n \in Nat
    BY EmptySeq, UploadFields
  <2>2. up' = [x EXCEPT !.fetch = "none"]
    BY <1>1 DEF PartAnswered, Up
  <2> HIDE DEF none, n
  <2>3. v \in Upload /\ v.chunk = up.chunk /\ v.pending = up.pending
        /\ v.at = up.at /\ v.size = up.size
    BY <2>1 DEF UpTyped, Upload
  <2> HIDE DEF v
  <2>4. w \in Upload /\ w.buffer = none /\ w.chunk = up.chunk
        /\ w.pending = up.pending /\ w.at = up.at /\ w.size = up.size
    BY <2>1, <2>3 DEF Upload
  <2> HIDE DEF w
  <2>5. x \in Upload /\ x.buffer = none /\ x.chunk = up.chunk
        /\ x.pending = up.pending /\ x.at = up.at /\ x.size = up.size
    <3> DEFINE first == 0
    <3>1. first \in 0..2
      OBVIOUS
    <3>2. x = [w EXCEPT !.try = first]
      OBVIOUS
    <3> HIDE DEF first, x
    <3> QED BY <2>4, <3>1, <3>2 DEF Upload
  <2> HIDE DEF x
  <2>6. up' \in Upload /\ up'.buffer = none /\ up'.chunk = up.chunk
        /\ up'.pending = up.pending /\ up'.at = up.at /\ up'.size = up.size
    <3>1. "none" \in {"none", "waiting"} \cup Status
      OBVIOUS
    <3> QED BY <2>2, <2>5, <3>1 DEF Upload
  <2>7. Len(up'.buffer) <= PartSize
    BY <2>1, <2>6, UploadFields
  <2> QED BY <2>6, <2>7 DEF UpTyped
<1>2. CASE up.fetch # "ok" /\ (("sender" \in aborted /\ up.fetch # "5xx") \/ up.try >= 2)
  <2>1. up' = Throws(up, "cancelled") \/ up' = Throws(up, "part")
    BY <1>2, UploadFields DEF PartAnswered, Up, TriesAgain
  <2> QED BY <2>1, ThrowsTyped
<1>3. CASE up.fetch # "ok" /\ ~("sender" \in aborted /\ up.fetch # "5xx") /\ up.try < 2
  <2>1. up' = [up EXCEPT !.try = @ + 1, !.fetch = "none"]
    BY <1>3 DEF PartAnswered, Up, TriesAgain
  <2>2. up.try + 1 \in 0..2
    BY <1>3, UploadFields
  <2> QED BY <2>1, <2>2 DEF UpTyped, Upload
<1> QED BY <1>1, <1>2, <1>3, UploadFields

LEMMA ReservedTyped == UpTyped /\ Reserved => UpTyped'
<1> SUFFICES ASSUME UpTyped, Reserved PROVE UpTyped'
  OBVIOUS
<1> DEFINE out == Header \o Metadata
           v == [up EXCEPT !.pc = "send", !.out = out]
<1>1. out \in Seq(Token)
  BY UploadFields, PreambleIsASeq
<1>2. up' = [v EXCEPT !.counter = 1]
  BY DEF Reserved
<1> HIDE DEF out
<1>3. v \in Upload /\ v.buffer = up.buffer /\ v.chunk = up.chunk /\ v.pending = up.pending
      /\ v.at = up.at /\ v.size = up.size
  BY <1>1 DEF UpTyped, Upload
<1> HIDE DEF v
<1>4. up' \in Upload /\ up'.buffer = up.buffer /\ up'.chunk = up.chunk
      /\ up'.pending = up.pending /\ up'.at = up.at /\ up'.size = up.size
  BY <1>2, <1>3 DEF Upload
<1> QED BY <1>4 DEF UpTyped

LEMMA AnswerIsStatus == \A r : Answer(r) \in {"ok", "4xx"}
BY DEF Answer, Current

LEMMA FetchTyped ==
    ASSUME UpTyped, NEW s \in Status, up' = [up EXCEPT !.fetch = s]
    PROVE  UpTyped'
BY DEF UpTyped, Upload

LEMMA AnswersTyped == \A r : UpTyped /\ Answers(r) => UpTyped'
<1> SUFFICES ASSUME UpTyped, NEW r, Answers(r) PROVE UpTyped'
  OBVIOUS
<1>1. Answer(r) \in Status
  BY AnswerIsStatus DEF Status
<1>2. up' = up \/ up' = [up EXCEPT !.fetch = Answer(r)]
  BY DEF Answers
<1>3. up' = up => UpTyped'
  BY DEF UpTyped
<1> QED BY <1>1, <1>2, <1>3, FetchTyped

\* Every step keeps the sender typed.
LEMMA UploadTyped == UpTyped /\ [Next]_vars => UpTyped'
<1> SUFFICES ASSUME UpTyped, [Next]_vars PROVE UpTyped'
  OBVIOUS
<1>0. CASE up' = up
  BY <1>0 DEF UpTyped
<1>1. CASE Uploads
  <2>1. CASE PartSent
    BY <2>1, AsksTyped, ThrowsTyped DEF PartSent, Up
  <2>2. CASE PartAborted
    BY <2>2, ThrowsTyped DEF PartAborted
  <2>3. CASE CommitSent \/ RevokeSent
    BY <2>3, AsksTyped DEF CommitSent, RevokeSent
  <2>4. CASE CommitAnswered
    <3>1. CASE up' = [up EXCEPT !.pc = "stored", !.fetch = "none"]
      BY <3>1 DEF UpTyped, Upload
    <3>2. CASE up' = Throws(up, "commit")
      BY <3>2, ThrowsTyped
    <3> QED BY <2>4, <3>1, <3>2 DEF CommitAnswered, GivesUp
  <2>5. CASE RevokeAnswered
    <3>1. up' = [up EXCEPT !.pc = IF @ = "revoke" THEN "failed" ELSE "deleted",
                           !.fetch = "none"]
      BY <2>5 DEF RevokeAnswered
    <3> QED BY <3>1 DEF UpTyped, Upload
  <2> QED BY <1>1, <2>1, <2>2, <2>3, <2>4, <2>5, ReservedTyped, PushesTyped, SealsTyped,
             ReadsTyped, FillsTyped, SourceEndsTyped, FlushesTyped, PartAnsweredTyped
          DEF Uploads
<1>2. CASE Answered \/ Late \/ LateFails
  BY <1>0, <1>2, AnswersTyped DEF Answered, Late, LateFails
<1>3. CASE SenderDeletes
  <2>1. up' = [up EXCEPT !.pc = "deleting"]
    BY <1>3 DEF SenderDeletes, Up
  <2> QED BY <2>1 DEF UpTyped, Upload
<1>4. CASE NotReserved
  <2>1. up' = [up EXCEPT !.pc = "failed", !.why = "init"]
    BY <1>4 DEF NotReserved
  <2> QED BY <2>1 DEF UpTyped, Upload
<1>5. CASE SourceFails
  BY <1>5, ThrowsTyped DEF SourceFails
<1>6. CASE RequestFails
  <2>1. PICK s \in {"5xx", "error"} : up' = [up EXCEPT !.fetch = s]
    BY <1>6 DEF RequestFails
  <2>2. s \in Status
    BY DEF Status
  <2> QED BY <2>1, <2>2, FetchTyped
<1>7. CASE Downloads \/ Users \/ ServerDrops \/ Cut \/ CutAtEnd \/ WriteFails \/ CloseFails
  <2>1. Downloads => up' = up
    BY DEF Downloads, Settles, Arrives, HeaderRead, MetaRead, ChunkRead, ChunkOpened,
           Pushed, Writes, Drained, ReceiverAborted, Down, Stops
  <2>2. Users => up' = up \/ SenderDeletes
    BY DEF Users, SenderCancels, Starts, Chosen, ReceiverCancels
  <2>3. ServerDrops \/ Cut \/ CutAtEnd \/ WriteFails \/ CloseFails => up' = up
    BY DEF ServerDrops, Cut, CutAtEnd, WriteFails, CloseFails
  <2> QED BY <1>0, <1>3, <1>7, <2>1, <2>2, <2>3
<1>8. CASE UNCHANGED vars
  BY <1>0, <1>8 DEF vars
<1> QED BY <1>1, <1>2, <1>3, <1>4, <1>5, <1>6, <1>7, <1>8 DEF Next, Users, Faulty

\* The destination is what it should be.
SinkTyped ==
    sink \in [state : {"none", "open", "broken", "closed", "aborted"},
              written : Bytes, feed : Seq(Bytes)]

Losses == {"part", "commit", "revoke", "slot", "download", "torn", "end"}

\* Everything TypeOK says that is not about the upload's own state.
RestTyped ==
    /\ down \in Download /\ server \in Record /\ SinkTyped
    /\ net \subseteq Request
    /\ screen \in {"working", "cancelled", "failed", "stored", "deleted"}
    /\ aborted \subseteq {"sender", "receiver"}
    /\ faults \in 0..MaxFaults
    /\ lost \subseteq Losses
    /\ Len(sink.feed) <= 2

LEMMA TypesAre == TypeInv <=> UpTyped /\ RestTyped /\ ReadingOK
BY DEF TypeInv, TypeOK, UpTyped, RestTyped, SinkTyped, Losses

LEMMA TypesArePrimed == TypeInv' <=> UpTyped' /\ RestTyped' /\ ReadingOK'
BY DEF TypeInv, TypeOK, UpTyped, RestTyped, SinkTyped, Losses

LEMMA RestFields ==
    ASSUME RestTyped
    PROVE  /\ down.arrived \in Nat /\ down.pos \in Nat /\ down.counter \in Nat
           /\ down.sealed \in Seq(Token) /\ down.right \in BOOLEAN /\ down.eof \in BOOLEAN
           /\ down.last \in BOOLEAN
           /\ server.next \in Nat /\ server.blob \in Seq(Token) /\ server.stray \in Nat
           /\ Len(server.blob) \in Nat
           /\ sink.feed \in Seq(Bytes) /\ Len(sink.feed) \in Nat /\ sink.written \in Bytes
           /\ faults \in Nat /\ MaxFaults \in Nat
<1>1. /\ down.arrived \in Nat /\ down.pos \in Nat /\ down.counter \in Nat
      /\ down.sealed \in Seq(Token) /\ down.right \in BOOLEAN /\ down.eof \in BOOLEAN
      /\ down.last \in BOOLEAN
  BY DEF RestTyped, Download
<1>2. server.next \in Nat /\ server.blob \in Seq(Token) /\ server.stray \in Nat
  BY DEF RestTyped, Record
<1>3. sink.feed \in Seq(Bytes) /\ sink.written \in Bytes
  BY DEF RestTyped, SinkTyped
<1>4. Len(server.blob) \in Nat /\ Len(sink.feed) \in Nat
  BY <1>2, <1>3, LenProperties
<1>5. faults \in Nat /\ MaxFaults \in Nat
  BY StoredAssumption DEF RestTyped, StoredAssumption
<1> QED BY <1>1, <1>2, <1>3, <1>4, <1>5

LEMMA RequestFields ==
    \A r \in Request : /\ r.op \in {"part", "commit", "revoke"} /\ r.index \in Nat
                       /\ r.body \in Seq(Token) /\ r.live \in BOOLEAN
                       /\ Unheard(r) \in Request
BY DEF Request, Unheard

LEMMA AfterTyped ==
    ASSUME RestTyped, NEW r \in net
    PROVE  /\ After(r) \in Record
           /\ After(r).conn = server.conn /\ After(r).stray = server.stray
           /\ After(r).counted = server.counted
           /\ After(r).blob = server.blob
                \/ (r.op = "part" /\ After(r).blob = server.blob \o r.body)
           /\ Len(server.blob) <= Len(After(r).blob)
<1>1. r \in Request /\ server \in Record
  BY DEF RestTyped
<1>2. /\ r.op \in {"part", "commit", "revoke"} /\ r.index \in Nat /\ r.body \in Seq(Token)
      /\ server.blob \in Seq(Token) /\ Len(server.blob) \in Nat
  BY <1>1, RequestFields, RestFields
<1>3. CASE After(r) = server
  BY <1>1, <1>2, <1>3
<1>4. CASE \E s \in {"committed", "gone"} : After(r) = [server EXCEPT !.slot = s]
  <2>1. /\ After(r) \in Record /\ After(r).conn = server.conn
        /\ After(r).stray = server.stray
        /\ After(r).counted = server.counted /\ After(r).blob = server.blob
    BY <1>1, <1>4 DEF Record
  <2> QED BY <1>2, <2>1
<1>5. CASE r.op = "part" /\ After(r) = [server EXCEPT !.blob = @ \o r.body, !.next = r.index + 1]
  <2> DEFINE blob == server.blob \o r.body
             next == r.index + 1
  <2>1. blob \in Seq(Token) /\ Len(blob) = Len(server.blob) + Len(r.body) /\ next \in Nat
    BY <1>2, JoinIsASeq
  <2>2. After(r) = [server EXCEPT !.blob = blob, !.next = next]
    BY <1>5
  <2>3. Len(r.body) \in Nat
    BY <1>2, LenProperties
  <2> HIDE DEF blob, next
  <2>4. /\ After(r) \in Record /\ After(r).conn = server.conn
        /\ After(r).stray = server.stray
        /\ After(r).counted = server.counted /\ After(r).blob = blob
    BY <1>1, <2>1, <2>2 DEF Record
  <2>5. Len(server.blob) <= Len(After(r).blob)
    <3>1. After(r).blob = blob
      BY <2>4
    <3>2. Len(server.blob) <= Len(blob)
      <4>1. \A a, b \in Nat : a <= a + b
        OBVIOUS
      <4>2. Len(server.blob) \in Nat /\ Len(r.body) \in Nat
        BY <1>2, <2>3
      <4>3. Len(blob) = Len(server.blob) + Len(r.body)
        BY <2>1
      <4> QED BY <4>1, <4>2, <4>3, Zenon
    <3>3. Len(After(r).blob) = Len(blob)
      BY <3>1, Zenon
    <3> QED BY <3>2, <3>3, Zenon
  <2>6. After(r).blob = server.blob \o r.body
    BY <2>4 DEF blob
  <2> HIDE DEF After
  <2> QED BY <1>5, <2>4, <2>5, <2>6
<1>6. \/ After(r) = server
      \/ \E s \in {"committed", "gone"} : After(r) = [server EXCEPT !.slot = s]
      \/ (r.op = "part" /\ After(r) = [server EXCEPT !.blob = @ \o r.body, !.next = r.index + 1])
  BY <1>2 DEF After
<1> QED BY <1>3, <1>4, <1>5, <1>6

LEMMA FaultTyped == RestTyped /\ Fault => faults' \in 0..MaxFaults
<1> SUFFICES ASSUME RestTyped, Fault PROVE faults' \in 0..MaxFaults
  OBVIOUS
<1>1. faults \in Nat /\ MaxFaults \in Nat
  BY RestFields
<1> QED BY <1>1 DEF Fault

\* What an append that failed half-way makes of the record.
Halved(s, r) ==
    /\ r.op = "part" /\ Answer(r) = "ok" /\ ~IsDuplicate(r) /\ r.index = server.next
    /\ server.slot \notin {"committed", "gone"}
    /\ s.slot = server.slot /\ s.next = server.next
    /\ s.conn = server.conn /\ s.counted = server.counted
    /\ \E k \in 1..Len(r.body) : s.blob = server.blob \o SubSeq(r.body, 1, k)

LEMMA HalfTyped ==
    ASSUME RestTyped, NEW r \in net, HalfDone(r)
    PROVE  /\ server' \in Record /\ Halved(server', r) /\ Len((server').blob) \in Nat
           /\ Len(server.blob) - server.stray <= Len((server').blob) - (server').stray
<1> DEFINE s == server'
<1>1. r \in Request /\ server \in Record
  BY DEF RestTyped
<1>2. /\ r.body \in Seq(Token) /\ Len(r.body) \in Nat
      /\ server.blob \in Seq(Token) /\ Len(server.blob) \in Nat /\ server.stray \in Nat
      /\ MaxTorn \in Nat
  BY <1>1, RequestFields, RestFields, LenProperties, StoredAssumption DEF StoredAssumption
<1>3. r.op = "part" /\ Answer(r) = "ok" /\ ~IsDuplicate(r)
  BY DEF HalfDone
<1>4. r.index = server.next /\ server.slot \notin {"committed", "gone"}
  BY <1>3 DEF Answer, Current
<1>15. Len(r.body) \in Int /\ MaxTorn \in Int
  BY <1>2
<1>5. PICK k \in 1..Least(MaxTorn, Len(r.body)), restarted \in BOOLEAN :
        s = [server EXCEPT !.blob = @ \o SubSeq(r.body, 1, k),
                           !.stray = IF restarted THEN 0 ELSE @ + k]
  BY DEF HalfDone
<1>6. k \in Nat /\ 1 <= k /\ k <= Len(r.body)
  <2> DEFINE n == Len(r.body)
  <2>1. n \in Int /\ k \in 1..Least(MaxTorn, n)
    BY <1>15
  <2> HIDE DEF n
  <2>2. Least(MaxTorn, n) \in Int /\ Least(MaxTorn, n) <= n
    BY ONLY <1>15, <2>1, LeastIs
  <2>3. k \in Nat /\ 1 <= k /\ k <= n
    BY ONLY <2>1, <2>2
  <2> QED BY <2>3 DEF n
<1> DEFINE piece == SubSeq(r.body, 1, k)
           blob == server.blob \o piece
           stray == IF restarted THEN 0 ELSE server.stray + k
<1>7. piece \in Seq(Token) /\ Len(piece) = k
  <2>1. 0 \in Nat /\ 0 + 1 = 1 /\ 0 <= k /\ k - 0 = k
    BY <1>6
  <2>2. /\ SubSeq(r.body, 0 + 1, k) \in Seq(Token)
        /\ Len(SubSeq(r.body, 0 + 1, k)) = IF 0 <= k THEN k - 0 ELSE 0
    BY <1>2, <1>6, <2>1, StretchIsASeq
  <2> QED BY <2>1, <2>2
<1>8. blob \in Seq(Token) /\ Len(blob) = Len(server.blob) + k
  <2> HIDE DEF piece
  <2>1. blob \in Seq(Token) /\ Len(blob) = Len(server.blob) + Len(piece)
    BY <1>2, <1>7, JoinIsASeq
  <2> QED BY <1>7, <2>1
<1>9. stray \in Nat /\ stray <= server.stray + k
  BY <1>2, <1>6
<1>10. s = [server EXCEPT !.blob = blob, !.stray = stray]
  BY <1>5
<1>11. /\ s.slot = server.slot /\ s.next = server.next /\ s.blob = blob /\ s.stray = stray
       /\ s.conn = server.conn /\ s.counted = server.counted /\ s \in Record
  <2> HIDE DEF blob, stray
  <2> QED BY <1>1, <1>8, <1>9, <1>10 DEF Record
<1>12. Halved(s, r)
  <2>1. k \in 1..Len(r.body)
    BY <1>2, <1>6
  <2>2. s.blob = server.blob \o SubSeq(r.body, 1, k)
    BY <1>11
  <2>3. \E j \in 1..Len(r.body) : s.blob = server.blob \o SubSeq(r.body, 1, j)
    BY ONLY <2>1, <2>2
  <2>4. /\ s.slot = server.slot /\ s.next = server.next
        /\ s.conn = server.conn /\ s.counted = server.counted
    BY <1>11
  <2> QED BY ONLY <1>3, <1>4, <2>3, <2>4 DEF Halved
<1>13. Len(server.blob) - server.stray <= Len(s.blob) - s.stray
  <2> HIDE DEF blob, stray
  <2>1. Len(s.blob) = Len(server.blob) + k /\ s.stray <= server.stray + k /\ s.stray \in Nat
    BY <1>8, <1>9, <1>11
  <2> HIDE <1>5, <1>10
  <2> QED BY <1>2, <1>6, <2>1
<1>14. Len(s.blob) \in Nat
  <2> HIDE DEF blob, stray
  <2> QED BY <1>8, <1>11, LenProperties
<1> QED BY <1>11, <1>12, <1>13, <1>14

\* What the byte cursor takes lies in what has arrived.
LEMMA TookIsASeq ==
    ASSUME RestTyped, ReadingOK, NEW n \in Nat
    PROVE  /\ Took(n) \in Seq(Token) /\ Queued \in Nat
           /\ Least(n, Queued) \in Nat
           /\ down.pos + Least(n, Queued) <= down.arrived
           /\ down.pos + Least(n, Queued) <= Len(server.blob)
           /\ Len(Took(n)) = Least(n, Queued)
           /\ \A k \in 1..Len(Took(n)) : Took(n)[k] = server.blob[down.pos + k]
<1>1. /\ down.pos \in Nat /\ down.arrived \in Nat /\ server.stray \in Nat
      /\ server.blob \in Seq(Token) /\ Len(server.blob) \in Nat
  BY RestFields
<1>2. Queued \in Nat
  BY <1>1 DEF Queued, ReadingOK
<1> DEFINE m == Least(n, Queued)
<1>3. m \in Nat /\ m <= Queued
  BY <1>2, LeastIs
<1> HIDE DEF m
<1>4. down.pos + m <= down.arrived /\ down.pos + m <= Len(server.blob)
  BY <1>1, <1>3 DEF Queued, ReadingOK
<1> DEFINE p == down.pos
           q == down.pos + m
<1>5. p \in Nat /\ q \in Nat /\ q <= Len(server.blob) /\ p <= q /\ q - p = m
  BY <1>1, <1>3, <1>4
<1> HIDE DEF p, q
<1>6. /\ SubSeq(server.blob, p + 1, q) \in Seq(Token)
      /\ Len(SubSeq(server.blob, p + 1, q)) = q - p
      /\ \A k \in 1..Len(SubSeq(server.blob, p + 1, q)) :
           SubSeq(server.blob, p + 1, q)[k] = server.blob[p + k]
  BY <1>1, <1>5, StretchIsASeq
<1>7. Took(n) = SubSeq(server.blob, p + 1, q)
  BY DEF Took, m, p, q
<1> QED BY <1>2, <1>3, <1>4, <1>5, <1>6, <1>7 DEF m, p

LEMMA RestSent ==
    ASSUME UpTyped, RestTyped, ReadingOK,
           \/ \E op \in {"part", "commit", "revoke"} : Asks(op)
           \/ PartAborted
           \/ CommitAnswered \/ RevokeAnswered \/ SenderCancels
           \/ Reserved \/ NotReserved \/ SourceFails
    PROVE  RestTyped' /\ ReadingOK'
<1>1. CASE \E op \in {"part", "commit", "revoke"} : Asks(op)
  <2>1. PICK op \in {"part", "commit", "revoke"} : Asks(op)
    BY <1>1
  <2>2. up.buffer \in Seq(Token) /\ <<>> \in Seq(Token) /\ up.index \in Nat
    BY UploadFields, EmptySeq
  <2>3. (IF op = "part" THEN up.buffer ELSE <<>>) \in Seq(Token)
    BY <2>2
  <2>4. [op |-> op, index |-> up.index, live |-> TRUE,
         body |-> IF op = "part" THEN up.buffer ELSE <<>>] \in Request
    BY <2>2, <2>3 DEF Request
  <2>5. net' \subseteq Request /\ UNCHANGED <<down, sink, server, screen, aborted, faults, lost>>
    BY <2>1, <2>4 DEF Asks, RestTyped
  <2> QED BY <2>5 DEF RestTyped, SinkTyped, ReadingOK
<1>2. CASE PartAborted
  <2>1. net' \subseteq Request
    BY <1>2, RequestFields DEF PartAborted, RestTyped
  <2> QED BY <1>2, <2>1 DEF PartAborted, RestTyped, SinkTyped, ReadingOK
<1>3. CASE CommitAnswered \/ RevokeAnswered \/ SenderCancels
  <2>1. screen' \in {"working", "cancelled", "failed", "stored", "deleted"}
        /\ aborted' \subseteq {"sender", "receiver"}
    BY <1>3 DEF CommitAnswered, RevokeAnswered, SenderCancels, RestTyped
  <2>2. UNCHANGED <<down, sink, server, net, faults, lost>>
    BY <1>3 DEF CommitAnswered, RevokeAnswered, SenderCancels
  <2> QED BY <2>1, <2>2 DEF RestTyped, SinkTyped, ReadingOK
<1>4. CASE Reserved \/ NotReserved \/ SourceFails
  <2>1. server' = server \/ server' = [server EXCEPT !.slot = "open"]
    BY <1>4 DEF Reserved, NotReserved, SourceFails
  <2>2. /\ server' \in Record /\ server'.blob = server.blob
        /\ server'.stray = server.stray
    BY <2>1 DEF RestTyped, Record
  <2>3. /\ screen' \in {"working", "cancelled", "failed", "stored", "deleted"}
        /\ lost' \subseteq Losses
    BY <1>4 DEF Reserved, NotReserved, SourceFails, RestTyped, Losses
  <2>4. UNCHANGED <<down, sink, net, aborted>>
    BY <1>4 DEF Reserved, NotReserved, SourceFails
  <2>5. faults' \in 0..MaxFaults
    BY <1>4, FaultTyped DEF Reserved, NotReserved, SourceFails, RestTyped
  <2> QED BY <2>2, <2>3, <2>4, <2>5 DEF RestTyped, SinkTyped, ReadingOK
<1> QED BY <1>1, <1>2, <1>3, <1>4

LEMMA RestAnswered ==
    ASSUME RestTyped, ReadingOK,
           Answered \/ Late \/ RequestFails \/ LateFails \/ ServerDrops
    PROVE  RestTyped' /\ ReadingOK'
<1> DEFINE promised == Len(server.blob) - server.stray
<1>1. /\ server' \in Record /\ Len(server'.blob) \in Nat /\ server'.stray \in Nat
      /\ promised <= Len(server'.blob) - server'.stray
  <2>0. Len(server.blob) \in Nat /\ server.stray \in Nat /\ server \in Record
    BY RestFields DEF RestTyped
  <2>1. CASE server' = server
    BY <2>0, <2>1
  <2>2. CASE \E r \in net : server' = After(r)
    <3>1. PICK r \in net : server' = After(r)
      BY <2>2
    <3>2. /\ After(r) \in Record /\ After(r).stray = server.stray
          /\ Len(server.blob) <= Len(After(r).blob)
      BY AfterTyped
    <3>3. server'.blob \in Seq(Token)
      BY <3>1, <3>2 DEF Record
    <3>4. Len(server'.blob) \in Nat
      BY <3>3, LenProperties
    <3> HIDE DEF After
    <3> QED BY <2>0, <3>1, <3>2, <3>4
  <2>3. CASE server' = [server EXCEPT !.slot = "gone"]
    <3>1. /\ server' \in Record /\ server'.stray = server.stray
          /\ server'.blob = server.blob
      BY <2>0, <2>3 DEF Record
    <3> QED BY <2>0, <3>1
  <2>4. CASE \E r \in net : HalfDone(r)
    <3>1. PICK r \in net : HalfDone(r)
      BY <2>4
    <3>2. /\ server' \in Record /\ Len(server'.blob) \in Nat
          /\ promised <= Len(server'.blob) - server'.stray
      BY <3>1, HalfTyped
    <3> QED BY <3>2 DEF Record
  <2> QED BY <2>1, <2>2, <2>3, <2>4
          DEF Answered, Late, Answers, RequestFails, LateFails, Effect, ServerDrops
<1>2. net' \subseteq Request
  BY RequestFields DEF RestTyped, Answered, Late, Answers, RequestFails, LateFails, ServerDrops
<1>3. lost' \subseteq Losses
  BY RequestFields
     DEF RestTyped, Losses, Answered, Late, Answers, RequestFails, LateFails, Effect, ServerDrops
<1>4. faults' \in 0..MaxFaults
  BY FaultTyped DEF RestTyped, Answered, Late, Answers, RequestFails, LateFails, ServerDrops
<1>5. UNCHANGED <<down, sink, screen, aborted>>
  BY DEF Answered, Late, Answers, RequestFails, LateFails, ServerDrops
<1>6. /\ down.pos \in Nat /\ down.arrived \in Nat /\ server.stray \in Nat
      /\ Len(server.blob) \in Nat
  BY RestFields
<1>7. RestTyped'
  BY <1>1, <1>2, <1>3, <1>4, <1>5 DEF RestTyped, SinkTyped
<1>8. ReadingOK'
  BY <1>1, <1>5, <1>6 DEF ReadingOK
<1> QED BY <1>7, <1>8

LEMMA RestRead ==
    ASSUME RestTyped, ReadingOK, UpTyped, Downloads \/ Cut \/ CutAtEnd \/ CloseFails
    PROVE  RestTyped' /\ ReadingOK'
<1>1. /\ down.pos \in Nat /\ down.arrived \in Nat /\ down.counter \in Nat
      /\ server.stray \in Nat /\ Len(server.blob) \in Nat
      /\ down.pos <= down.arrived /\ down.arrived <= Promised
      /\ Promised = Len(server.blob) - server.stray
  BY RestFields DEF ReadingOK, Promised
<1>2. CASE Settles
  <2>1. /\ server' \in Record /\ server'.blob = server.blob
        /\ server'.stray = server.stray
    <3>1. PICK whole \in BOOLEAN :
            server' = [server EXCEPT !.conn = "settled", !.counted = whole,
                                     !.slot = IF whole THEN "gone" ELSE @]
      BY <1>2 DEF Settles, SettlesWhole
    <3> QED BY <3>1 DEF RestTyped, Record
  <2>2. UNCHANGED <<up, down, sink, net, screen, aborted, faults, lost>>
    BY <1>2 DEF Settles
  <2>3. RestTyped'
    BY <2>1, <2>2 DEF RestTyped, SinkTyped
  <2>4. ReadingOK'
    BY <1>1, <2>1, <2>2 DEF ReadingOK
  <2> QED BY <2>3, <2>4
<1>3. CASE Writes
  <2>1. sink.feed # <<>> /\ sink.feed \in Seq(Bytes) /\ sink.written \in Bytes
        /\ Len(sink.feed) \in Nat
    BY <1>3, RestFields DEF Writes
  <2>2. sink.feed[1] \in Bytes
    BY <2>1, EmptySeq, ElementOfSeq
  <2> DEFINE written == sink.written \o sink.feed[1]
             feed == Tail(sink.feed)
  <2>3. written \in Bytes
    BY <2>1, <2>2, JoinIsASeq DEF Bytes
  <2>4. feed \in Seq(Bytes) /\ Len(feed) <= Len(sink.feed) /\ Len(feed) \in Nat
        /\ Len(feed) = Len(sink.feed) - 1
    BY <2>1, HeadTailProperties, LenProperties
  <2>5. sink' = [sink EXCEPT !.written = written, !.feed = feed]
    BY <1>3 DEF Writes
  <2> HIDE DEF written, feed
  <2>6. SinkTyped' /\ sink'.feed = feed
    BY <2>3, <2>4, <2>5 DEF RestTyped, SinkTyped
  <2>7. UNCHANGED <<up, down, server, net, screen, aborted, faults, lost>>
    BY <1>3 DEF Writes
  <2>8. Len(sink'.feed) <= 2
    BY <2>1, <2>4, <2>6 DEF RestTyped
  <2>9. RestTyped'
    BY <2>6, <2>7, <2>8 DEF RestTyped
  <2>10. ReadingOK'
    BY <1>1, <2>1, <2>4, <2>6, <2>7 DEF ReadingOK
  <2> QED BY <2>9, <2>10
<1>4. CASE Stops \/ CloseFails \/ (Cut /\ down'.pc = "failed")
  <2>1. /\ down'.pc = "failed" /\ down' \in Download
        /\ down'.pos = down.pos /\ down'.arrived = down.arrived
    <3>1. down' = [down EXCEPT !.pc = "failed"]
      <4>1. CASE Stops \/ CloseFails
        BY <4>1 DEF Stops, CloseFails
      <4>2. CASE Cut /\ down'.pc = "failed" /\ down' = [down EXCEPT !.eof = TRUE]
        <5>1. down.pc # "failed"
          BY <4>2 DEF Cut, Fetching, Wanted, Queued, RestTyped, Download, ReadingOK
        <5> QED BY <4>2, <5>1 DEF RestTyped, Download
      <4> QED BY <1>4, <4>1, <4>2 DEF Cut
    <3> QED BY <3>1 DEF RestTyped, Download
  <2>2. /\ server' \in Record /\ server'.blob = server.blob
        /\ server'.stray = server.stray
    <3>1. server' = [server EXCEPT !.conn = IF @ = "open" THEN "cut" ELSE @]
      BY <1>4 DEF Stops, CloseFails, Cut, Closed
    <3> QED BY <3>1 DEF RestTyped, Record
  <2>3. sink' = SinkAborted \/ sink' = sink
    BY <1>4 DEF Stops, CloseFails, Cut
  <2>4. SinkTyped' /\ Len(sink'.feed) <= 2
    <3> DEFINE none == <<>>
    <3>1. none \in Seq(Bytes) /\ Len(none) <= 2
      BY EmptySeq
    <3>2. sink' = [sink EXCEPT !.state = IF @ = "none" THEN @ ELSE "aborted", !.feed = none]
          \/ sink' = sink
      BY <2>3 DEF SinkAborted
    <3> HIDE DEF none
    <3> QED BY <3>1, <3>2 DEF RestTyped, SinkTyped
  <2>5. faults' \in 0..MaxFaults /\ lost' \subseteq Losses
    BY <1>4, FaultTyped DEF Stops, CloseFails, Cut, RestTyped, Losses
  <2>6. UNCHANGED <<up, net, screen, aborted>>
    BY <1>4 DEF Stops, CloseFails, Cut
  <2>7. RestTyped'
    BY <2>1, <2>2, <2>4, <2>5, <2>6 DEF RestTyped
  <2>8. ReadingOK'
    BY <1>1, <2>1, <2>2 DEF ReadingOK
  <2> QED BY <2>7, <2>8
<1>5. CASE Arrives
  <2>1. \/ \E k \in 1..Promised - down.arrived : down' = [down EXCEPT !.arrived = @ + k]
        \/ down' = [down EXCEPT !.eof = TRUE]
    BY <1>5 DEF Arrives, Down
  <2>2. /\ down' \in Download /\ down'.pos = down.pos /\ down'.pc = down.pc
        /\ down.arrived <= down'.arrived /\ down'.arrived <= Promised
        /\ down'.arrived \in Nat
    <3>1. CASE \E k \in 1..Promised - down.arrived : down' = [down EXCEPT !.arrived = @ + k]
      <4>1. PICK k \in 1..Promised - down.arrived : down' = [down EXCEPT !.arrived = @ + k]
        BY <3>1
      <4>2. k \in Nat /\ down.arrived + k <= Promised /\ down.arrived + k \in Nat
        BY <1>1
      <4>3. down' \in Download /\ down'.pos = down.pos /\ down'.arrived = down.arrived + k /\ down'.pc = down.pc
        BY <4>1, <4>2 DEF RestTyped, Download
      <4> QED BY <1>1, <4>2, <4>3
    <3>2. CASE down' = [down EXCEPT !.eof = TRUE]
      <4>1. down' \in Download /\ down'.pos = down.pos /\ down'.arrived = down.arrived /\ down'.pc = down.pc
        BY <3>2 DEF RestTyped, Download
      <4> QED BY <1>1, <4>1
    <3> QED BY <2>1, <3>1, <3>2
  <2>3. UNCHANGED <<up, sink, server, net, screen, aborted, faults, lost>>
    BY <1>5 DEF Arrives, Down
  <2>4. RestTyped'
    BY <2>2, <2>3 DEF RestTyped, SinkTyped
  <2>5. ReadingOK'
    BY <1>1, <2>2, <2>3 DEF ReadingOK, Promised
  <2> QED BY <2>4, <2>5
<1>6. CASE Cut /\ down'.pc # "failed"
  <2>1. down' = [down EXCEPT !.eof = TRUE] /\ UNCHANGED sink
    <3>1. down' = [down EXCEPT !.pc = "failed"] => down'.pc = "failed"
      BY DEF RestTyped, Download
    <3> QED BY <1>6, <3>1 DEF Cut
  <2>2. down' \in Download /\ down'.pos = down.pos /\ down'.arrived = down.arrived /\ down'.pc = down.pc
    BY <2>1 DEF RestTyped, Download
  <2>3. /\ server' \in Record /\ server'.blob = server.blob
        /\ server'.stray = server.stray
    <3>1. server' = [server EXCEPT !.conn = IF @ = "open" THEN "cut" ELSE @]
      BY <1>6 DEF Cut, Closed
    <3> QED BY <3>1 DEF RestTyped, Record
  <2>4. faults' \in 0..MaxFaults /\ lost' \subseteq Losses
    BY <1>6, FaultTyped DEF Cut, RestTyped, Losses
  <2>5. UNCHANGED <<up, net, screen, aborted>>
    BY <1>6 DEF Cut
  <2>6. RestTyped'
    BY <2>1, <2>2, <2>3, <2>4, <2>5 DEF RestTyped, SinkTyped
  <2>7. ReadingOK'
    BY <1>1, <2>1, <2>2, <2>3 DEF ReadingOK
  <2> QED BY <2>6, <2>7
<1>7. CASE \E pc \in {"meta", "dest", "end"} :
             /\ down'.pc = pc /\ down' \in Download /\ UNCHANGED <<up, sink, server, net, screen, aborted, faults, lost>>
             /\ down.pc \in {"header", "meta", "chunk"}
             /\ down.pos <= down'.pos /\ down'.pos <= down'.arrived /\ down'.arrived = down.arrived
  <2>1. RestTyped'
    BY <1>7 DEF RestTyped, SinkTyped
  <2>2. ReadingOK'
    BY <1>1, <1>7 DEF ReadingOK
  <2> QED BY <2>1, <2>2
<1>8. HeaderRead => Stops \/ (/\ down'.pc = "meta" /\ down' \in Download
                             /\ down.pos <= down'.pos /\ down'.pos <= down'.arrived
                             /\ down'.arrived = down.arrived /\ down.pc = "header"
                             /\ UNCHANGED <<up, sink, server, net, screen, aborted, faults, lost>>)
  <2> SUFFICES ASSUME HeaderRead, ~Stops
               PROVE  /\ down'.pc = "meta" /\ down' \in Download
                      /\ down.pos <= down'.pos /\ down'.pos <= down'.arrived
                      /\ down'.arrived = down.arrived /\ down.pc = "header"
                      /\ UNCHANGED <<up, sink, server, net, screen, aborted, faults, lost>>
    OBVIOUS
  <2>1. /\ Queued >= 1 /\ down' = [down EXCEPT !.pc = "meta", !.pos = @ + 1] /\ down.pc = "header"
        /\ UNCHANGED <<up, sink, server, net, screen, aborted, faults, lost>>
    BY <1>1 DEF HeaderRead, Down, Queued
  <2>2. down.pos + 1 \in Nat /\ down.pos + 1 <= down.arrived /\ down.pos <= down.pos + 1
    BY <1>1, <2>1 DEF Queued
  <2>3. down' \in Download /\ down'.pos = down.pos + 1 /\ down'.pc = "meta" /\ down'.arrived = down.arrived
    BY <2>1, <2>2 DEF RestTyped, Download
  <2> QED BY <2>1, <2>2, <2>3
<1>9. MetaRead => Stops \/ (/\ down'.pc = "dest" /\ down' \in Download
                           /\ down.pos <= down'.pos /\ down'.pos <= down'.arrived
                           /\ down'.arrived = down.arrived /\ down.pc = "meta"
                           /\ UNCHANGED <<up, sink, server, net, screen, aborted, faults, lost>>)
  <2> SUFFICES ASSUME MetaRead, ~Stops
               PROVE  /\ down'.pc = "dest" /\ down' \in Download
                      /\ down.pos <= down'.pos /\ down'.pos <= down'.arrived
                      /\ down'.arrived = down.arrived /\ down.pc = "meta"
                      /\ UNCHANGED <<up, sink, server, net, screen, aborted, faults, lost>>
    OBVIOUS
  <2>1. /\ Queued >= 2 /\ down' = [down EXCEPT !.pc = "dest", !.pos = @ + 2, !.counter = 1]
        /\ down.pc = "meta"
        /\ UNCHANGED <<up, sink, server, net, screen, aborted, faults, lost>>
    <3>1. SealedMeta = 2
      BY DEF SealedMeta, Tag
    <3>2. /\ ~(Queued < SealedMeta) /\ down.pc = "meta"
          /\ down' = [down EXCEPT !.pc = "dest", !.pos = @ + SealedMeta, !.counter = 1]
          /\ UNCHANGED <<up, sink, server, net, screen, aborted, faults, lost>>
      BY DEF MetaRead, Down
    <3>3. Queued \in Int
      BY <1>1 DEF Queued
    <3> QED BY <3>1, <3>2, <3>3
  <2>2. down.pos + 2 \in Nat /\ down.pos + 2 <= down.arrived /\ down.pos <= down.pos + 2
    BY <1>1, <2>1 DEF Queued
  <2>3. down' \in Download /\ down'.pos = down.pos + 2 /\ down'.pc = "dest" /\ down'.arrived = down.arrived
    <3> DEFINE pos == down.pos + 2
               v == [down EXCEPT !.pc = "dest", !.pos = pos]
    <3>1. down' = [v EXCEPT !.counter = 1] /\ pos \in Nat
      BY <2>1, <2>2
    <3> HIDE DEF pos
    <3>2. v \in Download /\ v.pos = pos /\ v.pc = "dest" /\ v.arrived = down.arrived
      BY <3>1 DEF RestTyped, Download
    <3> HIDE DEF v
    <3>3. down' \in Download /\ down'.pos = pos /\ down'.pc = "dest" /\ down'.arrived = down.arrived
      BY <3>1, <3>2 DEF Download
    <3> QED BY <3>3 DEF pos
  <2> QED BY <2>1, <2>2, <2>3
<1>10. ChunkRead => Stops \/ (/\ down'.pc = "end" /\ down' \in Download
                             /\ down.pos <= down'.pos /\ down'.pos <= down'.arrived
                             /\ down'.arrived = down.arrived /\ down.pc = "chunk"
                             /\ UNCHANGED <<up, sink, server, net, screen, aborted, faults, lost>>)
  <2> SUFFICES ASSUME ChunkRead, ~Stops
               PROVE  /\ down'.pc = "end" /\ down' \in Download
                      /\ down.pos <= down'.pos /\ down'.pos <= down'.arrived
                      /\ down'.arrived = down.arrived /\ down.pc = "chunk"
                      /\ UNCHANGED <<up, sink, server, net, screen, aborted, faults, lost>>
    OBVIOUS
  <2> DEFINE size == ChunkSize + Tag
             taken == Took(size)
             n == Least(size, Queued)
             pos == down.pos + n
  <2>1. /\ down' = [down EXCEPT !.pc = "end", !.sealed = taken, !.pos = pos] /\ down.pc = "chunk"
        /\ UNCHANGED <<up, sink, server, net, screen, aborted, faults, lost>>
    BY DEF ChunkRead, Down
  <2>2. size \in Nat
    BY UploadFields DEF Tag
  <2>3. taken \in Seq(Token) /\ n \in Nat /\ pos <= down.arrived
    BY <2>2, TookIsASeq
  <2>4. pos \in Nat /\ down.pos <= pos
    BY <1>1, <2>3
  <2> HIDE DEF taken, pos
  <2>5. down' \in Download /\ down'.pos = pos /\ down'.pc = "end" /\ down'.arrived = down.arrived
    BY <2>1, <2>3, <2>4 DEF RestTyped, Download
  <2> QED BY <2>1, <2>3, <2>4, <2>5
<1>11. CASE ChunkOpened /\ ~Stops
  <2>1. PICK final \in BOOLEAN :
          /\ down.pc = "end" /\ Opens(down.sealed, down.counter, final)
          /\ down' = [down EXCEPT !.pc = "push", !.counter = @ + 1, !.last = final, !.sealed = <<>>]
          /\ sink' = [sink EXCEPT !.feed = Append(@, down.sealed[1].of)]
          /\ UNCHANGED <<up, server, net, screen, aborted, faults, lost>>
    BY <1>11 DEF ChunkOpened
  <2>2. down.sealed \in Seq(Token) /\ down.sealed # <<>>
    BY <2>1, RestFields DEF Opens
  <2> DEFINE body == down.sealed[1].of
             none == <<>>
             n == down.counter + 1
             v == [down EXCEPT !.pc = "push", !.counter = n]
             feed == Append(sink.feed, body)
  <2>3. body \in Bytes
    <3>1. down.sealed[1] \in Token
      BY <2>2, EmptySeq, ElementOfSeq
    <3> QED BY <3>1 DEF Token
  <2>4. none \in Seq(Token) /\ n \in Nat
    BY <1>1, EmptySeq
  <2>5. down' = [[v EXCEPT !.last = final] EXCEPT !.sealed = none]
    BY <2>1
  <2> HIDE DEF none, n
  <2>6. v \in Download /\ v.pc = "push" /\ v.pos = down.pos /\ v.arrived = down.arrived
    BY <2>4 DEF RestTyped, Download
  <2> HIDE DEF v
  <2>7. down' \in Download /\ down'.pc = "push" /\ down'.pos = down.pos /\ down'.arrived = down.arrived
    BY <2>4, <2>5, <2>6 DEF Download
  <2>8. sink.feed \in Seq(Bytes) /\ Len(sink.feed) \in Nat /\ Len(sink.feed) <= 1
    BY <2>1, RestFields DEF ReadingOK
  <2> HIDE DEF body
  <2>9. feed \in Seq(Bytes) /\ Len(feed) <= 2
    BY <2>3, <2>8, AppendProperties
  <2>10. sink' = [sink EXCEPT !.feed = feed]
    BY <2>1 DEF body
  <2> HIDE DEF feed
  <2>11. SinkTyped' /\ Len(sink'.feed) <= 2
    BY <2>9, <2>10 DEF RestTyped, SinkTyped
  <2>12. RestTyped'
    BY <2>1, <2>7, <2>11 DEF RestTyped
  <2>13. ReadingOK'
    BY <1>1, <2>1, <2>7 DEF ReadingOK
  <2> QED BY <2>12, <2>13
<1>12. CASE Pushed
  <2>1. /\ Len(sink.feed) <= 1
        /\ down' = [down EXCEPT !.pc = IF down.last THEN "drain" ELSE "chunk"]
        /\ UNCHANGED <<up, sink, server, net, screen, aborted, faults, lost>>
    BY <1>12 DEF Pushed, PushReturns, Down
  <2>2. down' \in Download /\ down'.pos = down.pos /\ down'.arrived = down.arrived
    BY <2>1 DEF RestTyped, Download
  <2>3. RestTyped'
    BY <2>1, <2>2 DEF RestTyped, SinkTyped
  <2>4. ReadingOK'
    BY <1>1, <2>1, <2>2 DEF ReadingOK
  <2> QED BY <2>3, <2>4
<1>13. CASE Drained /\ ~Stops
  <2>1. /\ down' = [down EXCEPT !.pc = "done"] /\ sink' = [sink EXCEPT !.state = "closed"]
        /\ UNCHANGED <<up, server, net, screen, aborted, faults, lost>>
    BY <1>13 DEF Drained
  <2>2. down' \in Download /\ down'.pc = "done" /\ down'.pos = down.pos /\ down'.arrived = down.arrived
    BY <2>1 DEF RestTyped, Download
  <2>3. SinkTyped' /\ sink'.feed = sink.feed
    BY <2>1 DEF RestTyped, SinkTyped
  <2>4. RestTyped'
    BY <2>1, <2>2, <2>3 DEF RestTyped
  <2>5. ReadingOK'
    BY <1>1, <2>1, <2>2, <2>3 DEF ReadingOK
  <2> QED BY <2>4, <2>5

<1>14. ReceiverAborted => Stops
  BY DEF ReceiverAborted
<1>15. Downloads =>
         \/ Settles \/ Arrives \/ HeaderRead \/ MetaRead \/ ChunkRead
         \/ ChunkOpened \/ Pushed \/ Writes \/ Drained \/ Stops
  BY <1>14 DEF Downloads
<1>16. CASE HeaderRead
  BY <1>4, <1>7, <1>8, <1>16
<1>17. CASE MetaRead
  BY <1>4, <1>7, <1>9, <1>17
<1>18. CASE ChunkRead
  BY <1>4, <1>7, <1>10, <1>18
<1>19. CASE ChunkOpened
  BY <1>4, <1>11, <1>19
<1>20. CASE Drained
  BY <1>4, <1>13, <1>20
<1>21. CASE Cut
  BY <1>4, <1>6, <1>21
<1>22. CASE Stops \/ CloseFails
  BY <1>4, <1>22
<1>23. CASE CutAtEnd
  <2>1. /\ server' = [server EXCEPT !.conn = IF @ = "open" THEN "cut" ELSE @]
        /\ lost' = lost \cup {"end"} /\ UNCHANGED <<up, down, sink, net, screen, aborted>>
    BY <1>23 DEF CutAtEnd, Closed
  <2>2. /\ server' \in Record /\ server'.blob = server.blob
        /\ server'.stray = server.stray
    BY <2>1 DEF RestTyped, Record
  <2>3. faults' \in 0..MaxFaults /\ lost' \subseteq Losses
    BY <1>23, <2>1, FaultTyped DEF CutAtEnd, RestTyped, Losses
  <2>4. RestTyped'
    BY <2>1, <2>2, <2>3 DEF RestTyped, SinkTyped
  <2>5. ReadingOK'
    BY <1>1, <2>1, <2>2 DEF ReadingOK
  <2> QED BY <2>4, <2>5
<1> QED BY <1>2, <1>3, <1>5, <1>12, <1>15, <1>16, <1>17, <1>18, <1>19, <1>20, <1>21, <1>22,
           <1>23

LEMMA RestUsed ==
    ASSUME RestTyped, ReadingOK, Starts \/ Chosen \/ ReceiverCancels \/ WriteFails
    PROVE  RestTyped' /\ ReadingOK'
<1>1. CASE Starts
  <2>1. \/ \E r \in BOOLEAN : down' = [down EXCEPT !.pc = "header", !.right = r]
        \/ down' = [down EXCEPT !.pc = "failed"]
    BY <1>1 DEF Starts
  <2>2. /\ down' \in Download /\ down'.pos = down.pos /\ down'.arrived = down.arrived
        /\ down.pc = "idle"
    BY <1>1, <2>1 DEF RestTyped, Download, Starts
  <2>3. server' = server \/ server' = [server EXCEPT !.conn = "open"]
    BY <1>1 DEF Starts
  <2>4. /\ server' \in Record /\ server'.blob = server.blob
        /\ server'.stray = server.stray
    BY <2>3 DEF RestTyped, Record
  <2>5. UNCHANGED <<up, sink, net, screen, aborted, faults, lost>>
    BY <1>1 DEF Starts
  <2>6. RestTyped'
    BY <2>2, <2>4, <2>5 DEF RestTyped, SinkTyped
  <2>7. ReadingOK'
    BY <2>2, <2>4, <2>5 DEF ReadingOK
  <2> QED BY <2>6, <2>7
<1>2. CASE Chosen
  <2>1. PICK pc \in {"chunk", "failed"}, state \in {"open", "aborted"} :
          down' = [down EXCEPT !.pc = pc] /\ sink' = [sink EXCEPT !.state = state]
    BY <1>2 DEF Chosen
  <2>2. /\ down.pc = "dest" /\ UNCHANGED <<up, net, screen, aborted, faults, lost>>
        /\ \/ server' = server
           \/ server' = [server EXCEPT !.conn = IF @ = "open" THEN "cut" ELSE @]
    BY <1>2 DEF Chosen, Closed
  <2>3. down' \in Download /\ down'.pos = down.pos /\ down'.arrived = down.arrived
    BY <2>1 DEF RestTyped, Download
  <2>4. SinkTyped' /\ sink'.feed = sink.feed
    BY <2>1 DEF RestTyped, SinkTyped
  <2>5. /\ server' \in Record /\ server'.blob = server.blob
        /\ server'.stray = server.stray
    BY <2>2 DEF RestTyped, Record
  <2>6. RestTyped'
    BY <2>2, <2>3, <2>4, <2>5 DEF RestTyped
  <2>7. ReadingOK'
    BY <2>2, <2>3, <2>4, <2>5 DEF ReadingOK
  <2> QED BY <2>6, <2>7
<1>3. CASE ReceiverCancels
  BY <1>3 DEF ReceiverCancels, RestTyped, SinkTyped, ReadingOK
<1>4. CASE WriteFails
  <2>1. /\ sink' = [sink EXCEPT !.state = "broken"]
        /\ UNCHANGED <<up, down, server, net, screen, aborted, lost>>
    BY <1>4 DEF WriteFails
  <2>2. SinkTyped' /\ sink'.feed = sink.feed
    BY <2>1 DEF RestTyped, SinkTyped
  <2>3. faults' \in 0..MaxFaults
    BY <1>4, FaultTyped DEF WriteFails
  <2>4. RestTyped'
    BY <2>1, <2>2, <2>3 DEF RestTyped
  <2>5. ReadingOK'
    BY <2>1, <2>2 DEF ReadingOK
  <2> QED BY <2>4, <2>5
<1> QED BY <1>1, <1>2, <1>3, <1>4

\* Every step keeps the types.
LEMMA TypeStep == TypeInv /\ [Next]_vars => TypeInv'
<1> SUFFICES ASSUME TypeInv, [Next]_vars PROVE TypeInv'
  OBVIOUS
<1>1. UpTyped /\ RestTyped /\ ReadingOK
  BY TypesAre
<1>2. UpTyped'
  BY <1>1, UploadTyped
<1>3. CASE UNCHANGED <<down, sink, server, net, screen, aborted, faults, lost>>
  BY <1>1, <1>2, <1>3, TypesArePrimed DEF RestTyped, SinkTyped, ReadingOK
<1>4. Pushes \/ Seals \/ Reads \/ Fills \/ SourceEnds \/ Flushes \/ PartAnswered \/ SenderDeletes
        => UNCHANGED <<down, sink, server, net, screen, aborted, faults, lost>>
  BY DEF Pushes, Seals, Reads, Fills, SourceEnds, Flushes, PartAnswered, SenderDeletes, Up
<1>5. PartSent => Asks("part") \/ UNCHANGED <<down, sink, server, net, screen, aborted, faults, lost>>
  BY DEF PartSent, Up
<1>6. CASE \/ \E op \in {"part", "commit", "revoke"} : Asks(op)
           \/ PartAborted
           \/ CommitAnswered \/ RevokeAnswered \/ SenderCancels
           \/ Reserved \/ NotReserved \/ SourceFails
  BY <1>1, <1>2, <1>6, RestSent, TypesArePrimed
<1>7. CASE Uploads
  <2>1. PartSent => Asks("part") \/ UNCHANGED <<down, sink, server, net, screen, aborted, faults, lost>>
    BY <1>5
  <2>2. CommitSent => Asks("commit")
    BY DEF CommitSent
  <2>3. RevokeSent => Asks("revoke")
    BY DEF RevokeSent
  <2> QED BY <1>3, <1>4, <1>6, <1>7, <2>1, <2>2, <2>3 DEF Uploads
<1>8. CASE Answered \/ Late \/ RequestFails \/ LateFails \/ ServerDrops
  BY <1>1, <1>2, <1>8, RestAnswered, TypesArePrimed
<1>9. CASE Downloads \/ Cut \/ CutAtEnd \/ CloseFails
  BY <1>1, <1>2, <1>9, RestRead, TypesArePrimed
<1>10. CASE Starts \/ Chosen \/ ReceiverCancels \/ WriteFails
  BY <1>1, <1>2, <1>10, RestUsed, TypesArePrimed
<1>11. CASE UNCHANGED vars
  BY <1>3, <1>11 DEF vars
<1> QED BY <1>3, <1>4, <1>6, <1>7, <1>8, <1>9, <1>10, <1>11 DEF Next, Users, Faulty

LEMMA TypeInit == Init => TypeInv
<1> SUFFICES ASSUME Init PROVE TypeInv
  OBVIOUS
<1> DEFINE none == <<>>
<1>1. /\ none \in Bytes /\ none \in Seq(Bytes) /\ none \in Seq(Token) /\ Len(none) = 0
      /\ none \in Seq([bytes : Bytes, final : BOOLEAN])
  BY EmptySeq DEF Bytes
<1>2. PICK n \in Sizes :
        up = [pc |-> "init", size |-> n, at |-> 0, input |-> none, chunk |-> none,
              pending |-> none, ended |-> FALSE, yields |-> none, counter |-> 0,
              out |-> none, buffer |-> none, index |-> 0, try |-> 0, fetch |-> "none",
              why |-> "none"]
  BY DEF Init
<1>3. /\ down = [pc |-> "idle", right |-> TRUE, arrived |-> 0, pos |-> 0, eof |-> FALSE,
                 sealed |-> none, counter |-> 0, last |-> FALSE]
      /\ sink = [state |-> "none", written |-> none, feed |-> none]
      /\ server = [slot |-> "none", next |-> 0, blob |-> none, stray |-> 0,
                   conn |-> "none", counted |-> FALSE]
      /\ net = {} /\ screen = "working" /\ aborted = {} /\ faults = 0 /\ lost = {}
  BY DEF Init
<1> HIDE DEF none
<1>4. 0 \in 0..2 /\ n \in Nat /\ PartSize >= 0 /\ ChunkSize > 0 /\ 0 \in 0..MaxFaults
  BY StoredAssumption DEF StoredAssumption
<1>5. UpTyped
  <2>1. up \in Upload
    BY <1>1, <1>2, <1>4 DEF Upload
  <2>2. up.buffer = none /\ up.chunk = none /\ up.pending = none /\ up.at = 0 /\ up.size = n
    BY <1>2
  <2> QED BY <1>1, <1>4, <2>1, <2>2 DEF UpTyped
<1>6. down \in Download /\ server \in Record /\ SinkTyped
  BY <1>1, <1>3 DEF Download, Record, SinkTyped
<1>7. RestTyped
  BY <1>1, <1>3, <1>4, <1>6 DEF RestTyped
<1>8. ReadingOK
  BY <1>1, <1>3 DEF ReadingOK
<1> QED BY <1>5, <1>7, <1>8, TypesAre

LEMMA TypesHold == Spec => []TypeInv
<1>1. Init => TypeInv
  BY TypeInit
<1>2. TypeInv /\ [Next]_vars => TypeInv'
  BY TypeStep
<1> QED BY <1>1, <1>2, PTL DEF Spec

\* What both browsers, the network and the server hold is always of its type:
\* attempts are counted to two, no part is larger than PartSize, rechunk holds
\* less than a chunk and at most one back (stored.ts:95-138, api.ts:60-90), and
\* the destination's feed never more than two chunks (chunker.ts).
THEOREM ClientTypesCorrect == Spec => []TypeOK
<1>1. TypeInv => TypeOK
  BY DEF TypeInv
<1> QED BY <1>1, TypesHold, PTL

----------------------------------------------------------------------------
(* Requests *)

\* The request that the upload has to be waiting for.
Asking(op) ==
    \/ op = "part" /\ up.pc = "part"
    \/ op = "commit" /\ up.pc = "commit"
    \/ op = "revoke" /\ up.pc \in {"revoke", "deleting"}

\* The caller still waits for this request.
Waited(r) == r.live = TRUE

\* There is at most one request whose answer is waited for, and the upload is
\* where it was made.
CallInv ==
    /\ up.why = "none" <=> up.pc \notin {"revoke", "failed"}
    /\ up.why = "init" => up.pc = "failed"
    /\ \A r \in net : Waited(r) => /\ up.fetch = "waiting" /\ r.index = up.index
                                   /\ Asking(r.op)
    /\ \A r, s \in net : Waited(r) /\ Waited(s) => r = s
    /\ up.fetch # "none" => up.pc \in {"part", "commit", "revoke", "deleting"}

\* A revocation that was answered, and not lost, has removed the transfer.
RevokeInv ==
    "revoke" \notin lost =>
        /\ up.pc \in {"revoke", "deleting"} /\ up.fetch \in Status => server.slot = "gone"
        /\ up.pc = "failed" /\ up.why # "init" => server.slot = "gone"

\* Parts are being made.
Uploading == up.pc \in {"send", "part"}

\* Everything has been sent, whatever became of the commit.
Complete == up.pc \in {"commit", "stored", "deleting", "deleted"} \/ up.why = "commit"

\* Only a complete upload can be committed, and only a committed one downloaded.
CommitInv ==
    /\ server.slot = "committed" => Complete
    /\ \A r \in net : r.op = "commit" => Complete
    /\ server.conn # "none" => Complete

LEMMA UpFieldTypes ==
    ASSUME UpTyped
    PROVE  /\ up.pc \in {"init", "send", "part", "commit", "revoke", "stored", "deleting",
                         "deleted", "failed"}
           /\ up.fetch \in {"none", "waiting"} \cup Status
           /\ up.why \in {"none", "init", "source", "cancelled", "part", "commit"}
           /\ up.ended \in BOOLEAN
BY DEF UpTyped, Upload

LEMMA ThrowsFields ==
    ASSUME UpTyped, NEW why, up' = Throws(up, why)
    PROVE  /\ up'.pc = "revoke" /\ up'.why = why /\ up'.fetch = "none"
           /\ up'.index = up.index /\ up'.size = up.size /\ up'.counter = up.counter
           /\ up'.buffer = up.buffer /\ up'.out = up.out /\ up'.try = up.try
BY DEF Throws, UpTyped, Upload

\* The steps of the upload between two requests.
Local == \/ Reserved \/ Pushes \/ Seals \/ Reads \/ Fills \/ SourceEnds \/ Flushes
         \/ SourceFails \/ NotReserved \/ SenderDeletes

\* What the steps between two requests do to the fields the requests depend on.
LEMMA LocalFields ==
    ASSUME UpTyped, Local
    PROVE  /\ up.pc \in {"init", "send", "stored"}
           /\ up'.fetch = "none" \/ up'.fetch = up.fetch
           /\ up'.size = up.size /\ up'.index = up.index /\ up'.try = up.try
           /\ net' = net
           /\ up.pc = "init" => (Reserved \/ NotReserved)
           /\ up.pc = "stored" => SenderDeletes
           /\ \/ up'.pc \in {"send", "part", "commit"} /\ up'.why = up.why
                   /\ up.pc \in {"init", "send"}
              \/ up'.pc = "revoke" /\ up'.why \in {"source", "cancelled"} /\ up.pc = "send"
              \/ up'.pc = "failed" /\ up'.why = "init" /\ up.pc = "init"
              \/ up'.pc = "deleting" /\ up'.why = up.why /\ up.pc = "stored"
<1>1. CASE Reserved
  <2>1. up' = [up EXCEPT !.pc = "send", !.out = Header \o Metadata, !.counter = 1]
        /\ up.pc = "init" /\ net' = net
    BY <1>1 DEF Reserved
  <2> QED BY <1>1, <2>1 DEF UpTyped, Upload
<1>2. CASE Pushes
  <2>1. PICK part, rest :
          up' = [up EXCEPT !.buffer = part, !.out = rest,
                           !.pc = IF Len(part) = PartSize THEN "part" ELSE @]
    BY <1>2 DEF Pushes, Up
  <2>2. up.pc = "send" /\ net' = net
    BY <1>2 DEF Pushes, Up
  <2> QED BY <2>1, <2>2 DEF UpTyped, Upload
<1>3. CASE Seals /\ "sender" \in aborted
  <2>1. up' = Throws(up, "cancelled") /\ up.pc = "send" /\ net' = net
    BY <1>3 DEF Seals, Up
  <2> QED BY <2>1, ThrowsFields
<1>4. CASE Seals /\ "sender" \notin aborted
  <2>1. PICK y : up' = [up EXCEPT !.out = Seal(up.counter, y.final, y.bytes),
                                  !.counter = @ + 1, !.yields = Tail(@)]
    BY <1>4 DEF Seals, Up
  <2>2. up.pc = "send" /\ net' = net
    BY <1>4 DEF Seals, Up
  <2> QED BY <2>1, <2>2 DEF UpTyped, Upload
<1>5. CASE Reads
  <2>1. PICK k : up' = [up EXCEPT !.input = SubSeq(File, up.at + 1, up.at + k), !.at = @ + k]
    BY <1>5 DEF Reads, Up
  <2>2. up.pc = "send" /\ net' = net
    BY <1>5 DEF Reads, Sending, Up
  <2> QED BY <2>1, <2>2 DEF UpTyped, Upload
<1>6. CASE Fills
  <2>1. PICK chunk, rest :
          \/ up' = [up EXCEPT !.chunk = chunk, !.input = rest]
          \/ up' = [up EXCEPT !.chunk = <<>>, !.input = rest,
                              !.yields = HeldBack(FALSE), !.pending = <<chunk>>]
    BY <1>6 DEF Fills, Up
  <2>2. up.pc = "send" /\ net' = net
    BY <1>6 DEF Fills, Sending, Up
  <2> QED BY <2>1, <2>2 DEF UpTyped, Upload
<1>7. CASE SourceEnds
  <2>1. up' = [up EXCEPT !.ended = TRUE, !.yields = LastYields, !.chunk = <<>>,
                         !.pending = <<>>]
    BY <1>7 DEF SourceEnds, Up
  <2>2. up.pc = "send" /\ net' = net
    BY <1>7 DEF SourceEnds, Sending, Up
  <2> QED BY <2>1, <2>2 DEF UpTyped, Upload
<1>8. CASE Flushes
  <2>1. up' = [up EXCEPT !.pc = IF up.buffer = <<>> THEN "commit" ELSE "part"]
        /\ up.pc = "send" /\ net' = net
    BY <1>8 DEF Flushes, Sending, Up
  <2> QED BY <2>1 DEF UpTyped, Upload
<1>9. CASE SourceFails
  <2>1. up' = Throws(up, "source") /\ up.pc = "send" /\ net' = net
    BY <1>9 DEF SourceFails, Sending
  <2> QED BY <2>1, ThrowsFields
<1>10. CASE NotReserved
  <2>1. up' = [up EXCEPT !.pc = "failed", !.why = "init"] /\ up.pc = "init" /\ net' = net
    BY <1>10 DEF NotReserved
  <2> QED BY <1>10, <2>1 DEF UpTyped, Upload
<1>11. CASE SenderDeletes
  <2>1. up' = [up EXCEPT !.pc = "deleting"] /\ up.pc = "stored" /\ net' = net
    BY <1>11 DEF SenderDeletes, Up
  <2> QED BY <1>11, <2>1 DEF UpTyped, Upload
<1> QED BY <1>1, <1>2, <1>3, <1>4, <1>5, <1>6, <1>7, <1>8, <1>9, <1>10, <1>11 DEF Local

\* What a step that is not the upload's may do to what the upload relies on.
Aside ==
    /\ up' = up /\ net' = net
    /\ server'.next = server.next /\ server'.blob = server.blob
    /\ server'.stray = server.stray
    /\ server'.slot = server.slot \/ (server'.slot = "gone" /\ ("slot" \in lost' \/ server.conn # "none"))
    /\ server'.conn # "none" => server.conn # "none" \/ server.slot = "committed"
    /\ lost \subseteq lost' /\ faults <= faults'

\* The steps that are not the upload's.
LEMMA StepsAside ==
    ASSUME RestTyped,
           Downloads \/ SenderCancels \/ Starts \/ Chosen \/ ReceiverCancels
             \/ ServerDrops \/ Cut \/ CutAtEnd \/ WriteFails \/ CloseFails \/ UNCHANGED vars
    PROVE  Aside
<1>0. faults \in Nat /\ server \in Record
  BY RestFields DEF RestTyped
<1>1. CASE UNCHANGED <<up, net, server, lost, faults>>
  BY <1>0, <1>1 DEF Aside
<1>3. CASE Settles
  <2>1. PICK whole : server' = [server EXCEPT !.conn = "settled", !.counted = whole,
                                              !.slot = IF whole THEN "gone" ELSE @]
    BY <1>3 DEF Settles
  <2>2. server.conn # "none" /\ UNCHANGED <<up, net, lost, faults>>
    BY <1>3 DEF Settles
  <2> QED BY <1>0, <2>1, <2>2 DEF Aside, Record
<1>4. CASE UNCHANGED <<up, net, lost, faults>>
           /\ server' = [server EXCEPT !.conn = IF @ = "open" THEN "cut" ELSE @]
  BY <1>0, <1>4 DEF Aside, Record
<1>5. Stops => UNCHANGED <<up, net, lost, faults>>
               /\ server' = [server EXCEPT !.conn = IF @ = "open" THEN "cut" ELSE @]
  BY DEF Stops, Closed
<1>6. CASE Starts
  <2>1. \/ UNCHANGED <<up, net, server, lost, faults>>
        \/ /\ server.slot = "committed" /\ server' = [server EXCEPT !.conn = "open"]
           /\ UNCHANGED <<up, net, lost, faults>>
    BY <1>6 DEF Starts
  <2>2. CASE server.slot = "committed" /\ server' = [server EXCEPT !.conn = "open"]
             /\ UNCHANGED <<up, net, lost, faults>>
    BY <1>0, <2>2 DEF Aside, Record
  <2> QED BY <1>1, <2>1, <2>2
<1>7. CASE ServerDrops
  <2>1. /\ server' = [server EXCEPT !.slot = "gone"] /\ lost' = lost \cup {"slot"}
        /\ UNCHANGED <<up, net>> /\ faults' = faults + 1
    BY <1>7 DEF ServerDrops, Fault
  <2> QED BY <1>0, <2>1 DEF Aside, Record
<1>8. CASE Cut \/ CutAtEnd \/ CloseFails
  <2>1. /\ server' = [server EXCEPT !.conn = IF @ = "open" THEN "cut" ELSE @]
        /\ lost \subseteq lost' /\ UNCHANGED <<up, net>> /\ faults' = faults + 1
    BY <1>8 DEF Cut, CutAtEnd, CloseFails, Closed, Fault
  <2> QED BY <1>0, <2>1 DEF Aside, Record
<1>9. CASE WriteFails
  <2>1. UNCHANGED <<up, net, server, lost>> /\ faults' = faults + 1
    BY <1>9 DEF WriteFails, Fault
  <2> QED BY <1>0, <2>1 DEF Aside, Record
<1>10. CASE Downloads
  <2>1. Arrives \/ Pushed \/ Writes => UNCHANGED <<up, net, server, lost, faults>>
    BY DEF Arrives, Pushed, Writes, Down
  <2>2. HeaderRead => Stops \/ UNCHANGED <<up, net, server, lost, faults>>
    BY DEF HeaderRead, Down
  <2>3. MetaRead => Stops \/ UNCHANGED <<up, net, server, lost, faults>>
    BY DEF MetaRead, Down
  <2>4. ChunkRead => Stops \/ UNCHANGED <<up, net, server, lost, faults>>
    BY DEF ChunkRead, Down
  <2>5. ChunkOpened => Stops \/ UNCHANGED <<up, net, server, lost, faults>>
    BY DEF ChunkOpened
  <2>6. Drained => Stops \/ UNCHANGED <<up, net, server, lost, faults>>
    BY DEF Drained
  <2>7. ReceiverAborted => Stops
    BY DEF ReceiverAborted
  <2> QED BY <1>1, <1>3, <1>4, <1>5, <1>10, <2>1, <2>2, <2>3, <2>4, <2>5, <2>6, <2>7
          DEF Downloads
<1>11. CASE SenderCancels \/ Chosen \/ ReceiverCancels \/ UNCHANGED vars
  BY <1>1, <1>4, <1>11 DEF SenderCancels, Chosen, Closed, ReceiverCancels, vars
<1> QED BY <1>6, <1>7, <1>8, <1>9, <1>10, <1>11

\* The two ways to stop waiting for a part.
PartStopped ==
    /\ up.pc = "part" /\ up' = Throws(up, "cancelled")
    /\ \/ up.fetch = "none" /\ net' = net
       \/ PartAborted
    /\ UNCHANGED <<server, lost, faults>>

\* An answer is taken up.
Received == PartAnswered \/ CommitAnswered \/ RevokeAnswered

\* A request fails, while its caller waits for it or after it gave up.
Failed == RequestFails \/ LateFails

\* Every step is of one of these kinds.
LEMMA StepsAre ==
    ASSUME RestTyped, [Next]_vars
    PROVE  \/ Local \/ Aside \/ Received \/ PartStopped \/ Failed
           \/ \E op \in {"part", "commit", "revoke"} : Asks(op) /\ Asking(op)
           \/ \E r \in net : Answers(r)
<1>1. CASE Uploads
  <2>1. PartSent => PartStopped \/ (Asks("part") /\ Asking("part"))
    BY DEF PartSent, PartStopped, Asking, Up
  <2>2. PartAborted => PartStopped
    BY DEF PartAborted, PartStopped
  <2>3. CommitSent => Asks("commit") /\ Asking("commit")
    BY DEF CommitSent, Asking
  <2>4. RevokeSent => Asks("revoke") /\ Asking("revoke")
    BY DEF RevokeSent, Asking
  <2> QED BY <1>1, <2>1, <2>2, <2>3, <2>4 DEF Uploads, Local, Received
<1>2. CASE Answered \/ Late
  BY <1>2 DEF Answered, Late
<1>3. CASE NotReserved \/ SourceFails \/ SenderDeletes
  BY <1>3 DEF Local
<1>4. CASE Downloads \/ SenderCancels \/ Starts \/ Chosen \/ ReceiverCancels
             \/ ServerDrops \/ Cut \/ CutAtEnd \/ WriteFails \/ CloseFails \/ UNCHANGED vars
  BY <1>4, StepsAside
<1> QED BY <1>1, <1>2, <1>3, <1>4 DEF Next, Users, Faulty, Failed

\* What the server's answer makes of the slot.
LEMMA AfterSlot ==
    ASSUME RestTyped, NEW r \in net
    PROVE  /\ server.slot = "gone" => After(r) = server
           /\ \/ After(r).slot = server.slot
              \/ (After(r).slot = "committed" /\ r.op = "commit")
              \/ (After(r).slot = "gone" /\ r.op = "revoke")
           /\ r.op = "revoke" => After(r).slot = "gone"
           /\ r.op # "part" => After(r).blob = server.blob /\ After(r).next = server.next
<1>1. r.op \in {"part", "commit", "revoke"} /\ server \in Record
  BY RequestFields DEF RestTyped
<1>2. server.slot \in {"none", "open", "committed", "gone"}
  BY <1>1 DEF Record
<1>3. server.slot = "gone" => After(r) = server
  BY DEF After, Answer, Current
<1>4. CASE Answer(r) # "ok"
  <2>1. After(r) = server
    BY <1>4 DEF After
  <2>2. r.op # "part" => server.slot = "gone"
    BY <1>1, <1>4 DEF Answer, Current
  <2> QED BY <1>1, <1>3, <2>1, <2>2
<1>5. CASE Answer(r) = "ok" /\ r.op = "commit"
  <2>1. After(r) = [server EXCEPT !.slot = "committed"]
    BY <1>5 DEF After
  <2> QED BY <1>1, <1>3, <1>5, <2>1 DEF Record
<1>6. CASE Answer(r) = "ok" /\ r.op = "revoke"
  <2>1. After(r) = [server EXCEPT !.slot = "gone"]
    BY <1>6 DEF After
  <2> QED BY <1>1, <1>3, <1>6, <2>1 DEF Record
<1>7. CASE Answer(r) = "ok" /\ r.op = "part"
  <2>1. After(r) = server \/ After(r) = [server EXCEPT !.blob = @ \o r.body, !.next = r.index + 1]
    BY <1>7 DEF After
  <2>2. After(r).slot = server.slot
    BY <1>1, <2>1 DEF Record
  <2> QED BY <1>3, <1>7, <2>2
<1> QED BY <1>1, <1>4, <1>5, <1>6, <1>7

\* Where an answer leads.
LEMMA ReceivedFields ==
    ASSUME UpTyped, Received
    PROVE  /\ up.fetch \in Status /\ up'.fetch = "none" /\ net' = net /\ server' = server
           /\ lost' = lost /\ faults' = faults /\ up'.size = up.size
           /\ \/ up.pc = "part" /\ up'.pc = "send" /\ up'.why = up.why /\ up.fetch = "ok"
              \/ up.pc = "part" /\ up'.pc = "part" /\ up'.why = up.why /\ up.fetch # "ok"
              \/ up.pc = "part" /\ up'.pc = "revoke" /\ up'.why \in {"cancelled", "part"}
              \/ up.pc = "commit" /\ up'.pc = "stored" /\ up'.why = up.why
              \/ up.pc = "commit" /\ up'.pc = "revoke" /\ up'.why = "commit"
              \/ up.pc = "revoke" /\ up'.pc = "failed" /\ up'.why = up.why
              \/ up.pc = "deleting" /\ up'.pc = "deleted" /\ up'.why = up.why
<1>1. CASE PartAnswered /\ up.fetch = "ok"
  <2>1. up' = [up EXCEPT !.pc = "send", !.index = @ + 1, !.buffer = <<>>, !.try = 0,
                         !.fetch = "none"]
    BY <1>1 DEF PartAnswered, Up
  <2>2. up'.pc = "send" /\ up'.why = up.why /\ up'.fetch = "none" /\ up'.size = up.size
    BY <2>1 DEF UpTyped, Upload
  <2> QED BY <1>1, <2>2 DEF PartAnswered, Up
<1>2. CASE \E why \in {"cancelled", "part"} : PartAnswered /\ up' = Throws(up, why)
  BY <1>2, ThrowsFields DEF PartAnswered, Up
<1>3. CASE PartAnswered /\ up.fetch # "ok" /\ up' = [up EXCEPT !.try = @ + 1, !.fetch = "none"]
  <2>1. up'.pc = up.pc /\ up'.why = up.why /\ up'.fetch = "none" /\ up'.size = up.size
    BY <1>3 DEF UpTyped, Upload
  <2> QED BY <1>3, <2>1 DEF PartAnswered, Up
<1>4. PartAnswered =>
        \/ up.fetch = "ok"
        \/ \E why \in {"cancelled", "part"} : up' = Throws(up, why)
        \/ (up.fetch # "ok" /\ up' = [up EXCEPT !.try = @ + 1, !.fetch = "none"])
  BY DEF PartAnswered, Up, TriesAgain
<1>5. CASE CommitAnswered
  <2>1. \/ up' = [up EXCEPT !.pc = "stored", !.fetch = "none"]
        \/ up' = Throws(up, "commit")
    BY <1>5 DEF CommitAnswered, GivesUp
  <2>2. \/ up'.pc = "stored" /\ up'.why = up.why /\ up'.fetch = "none" /\ up'.size = up.size
        \/ up'.pc = "revoke" /\ up'.why = "commit" /\ up'.fetch = "none" /\ up'.size = up.size
    BY <2>1, ThrowsFields DEF UpTyped, Upload
  <2> QED BY <1>5, <2>2 DEF CommitAnswered
<1>6. CASE RevokeAnswered
  <2>1. up' = [up EXCEPT !.pc = IF @ = "revoke" THEN "failed" ELSE "deleted", !.fetch = "none"]
    BY <1>6 DEF RevokeAnswered
  <2>2. up'.pc = (IF up.pc = "revoke" THEN "failed" ELSE "deleted")
        /\ up'.why = up.why /\ up'.fetch = "none" /\ up'.size = up.size
    BY <2>1 DEF UpTyped, Upload
  <2> QED BY <1>6, <2>2 DEF RevokeAnswered
<1> QED BY <1>1, <1>2, <1>3, <1>4, <1>5, <1>6 DEF Received

\* What asking adds.
LEMMA AsksFields ==
    ASSUME UpTyped, RestTyped, NEW op \in {"part", "commit", "revoke"}, Asks(op)
    PROVE  /\ up.fetch = "none" /\ up'.fetch = "waiting"
           /\ up'.pc = up.pc /\ up'.why = up.why /\ up'.index = up.index
           /\ up'.size = up.size /\ up'.buffer = up.buffer /\ up'.out = up.out
           /\ up'.counter = up.counter /\ up'.try = up.try
           /\ UNCHANGED <<server, lost, faults>>
           /\ \A r \in net' : \/ r \in net
                              \/ /\ r.op = op /\ r.index = up.index /\ Waited(r)
                                 /\ r.body = (IF op = "part" THEN up.buffer ELSE <<>>)
           /\ \A r, s \in net' : r \notin net /\ s \notin net => r = s
<1>1. up' = [up EXCEPT !.fetch = "waiting"] /\ up.fetch = "none"
      /\ UNCHANGED <<server, lost, faults>>
  BY DEF Asks
<1>2. PICK x : /\ x = [op |-> op, index |-> up.index, live |-> TRUE,
                       body |-> IF op = "part" THEN up.buffer ELSE <<>>]
               /\ net' = net \cup {x}
  BY DEF Asks
<1>3. /\ x.op = op /\ x.index = up.index /\ x.live = TRUE
      /\ x.body = (IF op = "part" THEN up.buffer ELSE <<>>)
  BY <1>2
<1>4. \A r \in net' : r \in net \/ r = x
  BY <1>2
<1>5. /\ up'.fetch = "waiting" /\ up'.pc = up.pc /\ up'.why = up.why /\ up'.index = up.index
      /\ up'.size = up.size /\ up'.buffer = up.buffer /\ up'.out = up.out
      /\ up'.counter = up.counter /\ up'.try = up.try
  BY <1>1 DEF UpTyped, Upload
<1> QED BY <1>1, <1>3, <1>4, <1>5 DEF Waited

\* What is left of the requests when one is answered, fails or is abandoned.
LEMMA UnheardFields ==
    \A r \in Request : /\ Unheard(r).op = r.op /\ Unheard(r).index = r.index
                       /\ Unheard(r).body = r.body /\ ~Waited(Unheard(r))
BY DEF Request, Unheard, Waited

\* What an answer takes away.
LEMMA AnswersFields ==
    ASSUME UpTyped, RestTyped, NEW r \in net, Answers(r)
    PROVE  /\ server' = After(r) /\ net' = net \ {r} /\ UNCHANGED <<lost, faults>>
           /\ up' = IF Waited(r) THEN [up EXCEPT !.fetch = Answer(r)] ELSE up
           /\ up'.fetch = IF Waited(r) THEN Answer(r) ELSE up.fetch
           /\ up'.pc = up.pc /\ up'.why = up.why /\ up'.index = up.index
           /\ up'.size = up.size /\ up'.buffer = up.buffer /\ up'.out = up.out
           /\ up'.counter = up.counter /\ up'.try = up.try
<1>1. r.live \in BOOLEAN
  BY RequestFields DEF RestTyped
<1>2. /\ server' = After(r) /\ net' = net \ {r} /\ UNCHANGED <<lost, faults>>
      /\ up' = IF Waited(r) THEN [up EXCEPT !.fetch = Answer(r)] ELSE up
  BY <1>1 DEF Answers, Waited
<1>3. CASE Waited(r)
  <2>1. up' = [up EXCEPT !.fetch = Answer(r)]
    BY <1>2, <1>3
  <2> QED BY <1>2, <1>3, <2>1 DEF UpTyped, Upload
<1>4. CASE ~Waited(r)
  BY <1>2, <1>4
<1> QED BY <1>3, <1>4

\* What a failure makes of the record: nothing, all that was asked, or a part
\* appended by halves.
Ruined(r) ==
    \E s \in {server, After(r)} :
      /\ server'.slot = s.slot /\ server'.next = s.next /\ server'.conn = s.conn
      /\ server'.counted = s.counted
      /\ \/ server' = s
         \/ s = server /\ "torn" \in lost' /\ Halved(server', r)

\* What it leaves of the request, and what its caller hears of it.
Missed(r) ==
    /\ net' \subseteq (net \ {r}) \cup {Unheard(r)}
    /\ lost \subseteq lost' /\ r.op \in lost' /\ faults' = faults + 1
    /\ \/ Waited(r) /\ up'.fetch \in {"5xx", "error"}
       \/ ~Waited(r) /\ up' = up
    /\ up'.pc = up.pc /\ up'.why = up.why /\ up'.index = up.index
    /\ up'.size = up.size /\ up'.buffer = up.buffer /\ up'.out = up.out
    /\ up'.counter = up.counter /\ up'.try = up.try

\* What a failure takes away.
LEMMA FailsFields ==
    ASSUME UpTyped, RestTyped, Failed
    PROVE  \E r \in net : Ruined(r) /\ Missed(r)
<1>1. PICK r \in net :
        /\ r.live \in BOOLEAN
        /\ \/ Effect(r)
           \/ server' = server /\ lost' = lost \cup {r.op}
        /\ net' \subseteq (net \ {r}) \cup {Unheard(r)} /\ faults' = faults + 1
        /\ \/ r.live /\ \E a \in {"5xx", "error"} : up' = [up EXCEPT !.fetch = a]
           \/ ~r.live /\ up' = up
  BY RequestFields DEF RestTyped, Failed, RequestFails, LateFails, Fault
<1>2. Ruined(r)
  <2>1. CASE server' \in {server, After(r)}
    BY <2>1 DEF Ruined
  <2>2. CASE HalfDone(r) /\ lost' = lost \cup {r.op, "torn"}
    <3>1. Halved(server', r)
      BY <2>2, HalfTyped
    <3>2. /\ server'.slot = server.slot /\ server'.next = server.next
          /\ server'.conn = server.conn /\ server'.counted = server.counted
      BY <3>1 DEF Halved
    <3> QED BY <2>2, <3>1, <3>2 DEF Ruined
  <2> QED BY <1>1, <2>1, <2>2 DEF Effect
<1>3. lost \subseteq lost' /\ r.op \in lost'
  BY <1>1 DEF Effect
<1>4. CASE ~r.live /\ up' = up
  BY <1>1, <1>2, <1>3, <1>4 DEF Missed, Waited
<1>5. CASE r.live /\ \E a \in {"5xx", "error"} : up' = [up EXCEPT !.fetch = a]
  <2>1. PICK a \in {"5xx", "error"} : up' = [up EXCEPT !.fetch = a]
    BY <1>5
  <2>2. /\ up'.fetch \in {"5xx", "error"}
        /\ up'.pc = up.pc /\ up'.why = up.why /\ up'.index = up.index
        /\ up'.size = up.size /\ up'.buffer = up.buffer /\ up'.out = up.out
        /\ up'.counter = up.counter /\ up'.try = up.try
    BY <2>1 DEF UpTyped, Upload
  <2> QED BY <1>1, <1>2, <1>3, <1>5, <2>2 DEF Missed, Waited
<1> QED BY <1>1, <1>4, <1>5

\* There is one request at a time, whatever happens.
LEMMA CallStep ==
    ASSUME UpTyped, RestTyped, CallInv, [Next]_vars
    PROVE  CallInv'
<1> USE DEF CallInv
<1>1. CASE Local
  <2>1. up.pc \notin {"part", "commit", "revoke", "deleting"}
    BY <1>1, LocalFields
  <2>2. up.fetch = "none" /\ \A r \in net : ~Waited(r)
    BY <2>1
  <2> QED BY <1>1, <2>1, <2>2, LocalFields DEF Asking, Waited
<1>2. CASE Aside
  BY <1>2 DEF Aside, Asking, Waited
<1>3. CASE Received
  <2>1. up.fetch \in Status /\ net' = net
    BY <1>3, ReceivedFields
  <2>2. \A r \in net : ~Waited(r)
    BY <2>1 DEF Status
  <2> QED BY <1>3, <2>1, <2>2, ReceivedFields DEF Waited
<1>4. CASE PartStopped
  <2>1. \A r \in net' : ~Waited(r)
    <3>1. CASE up.fetch = "none" /\ net' = net
      BY <3>1
    <3>2. CASE PartAborted
      <4>1. PICK r \in net : r.live /\ net' \in {net \ {r}, (net \ {r}) \cup {Unheard(r)}}
        BY <3>2 DEF PartAborted
      <4>2. Waited(r) /\ ~Waited(Unheard(r))
        BY <4>1, RequestFields, UnheardFields DEF Waited, RestTyped
      <4> QED BY <4>1, <4>2
    <3> QED BY <1>4, <3>1, <3>2 DEF PartStopped
  <2>2. up'.pc = "revoke" /\ up'.why = "cancelled" /\ up'.fetch = "none"
    BY <1>4, ThrowsFields DEF PartStopped
  <2> QED BY <2>1, <2>2 DEF Waited
<1>5. CASE Failed
  <2>1. PICK r \in net : Missed(r)
    BY <1>5, FailsFields
  <2>2. ~Waited(Unheard(r)) /\ net' \subseteq (net \ {r}) \cup {Unheard(r)}
    BY <2>1, UnheardFields DEF RestTyped, Missed
  <2>3. \A s \in net' : Waited(s) => s \in net /\ s # r
    BY <2>2
  <2>4. CASE Waited(r)
    <3>1. \A s \in net' : ~Waited(s)
      BY <2>3, <2>4
    <3>2. up.fetch = "waiting" /\ up'.pc = up.pc /\ up'.why = up.why
      BY <2>1, <2>4 DEF Missed
    <3> QED BY <3>1, <3>2 DEF Waited
  <2>5. CASE ~Waited(r)
    <3>1. up' = up
      BY <2>1, <2>5 DEF Missed
    <3> QED BY <2>3, <3>1 DEF Waited, Asking
  <2> QED BY <2>4, <2>5
<1>6. CASE \E op \in {"part", "commit", "revoke"} : Asks(op) /\ Asking(op)
  <2>1. PICK op \in {"part", "commit", "revoke"} : Asks(op) /\ Asking(op)
    BY <1>6
  <2>2. up.fetch = "none" /\ \A r \in net : ~Waited(r)
    BY <2>1, AsksFields
  <2>3. \A r \in net' : Waited(r) => r \notin net /\ r.op = op /\ r.index = up.index
    BY <2>1, <2>2, AsksFields
  <2>4. /\ up'.fetch = "waiting" /\ up'.pc = up.pc /\ up'.why = up.why /\ up'.index = up.index
        /\ \A r, s \in net' : r \notin net /\ s \notin net => r = s
    BY <2>1, AsksFields
  <2>5. Asking(op)'
    BY <2>1, <2>4 DEF Asking
  <2>6. up'.pc \in {"part", "commit", "revoke", "deleting"}
    BY <2>5 DEF Asking
  <2>7. \A r \in net' : Waited(r) => Asking(r.op)'
    BY <2>3, <2>5
  <2> QED BY <2>3, <2>4, <2>6, <2>7 DEF Waited
<1>7. CASE \E r \in net : Answers(r)
  <2>1. PICK r \in net : Answers(r)
    BY <1>7
  <2>2. net' = net \ {r} /\ up'.pc = up.pc /\ up'.why = up.why /\ up'.index = up.index
        /\ up'.fetch = IF Waited(r) THEN Answer(r) ELSE up.fetch
    BY <2>1, AnswersFields
  <2>3. CASE Waited(r)
    <3>1. \A s \in net' : ~Waited(s)
      BY <2>2, <2>3
    <3> QED BY <2>2, <2>3, <3>1 DEF Waited
  <2>4. CASE ~Waited(r)
    BY <2>2, <2>4 DEF Waited, Asking
  <2> QED BY <2>3, <2>4
<1> QED BY <1>1, <1>2, <1>3, <1>4, <1>5, <1>6, <1>7, StepsAre

\* Nothing brings a transfer back.
LEMMA GoneStays ==
    ASSUME UpTyped, RestTyped, [Next]_vars, server.slot = "gone", up.pc # "init"
    PROVE  server'.slot = "gone"
<1>1. CASE Local
  <2>1. ~Reserved /\ ~NotReserved
    BY DEF Reserved, NotReserved
  <2>2. server' = server
    BY <1>1, <2>1 DEF Local, Pushes, Seals, Reads, Fills, SourceEnds, Flushes, SourceFails,
                      SenderDeletes, Up
  <2> QED BY <2>2
<1>2. CASE Aside
  BY <1>2 DEF Aside
<1>3. CASE Received
  BY <1>3, ReceivedFields
<1>4. CASE PartStopped
  BY <1>4 DEF PartStopped
<1>5. CASE \E op \in {"part", "commit", "revoke"} : Asks(op) /\ Asking(op)
  BY <1>5, AsksFields
<1>6. CASE \E r \in net : server'.slot \in {server.slot, After(r).slot}
  BY <1>6, AfterSlot
<1>7. (\E r \in net : Answers(r)) \/ Failed
        => \E r \in net : server'.slot \in {server.slot, After(r).slot}
  BY AnswersFields, FailsFields DEF Ruined
<1> QED BY <1>1, <1>2, <1>3, <1>4, <1>5, <1>6, <1>7, StepsAre

\* An answered revocation has removed the transfer.
LEMMA RevokeStep ==
    ASSUME UpTyped, RestTyped, CallInv, RevokeInv, [Next]_vars
    PROVE  RevokeInv'
<1> SUFFICES ASSUME "revoke" \notin lost'
             PROVE  /\ up'.pc \in {"revoke", "deleting"} /\ up'.fetch \in Status
                         => server'.slot = "gone"
                    /\ up'.pc = "failed" /\ up'.why # "init" => server'.slot = "gone"
  BY DEF RevokeInv, Status
<1> DEFINE Claim == /\ up'.pc \in {"revoke", "deleting"} /\ up'.fetch \in Status
                         => server'.slot = "gone"
                    /\ up'.pc = "failed" /\ up'.why # "init" => server'.slot = "gone"
<1>0. \A s \in Status : s # "none" /\ s # "waiting"
  BY DEF Status
<1>1. CASE Local
  <2>1. up.fetch = "none"
    BY <1>1, LocalFields DEF CallInv
  <2>2. up'.fetch = "none"
    BY <1>1, <2>1, LocalFields
  <2>3. ~(up'.pc = "failed" /\ up'.why # "init")
    BY <1>1, LocalFields
  <2> QED BY <1>0, <2>2, <2>3
<1>2. CASE Aside
  <2>1. up' = up /\ "revoke" \notin lost /\ (server.slot = "gone" => server'.slot = "gone")
    BY <1>2 DEF Aside
  <2> QED BY <2>1 DEF RevokeInv
<1>3. CASE Received
  <2>1. up.fetch \in Status /\ up'.fetch = "none" /\ server' = server /\ lost' = lost
    BY <1>3, ReceivedFields
  <2>2. up'.pc = "failed" => up.pc = "revoke"
    BY <1>3, ReceivedFields
  <2> QED BY <1>0, <2>1, <2>2 DEF RevokeInv
<1>4. CASE PartStopped
  <2>1. up'.pc = "revoke" /\ up'.fetch = "none"
    BY <1>4, ThrowsFields DEF PartStopped
  <2> QED BY <1>0, <2>1
<1>5. CASE Failed
  <2>1. PICK r \in net : Ruined(r) /\ Missed(r)
    BY <1>5, FailsFields
  <2>2. /\ r.op # "revoke" /\ r.op \in {"part", "commit", "revoke"} /\ "revoke" \notin lost
        /\ up'.pc = up.pc /\ up'.why = up.why
    BY <2>1, RequestFields DEF RestTyped, Missed
  <2>3. server.slot = "gone" => server'.slot = "gone"
    BY <2>1, AfterSlot DEF Ruined
  <2>4. CASE Waited(r)
    <3>1. up.pc \notin {"revoke", "deleting", "failed"}
      BY <2>2, <2>4 DEF CallInv, Asking
    <3> QED BY <2>2, <3>1
  <2>5. CASE ~Waited(r)
    <3>1. up' = up
      BY <2>1, <2>5 DEF Missed
    <3> QED BY <2>2, <2>3, <3>1 DEF RevokeInv
  <2> QED BY <2>4, <2>5
<1>6. CASE \E op \in {"part", "commit", "revoke"} : Asks(op) /\ Asking(op)
  <2>1. up'.fetch = "waiting" /\ up'.pc = up.pc /\ up'.why = up.why /\ server' = server /\ lost' = lost
    BY <1>6, AsksFields
  <2> QED BY <1>0, <2>1 DEF RevokeInv
<1>7. CASE \E r \in net : Answers(r)
  <2>1. PICK r \in net : Answers(r)
    BY <1>7
  <2>2. /\ server' = After(r) /\ lost' = lost /\ up'.pc = up.pc /\ up'.why = up.why
        /\ up'.fetch = IF Waited(r) THEN Answer(r) ELSE up.fetch
    BY <2>1, AnswersFields
  <2>3. server.slot = "gone" => server'.slot = "gone"
    BY <2>2, AfterSlot
  <2>4. CASE Waited(r) /\ up.pc \in {"revoke", "deleting"}
    <3>1. r.op = "revoke"
      BY <2>4, RequestFields DEF CallInv, Asking, RestTyped
    <3> QED BY <2>2, <2>4, <3>1, AfterSlot
  <2>5. CASE Waited(r) /\ up.pc \notin {"revoke", "deleting"}
    BY <2>2, <2>3, <2>5 DEF RevokeInv
  <2>6. CASE ~Waited(r)
    BY <2>2, <2>3, <2>6 DEF RevokeInv
  <2> QED BY <2>4, <2>5, <2>6
<1> QED BY <1>1, <1>2, <1>3, <1>4, <1>5, <1>6, <1>7, StepsAre

\* The invariant from which FailureLeavesNothing follows.
FailureInv == TypeInv /\ CallInv /\ RevokeInv

LEMMA FailureStep == FailureInv /\ [Next]_vars => FailureInv'
BY TypeStep, CallStep, RevokeStep, TypesAre DEF FailureInv

LEMMA FailureInit == Init => FailureInv
<1> SUFFICES ASSUME Init PROVE FailureInv
  OBVIOUS
<1>1. up.pc = "init" /\ up.why = "none" /\ up.fetch = "none" /\ net = {}
  BY DEF Init
<1> QED BY <1>1, TypeInit DEF FailureInv, CallInv, RevokeInv, Status

LEMMA FailureHolds == Spec => []FailureInv
<1>1. Init => FailureInv
  BY FailureInit
<1>2. FailureInv /\ [Next]_vars => FailureInv'
  BY FailureStep
<1> QED BY <1>1, <1>2, PTL DEF Spec

\* An upload that failed after its slot was reserved leaves no record on the
\* server, unless the revocation itself was lost (stored.ts:144-148).  The answer
\* that the catch waits for is the answer to the revocation, because no other
\* request can be waited for by then; and nothing brings a transfer back: a commit
\* or a part that comes after it is refused.
THEOREM FailuresLeaveNothing == Spec => []FailureLeavesNothing
<1>1. FailureInv => FailureLeavesNothing
  BY DEF FailureInv, RevokeInv, FailureLeavesNothing
<1> QED BY <1>1, FailureHolds, PTL

\* What is complete stays complete.
LEMMA CompleteStays ==
    ASSUME UpTyped, RestTyped, CallInv, [Next]_vars, Complete
    PROVE  Complete'
<1>1. up.pc \in {"commit", "stored", "deleting", "deleted"}
        \/ (up.why = "commit" /\ up.pc \in {"revoke", "failed"})
  BY DEF Complete, CallInv
<1>2. CASE Local
  BY <1>1, <1>2, LocalFields DEF Complete
<1>3. CASE Received
  BY <1>1, <1>3, ReceivedFields DEF Complete
<1>4. CASE PartStopped
  BY <1>1, <1>4 DEF PartStopped
<1>5. CASE up'.pc = up.pc /\ up'.why = up.why
  BY <1>5 DEF Complete
<1>6. Aside => up'.pc = up.pc /\ up'.why = up.why
  BY DEF Aside
<1>7. Failed => up'.pc = up.pc /\ up'.why = up.why
  BY FailsFields DEF Missed
<1>8. \A r \in net : Answers(r) => up'.pc = up.pc /\ up'.why = up.why
  BY AnswersFields
<1>9. \A op \in {"part", "commit", "revoke"} : Asks(op) => up'.pc = up.pc /\ up'.why = up.why
  BY AsksFields
<1> QED BY <1>2, <1>3, <1>4, <1>5, <1>6, <1>7, <1>8, <1>9, StepsAre

\* Nothing incomplete is committed.
LEMMA CommitStep ==
    ASSUME UpTyped, RestTyped, CallInv, CommitInv, [Next]_vars
    PROVE  CommitInv'
<1>1. Complete => Complete'
  BY CompleteStays
<1>2. CASE Complete
  BY <1>1, <1>2 DEF CommitInv
<1>3. CASE ~Complete
  <2>1. server.slot # "committed" /\ server.conn = "none"
        /\ \A r \in net : r.op # "commit"
    BY <1>3 DEF CommitInv
  <2>2. CASE /\ server'.slot # "committed" /\ server'.conn = "none"
             /\ \A r \in net' : r.op # "commit"
    BY <2>2 DEF CommitInv
  <2>3. CASE Local
    <3>1. net' = net
      BY <2>3, LocalFields
    <3>2. server' = server \/ server' = [server EXCEPT !.slot = "open"]
      BY <2>3 DEF Local, Pushes, Seals, Reads, Fills, SourceEnds, Flushes, SourceFails,
                      SenderDeletes, Up, Reserved, NotReserved
    <3>3. server'.slot # "committed" /\ server'.conn = "none"
      BY <2>1, <3>2 DEF RestTyped, Record
    <3> QED BY <2>1, <2>2, <3>1, <3>3
  <2>4. CASE Aside
    BY <2>1, <2>2, <2>4 DEF Aside
  <2>5. CASE Received
    BY <2>1, <2>2, <2>5, ReceivedFields
  <2>6. CASE PartStopped
    <3>1. \A s \in net' : \E r \in net : s.op = r.op
      BY <2>6, UnheardFields DEF PartStopped, PartAborted, RestTyped
    <3> QED BY <2>1, <2>2, <2>6, <3>1 DEF PartStopped
  <2>7. CASE Failed
    <3>1. PICK r \in net :
            /\ server'.slot \in {server.slot, After(r).slot}
            /\ server'.conn \in {server.conn, After(r).conn}
            /\ net' \subseteq (net \ {r}) \cup {Unheard(r)}
      BY <2>7, FailsFields DEF Ruined, Missed
    <3>2. Unheard(r).op = r.op
      BY UnheardFields DEF RestTyped
    <3>3. After(r).slot # "committed" /\ After(r).conn = "none"
      BY <2>1, AfterSlot, AfterTyped
    <3> QED BY <2>1, <2>2, <3>1, <3>2, <3>3
  <2>8. CASE \E op \in {"part", "commit", "revoke"} : Asks(op) /\ Asking(op)
    <3>1. PICK op \in {"part", "commit", "revoke"} : Asks(op) /\ Asking(op)
      BY <2>8
    <3>2. op # "commit"
      BY <1>3, <3>1 DEF Asking, Complete
    <3>3. server' = server /\ \A r \in net' : r \in net \/ r.op = op
      BY <3>1, AsksFields
    <3> QED BY <2>1, <2>2, <3>2, <3>3
  <2>9. CASE \E r \in net : Answers(r)
    <3>1. PICK r \in net : Answers(r)
      BY <2>9
    <3>2. server' = After(r) /\ net' = net \ {r}
      BY <3>1, AnswersFields
    <3>3. After(r).slot # "committed" /\ After(r).conn = "none"
      BY <2>1, AfterSlot, AfterTyped
    <3> QED BY <2>1, <2>2, <3>2, <3>3
  <2> QED BY <2>3, <2>4, <2>5, <2>6, <2>7, <2>8, <2>9, StepsAre
<1> QED BY <1>2, <1>3

----------------------------------------------------------------------------
(* Parts *)

\* While the upload goes on, what is under way is its own part or an older one,
\* and the server is at most one part ahead of the answer.  Once it is complete,
\* every part is known to the server.
OrderInv ==
    /\ up.pc = "init" => net = {} /\ server.next = up.index /\ server.blob = <<>>
    /\ Uploading =>
         /\ \A r \in net : r.op = "part" /\ r.index <= up.index
         /\ \A r \in net : r.index = up.index => up.pc = "part" /\ r.body = up.buffer
         /\ server.next = up.index \/ (up.pc = "part" /\ server.next = up.index + 1)
         /\ up.pc = "part" /\ up.fetch = "ok" => server.next = up.index + 1
    /\ Complete =>
         /\ server.next = up.index
         /\ \A r \in net : r.op = "part" => r.index < up.index

\* A request changes the blob only if it is the part the server waits for.
LEMMA AfterPart ==
    ASSUME RestTyped, NEW r \in net
    PROVE  \/ After(r).blob = server.blob /\ After(r).next = server.next
           \/ /\ r.op = "part" /\ r.index = server.next /\ Answer(r) = "ok"
              /\ After(r).blob = server.blob \o r.body
              /\ After(r).next = r.index + 1
<1>1. r.op \in {"part", "commit", "revoke"} /\ server \in Record
  BY RequestFields DEF RestTyped
<1>2. CASE r.op # "part" \/ After(r) = server
  BY <1>2, AfterSlot
<1>3. CASE r.op = "part" /\ After(r) # server
  <2>1. /\ Answer(r) = "ok" /\ ~IsDuplicate(r) /\ r.index = server.next
        /\ After(r) = [server EXCEPT !.blob = @ \o r.body, !.next = r.index + 1]
    BY <1>3 DEF After, Answer
  <2> QED BY <1>1, <1>3, <2>1 DEF Record
<1> QED BY <1>2, <1>3

\* What becomes of a part that was answered.
LEMMA PartFields ==
    ASSUME UpTyped, PartAnswered
    PROVE  \/ /\ up.fetch = "ok" /\ up'.pc = "send" /\ up'.index = up.index + 1
              /\ up'.buffer = <<>> /\ up'.out = up.out /\ up'.counter = up.counter
              /\ up'.try = 0
           \/ /\ up'.pc = "revoke" /\ up'.why \in {"cancelled", "part"}
              /\ up'.why = "part" => up.try = 2 /\ up.fetch # "ok"
              /\ up'.buffer = up.buffer /\ up'.out = up.out
           \/ /\ up.fetch # "ok" /\ up'.pc = "part" /\ up'.index = up.index
              /\ up'.buffer = up.buffer /\ up'.out = up.out /\ up'.counter = up.counter
              /\ up'.try = up.try + 1
<1>1. CASE up.fetch = "ok"
  <2>1. up' = [up EXCEPT !.pc = "send", !.index = @ + 1, !.buffer = <<>>, !.try = 0,
                         !.fetch = "none"]
    BY <1>1 DEF PartAnswered, Up
  <2> QED BY <1>1, <2>1 DEF UpTyped, Upload
<1>2. CASE up.fetch # "ok" /\ up' = Throws(up, "cancelled")
  BY <1>2, ThrowsFields
<1>3. CASE up.fetch # "ok" /\ up' = Throws(up, "part") /\ up.try = 2
  BY <1>3, ThrowsFields
<1>4. CASE up.fetch # "ok" /\ up' = [up EXCEPT !.try = @ + 1, !.fetch = "none"]
  <2>1. up.pc = "part"
    BY DEF PartAnswered
  <2> QED BY <1>4, <2>1 DEF UpTyped, Upload
<1>5. up.try \in 0..2
  BY UploadFields
<1> QED BY <1>1, <1>2, <1>3, <1>4, <1>5 DEF PartAnswered, Up, TriesAgain

LEMMA LocalServer ==
    ASSUME UpTyped, RestTyped, Local
    PROVE  /\ server'.next = server.next /\ server'.blob = server.blob
           /\ server'.conn = server.conn /\ server'.stray = server.stray
           /\ server' = server \/ Reserved \/ NotReserved
           /\ Reserved => server'.slot = "open"
           /\ lost \subseteq lost' /\ faults <= faults'
<1>1. server' = server \/ (server' = [server EXCEPT !.slot = "open"] /\ (Reserved \/ NotReserved))
  BY DEF Local, Pushes, Seals, Reads, Fills, SourceEnds, Flushes, SourceFails,
         SenderDeletes, Up, Reserved, NotReserved
<1>2. Reserved => server' = [server EXCEPT !.slot = "open"]
  BY DEF Reserved
<1>3. lost \subseteq lost' /\ (faults' = faults \/ faults' = faults + 1)
  BY DEF Local, Pushes, Seals, Reads, Fills, SourceEnds, Flushes, SourceFails,
         SenderDeletes, Up, Reserved, NotReserved, Fault
<1>4. faults \in Nat /\ server \in Record
  BY RestFields DEF RestTyped
<1> QED BY <1>1, <1>2, <1>3, <1>4 DEF Record

\* A commit is asked for only when the last part was flushed.
LEMMA FlushesFields ==
    ASSUME UpTyped, Local, up'.pc = "commit"
    PROVE  Flushes /\ up.pc = "send" /\ up.buffer = <<>> /\ up.out = <<>> /\ up.yields = <<>>
             /\ up.ended = TRUE
             /\ up'.counter = up.counter /\ up'.yields = up.yields /\ up'.ended = up.ended
<1>1. CASE Flushes
  <2>1. up' = [up EXCEPT !.pc = IF up.buffer = <<>> THEN "commit" ELSE "part"]
        /\ up.pc = "send" /\ up.out = <<>> /\ up.yields = <<>> /\ up.ended
    BY <1>1 DEF Flushes, Sending, Up
  <2>2. up.buffer = <<>>
    BY <2>1 DEF UpTyped, Upload
  <2> QED BY <1>1, <2>1, <2>2, UpFieldTypes DEF UpTyped, Upload
<1>2. CASE ~Flushes
  <2>1. up'.pc # "commit"
    <3>1. Reserved => up'.pc = "send"
      <4>1. Reserved => up' = [up EXCEPT !.pc = "send", !.out = Header \o Metadata, !.counter = 1]
        BY DEF Reserved
      <4> QED BY <4>1 DEF UpTyped, Upload
    <3>2. Pushes => up'.pc \in {"part", "send"}
      <4>1. Pushes => \E part, rest :
              up' = [up EXCEPT !.buffer = part, !.out = rest,
                               !.pc = IF Len(part) = PartSize THEN "part" ELSE @]
        BY DEF Pushes, Up
      <4> QED BY <4>1 DEF Pushes, UpTyped, Upload
    <3>3. Seals => up'.pc \in {"revoke", "send"}
      <4>1. Seals => \/ up' = Throws(up, "cancelled")
                     \/ \E y : up' = [up EXCEPT !.out = Seal(up.counter, y.final, y.bytes),
                                                !.counter = @ + 1, !.yields = Tail(@)]
        BY DEF Seals, Up
      <4> QED BY <4>1, ThrowsFields DEF Seals, UpTyped, Upload
    <3>4. Reads => up'.pc = "send"
      <4>1. Reads => \E k : up' = [up EXCEPT !.input = SubSeq(File, up.at + 1, up.at + k), !.at = @ + k]
        BY DEF Reads, Up
      <4> QED BY <4>1 DEF Reads, Sending, UpTyped, Upload
    <3>5. Fills => up'.pc = "send"
      <4>1. Fills => \E chunk, rest :
              \/ up' = [up EXCEPT !.chunk = chunk, !.input = rest]
              \/ up' = [up EXCEPT !.chunk = <<>>, !.input = rest,
                                  !.yields = HeldBack(FALSE), !.pending = <<chunk>>]
        BY DEF Fills, Up
      <4> QED BY <4>1 DEF Fills, Sending, UpTyped, Upload
    <3>6. SourceEnds => up'.pc = "send"
      <4>1. SourceEnds => up' = [up EXCEPT !.ended = TRUE, !.yields = LastYields,
                                           !.chunk = <<>>, !.pending = <<>>]
        BY DEF SourceEnds, Up
      <4> QED BY <4>1 DEF SourceEnds, Sending, UpTyped, Upload
    <3>7. SourceFails => up'.pc = "revoke"
      BY ThrowsFields DEF SourceFails
    <3>8. NotReserved => up'.pc = "failed"
      <4>1. NotReserved => up' = [up EXCEPT !.pc = "failed", !.why = "init"]
        BY DEF NotReserved
      <4> QED BY <4>1 DEF UpTyped, Upload
    <3>9. SenderDeletes => up'.pc = "deleting"
      <4>1. SenderDeletes => up' = [up EXCEPT !.pc = "deleting"]
        BY DEF SenderDeletes, Up
      <4> QED BY <4>1 DEF UpTyped, Upload
    <3> QED BY <1>2, <3>1, <3>2, <3>3, <3>4, <3>5, <3>6, <3>7, <3>8, <3>9 DEF Local
  <2> QED BY <2>1
<1> QED BY <1>1, <1>2

\* The parts reach the server in order, each once.
LEMMA OrderStep ==
    ASSUME UpTyped, RestTyped, CallInv, CommitInv, OrderInv, [Next]_vars
    PROVE  OrderInv'
<1>0. /\ up.index \in Nat /\ server.next \in Nat
      /\ \A r \in net : r.index \in Nat /\ r.op \in {"part", "commit", "revoke"}
  BY UploadFields, RestFields, RequestFields DEF RestTyped
<1>1. CASE Local
  <2>1. /\ net' = net /\ up'.index = up.index /\ server'.next = server.next
        /\ server'.blob = server.blob
        /\ up'.fetch = "none" \/ up'.fetch = up.fetch
    BY <1>1, LocalFields, LocalServer
  <2>2. up.fetch = "none" /\ up'.fetch = "none"
    BY <1>1, <2>1, LocalFields DEF CallInv
  <2>3. CASE up.pc = "init" /\ up'.pc \in {"send", "part", "commit"}
    <3>1. up'.pc = "send" /\ up'.why = up.why
      <4>1. Reserved
        <5>1. NotReserved => up'.pc = "failed"
          <6>1. NotReserved => up' = [up EXCEPT !.pc = "failed", !.why = "init"]
            BY DEF NotReserved
          <6> QED BY <6>1 DEF UpTyped, Upload
        <5> QED BY <1>1, <2>3, <5>1, LocalFields
      <4>2. up' = [up EXCEPT !.pc = "send", !.out = Header \o Metadata, !.counter = 1]
        BY <4>1 DEF Reserved
      <4> QED BY <4>2 DEF UpTyped, Upload
    <3>2. net = {} /\ server.next = up.index
      BY <2>3 DEF OrderInv
    <3>3. up.why = "none"
      BY <2>3 DEF CallInv
    <3> QED BY <2>1, <2>2, <3>1, <3>2, <3>3 DEF OrderInv, Uploading, Complete
  <2>4. CASE up.pc = "send" /\ up'.pc \in {"send", "part", "commit"} /\ up'.why = up.why
    <3>1. /\ \A r \in net : r.op = "part" /\ r.index <= up.index /\ r.index # up.index
          /\ server.next = up.index
      BY <2>4 DEF OrderInv, Uploading
    <3>2. \A r \in net : r.index < up.index
      BY <1>0, <3>1
    <3> QED BY <2>1, <2>2, <2>4, <3>1, <3>2 DEF OrderInv, Uploading, Complete, CallInv
  <2>5. CASE up'.pc \in {"revoke", "failed"} /\ up'.why \in {"source", "cancelled", "init"}
    BY <2>5 DEF OrderInv, Uploading, Complete
  <2>6. CASE up.pc = "stored" /\ up'.pc = "deleting" /\ up'.why = up.why
    <3>1. Complete
      BY <2>6 DEF Complete
    <3> QED BY <2>1, <2>6, <3>1 DEF OrderInv, Uploading, Complete
  <2> QED BY <1>1, <2>3, <2>4, <2>5, <2>6, LocalFields
<1>2. CASE Aside
  BY <1>2 DEF Aside, OrderInv, Uploading, Complete
<1>3. CASE PartAnswered
  <2>1. /\ net' = net /\ server' = server /\ up'.fetch = "none" /\ up.pc = "part"
        /\ up.why = "none" /\ up.fetch \in Status
    BY <1>3, ReceivedFields DEF Received, CallInv, PartAnswered
  <2>2. CASE up.fetch = "ok" /\ up'.pc = "send" /\ up'.index = up.index + 1
    <3>1. server.next = up.index + 1 /\ \A r \in net : r.op = "part" /\ r.index <= up.index
      BY <2>1, <2>2 DEF OrderInv, Uploading
    <3>2. \A r \in net : r.index <= up.index + 1 /\ r.index # up.index + 1
      BY <1>0, <3>1
    <3>3. up'.why = "none"
      BY <1>3, <2>1, <2>2, ReceivedFields DEF Received
    <3> QED BY <2>1, <2>2, <3>1, <3>2, <3>3 DEF OrderInv, Uploading, Complete
  <2>3. CASE up'.pc = "revoke" /\ up'.why \in {"cancelled", "part"}
    BY <2>3 DEF OrderInv, Uploading, Complete
  <2>4. CASE up'.pc = "part" /\ up'.index = up.index /\ up'.buffer = up.buffer
    <3>1. up'.why = "none"
      BY <1>3, <2>1, <2>4, ReceivedFields DEF Received
    <3> QED BY <2>1, <2>4, <3>1 DEF OrderInv, Uploading, Complete
  <2> QED BY <1>3, <2>2, <2>3, <2>4, PartFields
<1>4. CASE CommitAnswered \/ RevokeAnswered
  <2>1. /\ net' = net /\ server' = server /\ ~Uploading' /\ up'.pc # "init"
        /\ Complete' => Complete
    BY <1>4, ReceivedFields DEF Received, CommitAnswered, RevokeAnswered, Uploading, Complete, CallInv
  <2>2. up'.index = up.index
    <3>1. CASE CommitAnswered
      <4>1. up' = [up EXCEPT !.pc = "stored", !.fetch = "none"] \/ up' = Throws(up, "commit")
        BY <3>1 DEF CommitAnswered, GivesUp
      <4> QED BY <4>1, ThrowsFields DEF UpTyped, Upload
    <3>2. CASE RevokeAnswered
      <4>1. up' = [up EXCEPT !.pc = IF @ = "revoke" THEN "failed" ELSE "deleted", !.fetch = "none"]
        BY <3>2 DEF RevokeAnswered
      <4> QED BY <4>1 DEF UpTyped, Upload
    <3> QED BY <1>4, <3>1, <3>2
  <2> QED BY <2>1, <2>2 DEF OrderInv
<1>5. CASE PartStopped
  <2>1. up'.pc = "revoke" /\ up'.why = "cancelled"
    BY <1>5, ThrowsFields DEF PartStopped
  <2> QED BY <2>1 DEF OrderInv, Uploading, Complete
<1>6. CASE \E op \in {"part", "commit", "revoke"} : Asks(op) /\ Asking(op)
  <2>1. PICK op \in {"part", "commit", "revoke"} : Asks(op) /\ Asking(op)
    BY <1>6
  <2>2. /\ up'.fetch = "waiting" /\ up'.pc = up.pc /\ up'.why = up.why /\ up'.index = up.index
        /\ up'.buffer = up.buffer /\ server' = server
        /\ \A r \in net' : \/ r \in net
                           \/ /\ r.op = op /\ r.index = up.index
                              /\ r.body = (IF op = "part" THEN up.buffer ELSE <<>>)
    BY <2>1, AsksFields
  <2>3. CASE op = "part"
    <3>1. up.pc = "part" /\ up.why = "none"
      BY <2>1, <2>3 DEF Asking, CallInv
    <3>2. \A r \in net' : r \in net \/ (r.op = "part" /\ r.index = up.index /\ r.body = up.buffer)
      BY <2>2, <2>3
    <3> QED BY <1>0, <2>2, <3>1, <3>2 DEF OrderInv, Uploading, Complete
  <2>4. CASE op # "part"
    <3>1. up.pc \in {"commit", "revoke", "deleting"}
      BY <2>1, <2>4 DEF Asking
    <3>2. \A r \in net' : r \in net \/ r.op # "part"
      BY <2>2, <2>4
    <3> QED BY <2>2, <3>1, <3>2 DEF OrderInv, Uploading, Complete
  <2> QED BY <2>3, <2>4
<1>7. CASE \E r \in net :
             /\ server'.next \in {server.next, After(r).next}
             /\ net' \subseteq (net \ {r}) \cup {Unheard(r)}
             /\ up'.pc = up.pc /\ up'.why = up.why /\ up'.index = up.index
             /\ up'.buffer = up.buffer
             /\ up'.fetch = "ok" /\ up.pc = "part" =>
                  \/ up.fetch = "ok"
                  \/ Waited(r) /\ Answer(r) = "ok" /\ server' = After(r)
  <2>1. PICK r \in net :
          /\ server'.next \in {server.next, After(r).next}
          /\ net' \subseteq (net \ {r}) \cup {Unheard(r)}
          /\ up'.pc = up.pc /\ up'.why = up.why /\ up'.index = up.index
          /\ up'.buffer = up.buffer
          /\ up'.fetch = "ok" /\ up.pc = "part" =>
               \/ up.fetch = "ok"
               \/ Waited(r) /\ Answer(r) = "ok" /\ server' = After(r)
    BY <1>7
  <2>2. \A s \in net' : \E t \in net : s.op = t.op /\ s.index = t.index /\ s.body = t.body
    BY <2>1, UnheardFields DEF RestTyped
  <2>3. CASE Uploading
    <3>1. r.op = "part" /\ r.index <= up.index /\ (r.index = up.index => up.pc = "part" /\ r.body = up.buffer)
      BY <2>3 DEF OrderInv
    <3>2. \/ server'.next = server.next
          \/ up.pc = "part" /\ server.next = up.index /\ server'.next = up.index + 1
      <4>1. CASE r.index = server.next
        <5>1. r.index = up.index
          BY <1>0, <2>3, <3>1, <4>1 DEF OrderInv
        <5> QED BY <2>1, <3>1, <4>1, <5>1, AfterPart
      <4>2. CASE r.index # server.next
        BY <2>1, <4>2, AfterPart
      <4> QED BY <4>1, <4>2
    <3>3. up.pc = "part" /\ up'.fetch = "ok" => server'.next = up.index + 1
      <4>1. CASE up.pc = "part" /\ up.fetch = "ok"
        <5>1. server.next = up.index + 1
          BY <2>3, <4>1 DEF OrderInv
        <5> QED BY <1>0, <3>2, <5>1
      <4>2. CASE up.pc = "part" /\ Waited(r) /\ Answer(r) = "ok" /\ server' = After(r)
        <5>1. r.index = up.index
          BY <4>2 DEF CallInv
        <5>2. CASE IsDuplicate(r)
          <6>1. server.next = up.index + 1
            BY <5>1, <5>2 DEF IsDuplicate
          <6> QED BY <1>0, <3>2, <6>1
        <5>3. CASE ~IsDuplicate(r)
          <6>1. server' = [server EXCEPT !.blob = @ \o r.body, !.next = r.index + 1]
            BY <3>1, <4>2, <5>3 DEF After
          <6> QED BY <5>1, <6>1 DEF RestTyped, Record
        <5> QED BY <5>2, <5>3
      <4> QED BY <2>1, <4>1, <4>2
    <3>4. up.pc # "init" /\ ~Complete
      BY <2>3 DEF Uploading, Complete, CallInv
    <3>5. \A s \in net' : /\ s.op = "part" /\ s.index <= up.index
                          /\ s.index = up.index => up.pc = "part" /\ s.body = up.buffer
      BY <2>2, <2>3 DEF OrderInv
    <3>6. server'.next = up.index \/ (up.pc = "part" /\ server'.next = up.index + 1)
      BY <2>3, <3>2 DEF OrderInv
    <3> QED BY <2>1, <3>3, <3>4, <3>5, <3>6 DEF OrderInv, Uploading, Complete
  <2>4. CASE Complete
    <3>1. server.next = up.index /\ \A s \in net : s.op = "part" => s.index < up.index
      BY <2>4 DEF OrderInv
    <3>2. After(r).next = server.next
      <4>1. r.op = "part" => r.index # server.next
        BY <1>0, <3>1
      <4> QED BY <4>1, AfterPart, Zenon
    <3>3. ~Uploading /\ up.pc # "init"
      BY <2>4 DEF Complete, Uploading, CallInv
    <3> QED BY <2>1, <2>2, <3>1, <3>2, <3>3 DEF OrderInv, Uploading, Complete
  <2>5. CASE ~Uploading /\ ~Complete
    <3>1. up.pc # "init"
      BY DEF OrderInv
    <3> QED BY <2>1, <2>5, <3>1 DEF OrderInv, Uploading, Complete
  <2> QED BY <2>3, <2>4, <2>5
<1>8. CASE Failed
  <2>1. PICK r \in net :
             /\ server'.next \in {server.next, After(r).next}
             /\ net' \subseteq (net \ {r}) \cup {Unheard(r)}
             /\ up'.fetch \in {"5xx", "error"} \/ up'.fetch = up.fetch
             /\ up'.pc = up.pc /\ up'.why = up.why /\ up'.index = up.index
             /\ up'.buffer = up.buffer
    BY <1>8, FailsFields DEF Ruined, Missed
  <2> QED BY <1>7, <2>1
<1>9. CASE \E r \in net : Answers(r)
  <2>1. PICK r \in net : Answers(r)
    BY <1>9
  <2>2. /\ server' = After(r) /\ net' = net \ {r}
        /\ up'.fetch = IF Waited(r) THEN Answer(r) ELSE up.fetch
        /\ up'.pc = up.pc /\ up'.why = up.why /\ up'.index = up.index
        /\ up'.buffer = up.buffer
    BY <2>1, AnswersFields
  <2> QED BY <1>7, <2>2
<1> QED BY <1>1, <1>2, <1>3, <1>4, <1>5, <1>6, <1>8, <1>9, StepsAre DEF Received

\* An attempt at a part costs a fault, and is refused only if the transfer is gone.
RetryInv ==
    /\ up.pc = "init" => up.try = 0
    /\ Uploading =>
         /\ server.slot = "open" \/ "slot" \in lost
         /\ up.fetch = "4xx" => "slot" \in lost
         /\ "slot" \in lost \/ up.try <= faults
         /\ up.fetch \in {"5xx", "error"} => "slot" \in lost \/ up.try + 1 <= faults
    /\ RetrySurvives

\* What was lost stays lost.
LEMMA LostStays ==
    ASSUME UpTyped, RestTyped, [Next]_vars
    PROVE  lost \subseteq lost' /\ faults <= faults'
<1>1. faults \in Nat
  BY RestFields
<1>2. Local => lost \subseteq lost' /\ faults <= faults'
  BY LocalServer
<1>3. Aside => lost \subseteq lost' /\ faults <= faults'
  BY DEF Aside
<1>4. Received => lost \subseteq lost' /\ faults <= faults'
  BY <1>1, ReceivedFields
<1>5. PartStopped => lost \subseteq lost' /\ faults <= faults'
  BY <1>1 DEF PartStopped
<1>6. Failed => lost \subseteq lost' /\ faults <= faults'
  BY <1>1, FailsFields DEF Missed
<1>7. (\E op \in {"part", "commit", "revoke"} : Asks(op)) => lost \subseteq lost' /\ faults <= faults'
  BY <1>1, AsksFields
<1>8. (\E r \in net : Answers(r)) => lost \subseteq lost' /\ faults <= faults'
  BY <1>1, AnswersFields
<1> QED BY <1>2, <1>3, <1>4, <1>5, <1>6, <1>7, <1>8, StepsAre

\* Each attempt after the first is owed to a fault.
LEMMA RetryStep ==
    ASSUME TypeInv, CallInv, CommitInv, OrderInv, RetryInv, [Next]_vars
    PROVE  RetryInv'
<1>t. UpTyped /\ RestTyped /\ RestTyped'
  BY TypesAre, TypesArePrimed, TypeStep
<1>0. /\ up.try \in Nat /\ faults \in Nat /\ up.index \in Nat /\ faults' \in Nat
      /\ server.next \in Nat
      /\ lost \subseteq lost' /\ faults <= faults'
  <2>1. faults' \in Nat
    <3>1. faults' \in 0..MaxFaults
      BY <1>t DEF RestTyped
    <3> QED BY <3>1
  <2>2. lost \subseteq lost' /\ faults <= faults'
    BY <1>t, LostStays
  <2>3. up.try \in 0..2 /\ up.index \in Nat
    BY <1>t, UploadFields
  <2>4. up.try \in Nat
    BY <2>3
  <2>5. faults \in Nat /\ server.next \in Nat
    BY <1>t, RestFields
  <2> QED BY <2>1, <2>2, <2>3, <2>4, <2>5
<1>1. CASE Local
  <2>1. /\ up'.why # "part" \/ up'.why = up.why
        /\ up'.try = up.try /\ (up'.fetch = "none" \/ up'.fetch = up.fetch)
    BY <1>t, <1>1, LocalFields
  <2>2. up.fetch = "none"
    BY <1>t, <1>1, LocalFields DEF CallInv
  <2>3. RetrySurvives'
    BY <1>0, <2>1 DEF RetryInv, RetrySurvives
  <2>4. CASE Uploading' /\ up.pc = "init"
    <3>1. NotReserved => up'.pc = "failed"
      <4>1. NotReserved => up' = [up EXCEPT !.pc = "failed", !.why = "init"]
        BY DEF NotReserved
      <4> QED BY <1>t, <4>1 DEF UpTyped, Upload
    <3>2. server'.slot = "open"
      BY <1>t, <1>1, <2>4, <3>1, LocalFields, LocalServer DEF Uploading
    <3>3. up.try = 0
      BY <2>4 DEF RetryInv
    <3> QED BY <1>0, <2>1, <2>2, <2>3, <2>4, <3>2, <3>3 DEF RetryInv, Uploading
  <2>5. CASE Uploading' /\ up.pc # "init"
    <3>1. up.pc = "send"
      BY <1>t, <1>1, <2>5, LocalFields DEF Uploading
    <3>2. server' = server
      BY <1>t, <1>1, <3>1, LocalServer DEF Reserved, NotReserved
    <3> QED BY <1>0, <2>1, <2>2, <2>3, <2>5, <3>1, <3>2 DEF RetryInv, Uploading
  <2>6. up'.pc # "init"
    BY <1>t, <1>1, LocalFields
  <2> QED BY <2>3, <2>4, <2>5, <2>6 DEF RetryInv
<1>2. CASE Aside
  <2>1. up' = up /\ (server'.slot = server.slot \/ "slot" \in lost' \/ server.conn # "none")
    BY <1>2 DEF Aside
  <2>2. Uploading => server.conn = "none"
    BY DEF CommitInv, Complete, Uploading, CallInv
  <2> QED BY <1>0, <2>1, <2>2 DEF RetryInv, Uploading, RetrySurvives
<1>3. CASE PartAnswered
  <2>1. up.pc = "part" /\ up.fetch \in {"ok", "4xx", "5xx", "error"} /\ server' = server
        /\ up'.fetch = "none" /\ up.why = "none"
    BY <1>t, <1>3, ReceivedFields DEF Received, PartAnswered, Status, CallInv
  <2>2. CASE up.fetch = "ok" /\ up'.pc = "send" /\ up'.try = 0
    <3>1. up'.why = up.why
      BY <1>t, <1>3, <2>1, <2>2, ReceivedFields DEF Received
    <3> QED BY <1>0, <2>1, <2>2, <3>1 DEF RetryInv, Uploading, RetrySurvives
  <2>3. CASE up'.pc = "revoke" /\ up'.why = "cancelled"
    BY <2>3 DEF RetryInv, Uploading, RetrySurvives
  <2>4. CASE up'.pc = "revoke" /\ up.try = 2 /\ up.fetch # "ok"
    <3>1. "slot" \in lost \/ up.try + 1 <= faults
      BY <2>1, <2>4 DEF RetryInv, Uploading
    <3>2. "slot" \in lost' \/ faults' > 2
      BY <1>0, <2>4, <3>1
    <3> QED BY <2>4, <3>2 DEF RetryInv, Uploading, RetrySurvives
  <2>5. CASE up.fetch # "ok" /\ up'.pc = "part" /\ up'.try = up.try + 1
    <3>1. "slot" \in lost \/ up.try + 1 <= faults
      BY <2>1, <2>5 DEF RetryInv, Uploading
    <3>2. up'.why = up.why
      BY <1>t, <1>3, <2>1, <2>5, ReceivedFields DEF Received
    <3>3. "slot" \in lost' \/ up'.try <= faults'
      BY <1>0, <2>5, <3>1
    <3> QED BY <1>0, <2>1, <2>5, <3>2, <3>3 DEF RetryInv, Uploading, RetrySurvives
  <2> QED BY <1>t, <1>3, <2>2, <2>3, <2>4, <2>5, PartFields
<1>4. CASE CommitAnswered \/ RevokeAnswered
  <2>1. up'.pc \notin {"init", "send", "part"} /\ (up'.why = up.why \/ up'.why = "commit")
    BY <1>t, <1>4, ReceivedFields DEF Received, CommitAnswered, RevokeAnswered
  <2> QED BY <1>0, <2>1 DEF RetryInv, Uploading, RetrySurvives
<1>5. CASE PartStopped
  <2>1. up'.pc = "revoke" /\ up'.why = "cancelled"
    BY <1>t, <1>5, ThrowsFields DEF PartStopped
  <2> QED BY <2>1 DEF RetryInv, Uploading, RetrySurvives
<1>6. CASE \E op \in {"part", "commit", "revoke"} : Asks(op) /\ Asking(op)
  <2>1. /\ up'.fetch = "waiting" /\ up'.pc = up.pc /\ up'.why = up.why /\ up'.try = up.try
        /\ server' = server
    BY <1>t, <1>6, AsksFields
  <2> QED BY <1>0, <2>1 DEF RetryInv, Uploading, RetrySurvives
<1>7. CASE Failed
  <2>1. PICK r \in net :
             /\ server'.slot \in {server.slot, After(r).slot} /\ faults' = faults + 1
             /\ up'.fetch \in {"5xx", "error"} \/ up'.fetch = up.fetch
             /\ up'.pc = up.pc /\ up'.why = up.why /\ up'.try = up.try
    BY <1>t, <1>7, FailsFields DEF Ruined, Missed
  <2>2. Uploading => server'.slot = server.slot
    <3> SUFFICES ASSUME Uploading PROVE server'.slot = server.slot
      OBVIOUS
    <3>1. r.op = "part"
      BY DEF OrderInv
    <3> QED BY <1>t, <2>1, <3>1, AfterSlot
  <2>3. Uploading' => Uploading /\ ("slot" \in lost \/ up.try + 1 <= faults')
    BY <1>0, <2>1 DEF RetryInv, Uploading
  <2>4. up'.pc = "init" => up'.try = 0
    BY <2>1 DEF RetryInv
  <2>5. RetrySurvives'
    BY <1>0, <2>1 DEF RetryInv, RetrySurvives
  <2>6. Uploading' => "slot" \in lost' \/ up'.try <= faults'
    BY <1>0, <2>1, <2>3
  <2> QED BY <1>0, <2>1, <2>2, <2>3, <2>4, <2>5, <2>6 DEF RetryInv
<1>8. CASE \E r \in net : Answers(r)
  <2>1. PICK r \in net : Answers(r)
    BY <1>8
  <2>2. /\ server' = After(r) /\ lost' = lost /\ faults' = faults
        /\ up'.fetch = IF Waited(r) THEN Answer(r) ELSE up.fetch
        /\ up'.pc = up.pc /\ up'.why = up.why /\ up'.try = up.try
    BY <1>t, <2>1, AnswersFields
  <2>3. CASE Uploading
    <3>1. r.op = "part"
      BY <2>3 DEF OrderInv
    <3>2. server'.slot = server.slot
      BY <1>t, <2>2, <3>1, AfterSlot
    <3>3. Waited(r) /\ Answer(r) = "4xx" => "slot" \in lost
      <4> SUFFICES ASSUME Waited(r), Answer(r) = "4xx", "slot" \notin lost PROVE FALSE
        OBVIOUS
      <4>1. server.slot = "open"
        BY <2>3 DEF RetryInv
      <4>2. Current(r) = "ok"
        BY <4>1 DEF Current
      <4>3. ~IsDuplicate(r) /\ r.index # server.next
        BY <4>2 DEF Answer
      <4>4. r.index = up.index /\ (server.next = up.index \/ server.next = up.index + 1)
        BY <2>3 DEF CallInv, OrderInv
      <4> QED BY <1>0, <4>3, <4>4 DEF IsDuplicate
    <3>4. Answer(r) \notin {"5xx", "error"}
      BY AnswerIsStatus
    <3> QED BY <2>2, <2>3, <3>2, <3>3, <3>4 DEF RetryInv, Uploading, RetrySurvives
  <2>4. CASE ~Uploading
    BY <2>2, <2>4 DEF RetryInv, Uploading, RetrySurvives
  <2> QED BY <2>3, <2>4
<1> QED BY <1>t, <1>1, <1>2, <1>3, <1>4, <1>5, <1>6, <1>7, <1>8, StepsAre DEF Received

\* The invariant from which RetrySurvives follows.
UploadInv == FailureInv /\ CommitInv /\ OrderInv /\ RetryInv

LEMMA UploadStep == UploadInv /\ [Next]_vars => UploadInv'
BY FailureStep, CommitStep, OrderStep, RetryStep, TypesAre DEF UploadInv, FailureInv

LEMMA UploadInit == Init => UploadInv
<1> SUFFICES ASSUME Init PROVE UploadInv
  OBVIOUS
<1>1. /\ up.pc = "init" /\ up.why = "none" /\ up.fetch = "none" /\ net = {} /\ up.index = 0
      /\ up.try = 0
      /\ server.slot = "none" /\ server.conn = "none" /\ server.next = 0 /\ server.blob = <<>>
  BY DEF Init
<1> QED BY <1>1, FailureInit DEF UploadInv, CommitInv, OrderInv, RetryInv, RetrySurvives, Uploading,
           Complete

LEMMA UploadHolds == Spec => []UploadInv
<1>1. Init => UploadInv
  BY UploadInit
<1>2. UploadInv /\ [Next]_vars => UploadInv'
  BY UploadStep
<1> QED BY <1>1, <1>2, PTL DEF Spec

\* A part is given up only after three faults or when the server has dropped the
\* transfer (api.ts:71-75, store.js:299-303): an answer that was lost is made good
\* by sending the part again, which the server knows by its number and does not
\* store twice.
THEOREM RetriesSurvive == Spec => []RetrySurvives
<1>1. UploadInv => RetrySurvives
  BY DEF UploadInv, RetryInv
<1> QED BY <1>1, UploadHolds, PTL

----------------------------------------------------------------------------
(* The container *)

\* The number of chunks of a file: an empty file has one.
Count(n) ==
    LET whole == (n + ChunkSize - 1) \div ChunkSize
    IN  IF whole = 0 THEN 1 ELSE whole

\* The plaintext of chunk j of a file of length n.
Piece(n, j) ==
    [k \in 1..Least(ChunkSize, n - (j - 1) * ChunkSize) |-> (j - 1) * ChunkSize + k]

\* The sealed chunks of a file of length n.
Sealed(n) == [j \in 1..Count(n) |-> Seal(j, j = Count(n), Piece(n, j))]

\* What FlattenSeq puts together, piece by piece.
Joined(s) ==
    LET flatten[i \in 1..Len(s)] == IF i = 1 THEN s[i] ELSE flatten[i-1] \o s[i]
    IN  flatten

\* The container up to its chunk m.
Stream(n, m) ==
    Header \o Metadata \o (IF m = 0 THEN <<>> ELSE Joined(Sealed(n))[m])

\* Multiplication, as far as it is needed.
LEMMA TimesGrows ==
    ASSUME NEW a \in Nat, NEW b \in Nat, NEW c \in Nat, c > 0
    PROVE  /\ a * c \in Nat
           /\ a <= b => a * c <= b * c
           /\ a < b => a * c + c <= b * c
           /\ (a + 1) * c = a * c + c
<1>1. a * c \in Nat /\ (a + 1) * c = a * c + c
  OBVIOUS
<1>2. ASSUME a <= b PROVE a * c <= b * c
  <2>1. PICK d \in Nat : b = a + d
    <3>1. b - a \in Nat /\ b = a + (b - a)
      BY <1>2
    <3> QED BY <3>1
  <2>2. b * c = a * c + d * c /\ d * c \in Nat
    BY <2>1
  <2> QED BY <1>1, <2>2
<1>3. ASSUME a < b PROVE a * c + c <= b * c
  <2>1. PICK d \in Nat : b = (a + 1) + d
    <3>1. b - (a + 1) \in Nat /\ b = (a + 1) + (b - (a + 1))
      BY <1>3
    <3> QED BY <3>1
  <2>2. b * c = (a + 1) * c + d * c /\ d * c \in Nat
    BY <2>1
  <2> QED BY <1>1, <2>2
<1> QED BY <1>1, <1>2, <1>3

\* Division with remainder.
LEMMA DivIs ==
    ASSUME NEW x \in Nat, NEW c \in Nat, c > 0
    PROVE  /\ x \div c \in Nat
           /\ (x \div c) * c <= x /\ x < (x \div c) * c + c
OBVIOUS

\* How many chunks a file has.
LEMMA CountIs ==
    ASSUME NEW n \in Nat
    PROVE  /\ Count(n) \in Nat /\ Count(n) >= 1
           /\ (Count(n) - 1) * ChunkSize <= n /\ n <= Count(n) * ChunkSize
           /\ n > 0 => (Count(n) - 1) * ChunkSize < n
           /\ n = 0 => Count(n) = 1
<1>1. ChunkSize \in Nat /\ ChunkSize > 0
  BY StoredAssumption DEF StoredAssumption
<1> DEFINE x == n + ChunkSize - 1
           whole == x \div ChunkSize
<1>2. x \in Nat
  BY <1>1
<1>3. whole \in Nat /\ whole * ChunkSize <= x /\ x < whole * ChunkSize + ChunkSize
  BY <1>1, <1>2, DivIs
<1>4. Count(n) = IF whole = 0 THEN 1 ELSE whole
  BY DEF Count
<1> HIDE DEF whole
<1>5. CASE whole = 0
  <2>1. n = 0
    BY <1>1, <1>3, <1>5
  <2> QED BY <1>1, <1>4, <1>5, <2>1
<1>6. CASE whole # 0
  <2>1. whole - 1 \in Nat /\ whole = (whole - 1) + 1
    BY <1>3, <1>6
  <2>2. whole * ChunkSize = (whole - 1) * ChunkSize + ChunkSize
    BY <1>1, <2>1, TimesGrows
  <2>3. (whole - 1) * ChunkSize \in Nat /\ whole * ChunkSize \in Nat
    BY <1>1, <1>3, <2>1, TimesGrows
  <2>4. (whole - 1) * ChunkSize < n /\ n <= whole * ChunkSize
    BY <1>1, <1>3, <2>2, <2>3
  <2> QED BY <1>3, <1>4, <1>6, <2>3, <2>4
<1> QED BY <1>5, <1>6

\* Where a chunk begins tells how many there are.
LEMMA CountBounds ==
    ASSUME NEW n \in Nat, NEW e \in Nat
    PROVE  /\ e * ChunkSize <= n => e <= Count(n)
           /\ e * ChunkSize < n => e < Count(n)
           /\ e < Count(n) => e * ChunkSize <= n
           /\ e + 1 < Count(n) => e * ChunkSize + ChunkSize <= n
           /\ e * ChunkSize < n /\ n <= e * ChunkSize + ChunkSize => Count(n) = e + 1
           /\ e >= 1 /\ n = e * ChunkSize => Count(n) = e
<1>1. ChunkSize \in Nat /\ ChunkSize > 0
  BY StoredAssumption DEF StoredAssumption
<1> DEFINE c == Count(n)
<1>2. /\ c \in Nat /\ c >= 1 /\ c - 1 \in Nat
      /\ (c - 1) * ChunkSize <= n /\ n <= c * ChunkSize
      /\ n > 0 => (c - 1) * ChunkSize < n
      /\ n = 0 => c = 1
  BY CountIs
<1> HIDE DEF c
<1>3. /\ e * ChunkSize \in Nat /\ c * ChunkSize \in Nat /\ (c - 1) * ChunkSize \in Nat
      /\ c * ChunkSize = (c - 1) * ChunkSize + ChunkSize
  <2>1. c = (c - 1) + 1
    BY <1>2
  <2>2. ((c - 1) + 1) * ChunkSize = (c - 1) * ChunkSize + ChunkSize
    BY <1>1, <1>2, TimesGrows
  <2> QED BY <1>1, <1>2, <2>1, <2>2, TimesGrows
<1>4. c < e => c * ChunkSize + ChunkSize <= e * ChunkSize
  BY <1>1, <1>2, TimesGrows
<1>5. c <= e => c * ChunkSize <= e * ChunkSize
  BY <1>1, <1>2, TimesGrows
<1>6. e <= c - 1 => e * ChunkSize <= (c - 1) * ChunkSize
  BY <1>1, <1>2, TimesGrows
<1>7. e < c - 1 => e * ChunkSize + ChunkSize <= (c - 1) * ChunkSize
  BY <1>1, <1>2, TimesGrows
<1>8. e * ChunkSize <= n => e <= c
  BY <1>1, <1>2, <1>3, <1>4
<1>9. e * ChunkSize < n => e < c
  BY <1>1, <1>2, <1>3, <1>5
<1>10. e < c => e * ChunkSize <= n
  BY <1>1, <1>2, <1>3, <1>6
<1>11. e + 1 < c => e * ChunkSize + ChunkSize <= n
  BY <1>1, <1>2, <1>3, <1>7
<1>12. e * ChunkSize < n /\ n <= e * ChunkSize + ChunkSize => c = e + 1
  BY <1>1, <1>2, <1>3, <1>7, <1>9
<1>13. e >= 1 /\ n = e * ChunkSize => c = e
  BY <1>1, <1>2, <1>3, <1>4, <1>6
<1> QED BY <1>8, <1>9, <1>10, <1>11, <1>12, <1>13 DEF c

\* Induction on the natural numbers, for the sets that are written out.
LEMMA NatInduct ==
    ASSUME NEW N \in Nat, NEW S, 0 \in S, \A m \in 0..N : m \in S /\ m < N => m + 1 \in S
    PROVE  0..N \subseteq S
<1> DEFINE T == {m \in Nat : m <= N /\ m \notin S}
<1>1. SUFFICES ASSUME T # {} PROVE FALSE
  OBVIOUS
<1>2. T \subseteq Nat
  OBVIOUS
<1>3. PICK m \in T : \A y \in T : ~(<<y, m>> \in OpToRel(<, Nat))
  BY <1>1, <1>2, NatLessThanWellFounded, WFMin
<1>4. \A y \in T : ~(y < m)
  BY <1>3 DEF OpToRel
<1>5. m \in Nat /\ m <= N /\ m \notin S
  BY <1>3
<1>6. m # 0 /\ m - 1 \in 0..N /\ m - 1 < m /\ m - 1 < N /\ (m - 1) + 1 = m
  BY <1>5
<1>7. m - 1 \in S
  BY <1>4, <1>6
<1> QED BY <1>5, <1>6, <1>7

\* The function that Joined defines, up to m.
JoinedTo(s, m, f) ==
    f = [i \in 1..m |-> IF i = 1 THEN s[i] ELSE f[i-1] \o s[i]]

\* The pieces can be put together, so the recursion says what Joined is.
LEMMA JoinedExists ==
    ASSUME NEW s, NEW N \in Nat
    PROVE  \E f : JoinedTo(s, N, f)
<1> DEFINE S == {m \in 0..N : \E f : JoinedTo(s, m, f)}
<1>1. 0 \in S
  <2>1. JoinedTo(s, 0, [i \in 1..0 |-> s[i]])
    BY DEF JoinedTo
  <2> QED BY <2>1
<1>2. ASSUME NEW m \in 0..N, m \in S, m < N PROVE m + 1 \in S
  <2>1. PICK g : JoinedTo(s, m, g)
    BY <1>2
  <2>2. g = [i \in 1..m |-> IF i = 1 THEN s[i] ELSE g[i-1] \o s[i]]
    BY <2>1 DEF JoinedTo
  <2> DEFINE last == IF m = 0 THEN s[1] ELSE g[m] \o s[m + 1]
             f == [i \in 1..(m + 1) |-> IF i = m + 1 THEN last ELSE g[i]]
  <2>3. \A i \in 1..m : f[i] = g[i]
    OBVIOUS
  <2>4. f[m + 1] = last
    OBVIOUS
  <2>5. \A i \in 1..(m + 1) : f[i] = IF i = 1 THEN s[i] ELSE f[i-1] \o s[i]
    <3>1. CASE m = 0
      BY <2>4, <3>1
    <3>2. CASE m > 0
      <4>1. \A i \in 1..m : f[i] = IF i = 1 THEN s[i] ELSE f[i-1] \o s[i]
        <5>1. \A i \in 1..m : g[i] = IF i = 1 THEN s[i] ELSE g[i-1] \o s[i]
          BY <2>2
        <5>2. \A i \in 1..m : i # 1 => i - 1 \in 1..m
          OBVIOUS
        <5> HIDE DEF f
        <5> QED BY <2>3, <5>1, <5>2
      <4>2. last = f[m] \o s[m + 1]
        <5>1. m \in 1..m /\ m # 0
          BY <3>2
        <5>2. f[m] = g[m]
          BY <2>3, <5>1
        <5>3. last = g[m] \o s[m + 1]
          BY <5>1
        <5> HIDE DEF f, last
        <5> QED BY <5>2, <5>3
      <4> HIDE DEF f, last
      <4>3. f[m + 1] = IF m + 1 = 1 THEN s[m + 1] ELSE f[(m + 1) - 1] \o s[m + 1]
        <5>1. m + 1 # 1 /\ (m + 1) - 1 = m
          BY <3>2
        <5> QED BY <2>4, <4>2, <5>1
      <4> QED BY <4>1, <4>3
    <3>3. m = 0 \/ m > 0
      OBVIOUS
    <3> HIDE DEF f
    <3> QED BY <3>1, <3>2, <3>3
  <2>6. JoinedTo(s, m + 1, f)
    <3>1. f = [i \in 1..(m + 1) |-> f[i]]
      OBVIOUS
    <3> HIDE DEF f
    <3>2. f = [i \in 1..(m + 1) |-> IF i = 1 THEN s[i] ELSE f[i-1] \o s[i]]
      BY <2>5, <3>1
    <3> QED BY <3>2 DEF JoinedTo
  <2> HIDE DEF f
  <2> QED BY <1>2, <2>6
<1> HIDE DEF S
<1>3. 0..N \subseteq S
  BY <1>1, <1>2, NatInduct
<1> QED BY <1>3 DEF S

\* Joined adds one piece after the other.
LEMMA JoinedIs ==
    ASSUME NEW s, Len(s) \in Nat
    PROVE  \A i \in 1..Len(s) :
             Joined(s)[i] = IF i = 1 THEN s[i] ELSE Joined(s)[i-1] \o s[i]
<1>1. PICK g : JoinedTo(s, Len(s), g)
  BY JoinedExists
<1>2. g = [i \in 1..Len(s) |-> IF i = 1 THEN s[i] ELSE g[i-1] \o s[i]]
  BY <1>1 DEF JoinedTo
<1>3. Joined(s) = [i \in 1..Len(s) |-> IF i = 1 THEN s[i] ELSE Joined(s)[i-1] \o s[i]]
  BY <1>2 DEF Joined
<1> DEFINE f == Joined(s)
<1>4. f = [i \in 1..Len(s) |-> IF i = 1 THEN s[i] ELSE f[i-1] \o s[i]]
  BY <1>3
<1> HIDE DEF f
<1>5. \A i \in 1..Len(s) : f[i] = IF i = 1 THEN s[i] ELSE f[i-1] \o s[i]
  BY <1>4
<1> QED BY <1>5 DEF f
\* The bytes of a piece.
LEMMA PieceIs ==
    ASSUME NEW n \in Sizes, NEW j \in Nat, j >= 1, (j - 1) * ChunkSize <= n
    PROVE  /\ Piece(n, j) \in Bytes
           /\ Len(Piece(n, j)) = Least(ChunkSize, n - (j - 1) * ChunkSize)
           /\ \A k \in 1..Len(Piece(n, j)) : Piece(n, j)[k] = (j - 1) * ChunkSize + k
<1>1. n \in Nat /\ ChunkSize \in Nat /\ ChunkSize > 0
  BY StoredAssumption DEF StoredAssumption
<1> DEFINE b == (j - 1) * ChunkSize
           m == Least(ChunkSize, n - b)
<1>2. b \in Nat /\ b <= n
  <2>1. j - 1 \in Nat
    OBVIOUS
  <2> QED BY <1>1, <2>1, TimesGrows
<1> HIDE DEF b
<1>3. m \in Nat /\ m <= n - b
  <2>1. ChunkSize \in Int /\ n - b \in Int /\ ChunkSize >= 0 /\ n - b >= 0
    BY <1>1, <1>2
  <2> QED BY <2>1, LeastIs
<1> HIDE DEF m
<1>4. \A k \in 1..m : b + k \in UNION {0..x : x \in Sizes}
  <2>1. \A k \in 1..m : b + k \in 0..n
    BY <1>1, <1>2, <1>3
  <2> QED BY <2>1
<1>5. [k \in 1..m |-> b + k] \in [1..m -> UNION {0..x : x \in Sizes}]
  BY <1>4
<1>6. Piece(n, j) = [k \in 1..m |-> b + k]
  BY DEF Piece, m, b
<1>7. Piece(n, j) \in Bytes /\ Len(Piece(n, j)) = m
  BY <1>3, <1>5, <1>6, MappingIsASeq DEF Bytes
<1>8. \A k \in 1..m : Piece(n, j)[k] = b + k
  BY <1>6
<1> QED BY <1>7, <1>8 DEF m, b

\* A sequence of these bytes is that piece.
LEMMA PieceFrom ==
    ASSUME NEW n \in Sizes, NEW e \in Nat, e * ChunkSize <= n, NEW s \in Bytes,
           Len(s) = Least(ChunkSize, n - e * ChunkSize),
           \A k \in 1..Len(s) : s[k] = e * ChunkSize + k
    PROVE  s = Piece(n, e + 1)
<1> DEFINE b == e * ChunkSize
           j == e + 1
<1>1. j \in Nat /\ j >= 1 /\ (j - 1) * ChunkSize = b
  <2>1. j - 1 = e
    OBVIOUS
  <2> QED BY <2>1
<1> HIDE DEF b, j
<1>2. /\ Piece(n, j) \in Bytes /\ Len(Piece(n, j)) = Least(ChunkSize, n - b)
      /\ \A k \in 1..Len(Piece(n, j)) : Piece(n, j)[k] = b + k
  <2>1. (j - 1) * ChunkSize <= n
    BY <1>1 DEF b
  <2>2. /\ Piece(n, j) \in Bytes
        /\ Len(Piece(n, j)) = Least(ChunkSize, n - (j - 1) * ChunkSize)
        /\ \A k \in 1..Len(Piece(n, j)) : Piece(n, j)[k] = (j - 1) * ChunkSize + k
    BY <1>1, <2>1, PieceIs
  <2> QED BY <1>1, <2>2
<1>3. Len(s) = Len(Piece(n, j)) /\ \A k \in 1..Len(s) : s[k] = Piece(n, j)[k]
  BY <1>2 DEF b
<1>4. s = Piece(n, j)
  BY <1>2, <1>3, SeqEqual DEF Bytes
<1> QED BY <1>4 DEF j

\* The chunks of a file, sealed.
LEMMA SealedIs ==
    ASSUME NEW n \in Sizes
    PROVE  /\ Len(Sealed(n)) = Count(n)
           /\ Count(n) \in Nat /\ Count(n) >= 1
           /\ \A j \in 1..Count(n) :
                /\ (j - 1) * ChunkSize <= n /\ (j - 1) * ChunkSize \in Nat
                /\ Piece(n, j) \in Bytes
                /\ Len(Piece(n, j)) = Least(ChunkSize, n - (j - 1) * ChunkSize)
                /\ Sealed(n)[j] = Seal(j, j = Count(n), Piece(n, j))
                /\ Sealed(n)[j] \in Seq(Token)
                /\ Len(Sealed(n)[j]) = Len(Piece(n, j)) + 1
                /\ \A k \in 1..Len(Piece(n, j)) + 1 :
                     Sealed(n)[j][k] = [bound |-> Bound(j, j = Count(n)), of |-> Piece(n, j),
                                        at |-> k]
<1>1. n \in Nat /\ ChunkSize \in Nat /\ ChunkSize > 0
  BY StoredAssumption DEF StoredAssumption
<1>2. Count(n) \in Nat /\ Count(n) >= 1
  BY <1>1, CountIs
<1>3. ASSUME NEW j \in 1..Count(n)
      PROVE  /\ (j - 1) * ChunkSize <= n /\ (j - 1) * ChunkSize \in Nat
             /\ Piece(n, j) \in Bytes
             /\ Len(Piece(n, j)) = Least(ChunkSize, n - (j - 1) * ChunkSize)
             /\ Sealed(n)[j] = Seal(j, j = Count(n), Piece(n, j))
             /\ Sealed(n)[j] \in Seq(Token)
             /\ Len(Sealed(n)[j]) = Len(Piece(n, j)) + 1
             /\ \A k \in 1..Len(Piece(n, j)) + 1 :
                  Sealed(n)[j][k] = [bound |-> Bound(j, j = Count(n)), of |-> Piece(n, j),
                                     at |-> k]
  <2>1. j - 1 \in Nat /\ j - 1 < Count(n) /\ j \in Nat /\ j >= 1
    BY <1>2
  <2>2. (j - 1) * ChunkSize <= n
    BY <1>1, <2>1, CountBounds
  <2>3. (j - 1) * ChunkSize \in Nat
    BY <1>1, <2>1, TimesGrows
  <2>4. Sealed(n)[j] = Seal(j, j = Count(n), Piece(n, j))
    BY DEF Sealed
  <2>5. (j = Count(n)) \in BOOLEAN
    OBVIOUS
  <2>6. Piece(n, j) \in Bytes
        /\ Len(Piece(n, j)) = Least(ChunkSize, n - (j - 1) * ChunkSize)
    BY <2>1, <2>2, PieceIs
  <2> DEFINE final == j = Count(n)
  <2> HIDE DEF final
  <2>7. final \in BOOLEAN
    BY <2>5 DEF final
  <2>8. /\ Seal(j, final, Piece(n, j)) \in Seq(Token)
        /\ Len(Seal(j, final, Piece(n, j))) = Len(Piece(n, j)) + 1
        /\ \A k \in 1..Len(Piece(n, j)) + 1 : Seal(j, final, Piece(n, j))[k] =
                [bound |-> Bound(j, final), of |-> Piece(n, j), at |-> k]
    BY <2>1, <2>6, <2>7, SealIsASeq
  <2>9. Sealed(n)[j] = Seal(j, final, Piece(n, j))
    BY <2>4 DEF final
  <2>10. /\ Sealed(n)[j] \in Seq(Token)
         /\ Len(Sealed(n)[j]) = Len(Piece(n, j)) + 1
         /\ \A k \in 1..Len(Piece(n, j)) + 1 :
              Sealed(n)[j][k] = [bound |-> Bound(j, final), of |-> Piece(n, j), at |-> k]
    BY <2>8, <2>9
  <2> QED BY <2>2, <2>3, <2>4, <2>6, <2>10 DEF final
<1>4. Len(Sealed(n)) = Count(n)
  BY <1>2 DEF Sealed
<1> QED BY <1>2, <1>3, <1>4

\* A token of the container says which chunk it belongs to, and what that is.
Genuine(n, t) ==
    /\ t.of = Piece(n, t.bound.chunk)
    /\ t.bound.final = (t.bound.chunk = Count(n))

\* The tokens of a sealed chunk.
LEMMA SealedTokens ==
    ASSUME NEW n \in Sizes, NEW j \in 1..Count(n)
    PROVE  /\ Sealed(n)[j] \in Seq(Token)
           /\ Len(Sealed(n)[j]) = Least(ChunkSize, n - (j - 1) * ChunkSize) + 1
           /\ \A k \in 1..Len(Sealed(n)[j]) :
                /\ Sealed(n)[j][k].bound.chunk = j
                /\ Sealed(n)[j][k].at = k
                /\ Genuine(n, Sealed(n)[j][k])
<1> DEFINE t(k) == [bound |-> Bound(j, j = Count(n)), of |-> Piece(n, j), at |-> k]
<1>1. /\ Sealed(n)[j] \in Seq(Token)
      /\ Len(Sealed(n)[j]) = Len(Piece(n, j)) + 1
      /\ Len(Piece(n, j)) = Least(ChunkSize, n - (j - 1) * ChunkSize)
      /\ \A k \in 1..Len(Piece(n, j)) + 1 : Sealed(n)[j][k] = t(k)
  BY SealedIs
<1>2. \A k : t(k).bound = Bound(j, j = Count(n)) /\ t(k).of = Piece(n, j) /\ t(k).at = k
  OBVIOUS
<1>3. Bound(j, j = Count(n)).chunk = j /\ Bound(j, j = Count(n)).final = (j = Count(n))
  BY DEF Bound
<1> HIDE DEF t
<1>4. \A k : t(k).bound.chunk = j /\ t(k).at = k /\ Genuine(n, t(k))
  <2> SUFFICES ASSUME NEW k PROVE t(k).bound.chunk = j /\ t(k).at = k /\ Genuine(n, t(k))
    OBVIOUS
  <2>1. t(k).bound.chunk = j
    BY <1>2, <1>3
  <2>2. t(k).bound.final = (t(k).bound.chunk = Count(n))
    BY <1>2, <1>3, Zenon
  <2> QED BY <1>2, <2>1, <2>2 DEF Genuine
<1> QED BY <1>1, <1>4

\* The tokens of s are numbered in order.
InPlace(s) == s \in Seq(Token) /\ \A k \in 1..Len(s) : s[k].at = k

LEMMA SealedInPlace ==
    ASSUME NEW n \in Sizes, NEW j \in 1..Count(n)
    PROVE  InPlace(Sealed(n)[j])
<1>1. Sealed(n)[j] \in Seq(Token)
  BY SealedTokens
<1>2. ASSUME NEW k \in 1..Len(Sealed(n)[j])
      PROVE  Sealed(n)[j][k].at = k
  BY SealedTokens
<1> QED BY <1>1, <1>2 DEF InPlace

\* One more chunk.
LEMMA ChunkAdded ==
    ASSUME NEW n, NEW m \in Nat, NEW x \in Seq(Token), NEW y \in Seq(Token),
           \A p \in 1..Len(x) : x[p].bound.chunk \in 1..m /\ Genuine(n, x[p]),
           \A k \in 1..Len(y) : y[k].bound.chunk = m + 1 /\ Genuine(n, y[k])
    PROVE  /\ x \o y \in Seq(Token) /\ Len(x \o y) = Len(x) + Len(y)
           /\ \A p \in 1..Len(x \o y) :
                (x \o y)[p].bound.chunk \in 1..(m + 1) /\ Genuine(n, (x \o y)[p])
<1> DEFINE z == x \o y
<1>1. /\ z \in Seq(Token) /\ Len(z) = Len(x) + Len(y)
      /\ \A k \in 1..Len(x) : z[k] = x[k]
      /\ \A k \in 1..Len(y) : z[Len(x) + k] = y[k]
  BY JoinIsASeq
<1>2. Len(x) \in Nat /\ Len(y) \in Nat
  BY LenProperties
<1> HIDE DEF z
<1>3. ASSUME NEW p \in 1..Len(z) PROVE z[p].bound.chunk \in 1..(m + 1) /\ Genuine(n, z[p])
  <2>1. CASE p <= Len(x)
    <3>1. p \in 1..Len(x)
      BY <1>2, <2>1
    <3>2. z[p].bound.chunk \in 1..m /\ Genuine(n, z[p])
      BY <1>1, <3>1
    <3>3. \A i \in 1..m : i \in 1..(m + 1)
      OBVIOUS
    <3> QED BY <3>2, <3>3
  <2>2. CASE p > Len(x)
    <3>1. PICK k \in 1..Len(y) : p = Len(x) + k
      <4>1. p \in Nat /\ p <= Len(x) + Len(y)
        BY <1>1, <1>2
      <4>2. p - Len(x) \in 1..Len(y) /\ p = Len(x) + (p - Len(x))
        BY <1>2, <2>2, <4>1
      <4> QED BY <4>2
    <3>2. z[p] = y[k]
      BY <1>1, <3>1
    <3>3. m + 1 \in 1..(m + 1)
      OBVIOUS
    <3> QED BY <3>2, <3>3
  <2> QED BY <1>2, <2>1, <2>2
<1> QED BY <1>1, <1>3 DEF z

\* The chunks up to m, put together.
LEMMA ChunksTogether ==
    ASSUME NEW n \in Sizes
    PROVE  \A m \in 1..Count(n) :
             /\ Joined(Sealed(n))[m] \in Seq(Token)
             /\ Len(Joined(Sealed(n))[m]) = Least(n, m * ChunkSize) + m
             /\ \A p \in 1..Len(Joined(Sealed(n))[m]) :
                  /\ Joined(Sealed(n))[m][p].bound.chunk \in 1..m
                  /\ Genuine(n, Joined(Sealed(n))[m][p])
<1> DEFINE c == Count(n)
           s == Sealed(n)
           J == Joined(s)
           Right(m) == /\ J[m] \in Seq(Token)
                       /\ Len(J[m]) = Least(n, m * ChunkSize) + m
                       /\ \A p \in 1..Len(J[m]) : J[m][p].bound.chunk \in 1..m /\ Genuine(n, J[m][p])
           S == {m \in 0..c : m > 0 => Right(m)}
<1>1. n \in Nat /\ ChunkSize \in Nat /\ ChunkSize > 0
  BY StoredAssumption DEF StoredAssumption
<1>2. c \in Nat /\ c >= 1 /\ Len(s) = c
  BY SealedIs
<1>3. \A i \in 1..c : J[i] = IF i = 1 THEN s[i] ELSE J[i-1] \o s[i]
  BY <1>2, JoinedIs
<1> HIDE DEF J
<1>4. 0 \in S
  BY <1>2
<1>5. ASSUME NEW m \in 0..c, m \in S, m < c PROVE m + 1 \in S
  <2> DEFINE j == m + 1
             b == m * ChunkSize
             y == s[j]
  <2>1. j \in 1..c /\ j - 1 = m /\ m \in Nat /\ j \in 0..c /\ j >= 1 /\ j = m + 1
    BY <1>2, <1>5
  <2> HIDE DEF j
  <2>2. b \in Nat /\ b <= n /\ j * ChunkSize = b + ChunkSize
    <3>1. m * ChunkSize <= n
      BY <1>1, <1>5, <2>1, CountBounds
    <3>2. m * ChunkSize \in Nat /\ (m + 1) * ChunkSize = m * ChunkSize + ChunkSize
      BY <1>1, <2>1, TimesGrows
    <3> QED BY <2>1, <3>1, <3>2
  <2>3. y \in Seq(Token) /\ Len(y) = Least(ChunkSize, n - b) + 1
    BY <2>1, SealedTokens
  <2>4. \A k \in 1..Len(y) : y[k].bound.chunk = j /\ Genuine(n, y[k])
    BY <2>1, SealedTokens, ZenonT(30)
  <2>5. J[j] = IF j = 1 THEN y ELSE J[m] \o y
    BY <1>3, <2>1
  <2> HIDE DEF y, b
  <2>6. Least(n, b + ChunkSize) = b + Least(ChunkSize, n - b) /\ Least(n, b) = b
        /\ Least(ChunkSize, n - b) \in Nat
    BY <1>1, <2>2 DEF Least
  <2>7. CASE m = 0
    <3>1. b = 0 /\ J[j] = y /\ j = 1
      <4>1. j = 1
        BY <2>1, <2>7
      <4>2. b = 0
        BY <1>1, <2>7 DEF b
      <4> QED BY <2>5, <4>1, <4>2
    <3>2. Len(J[j]) = Least(n, j * ChunkSize) + j
      BY <2>2, <2>3, <2>6, <3>1
    <3>3. j \in 1..j
      BY <2>1
    <3>4. Right(j)
      BY <2>3, <2>4, <3>1, <3>2, <3>3
    <3> HIDE DEF Right
    <3> QED BY <2>1, <3>4
  <2>8. CASE m # 0
    <3> DEFINE x == J[m]
    <3>1. J[j] = x \o y /\ m > 0
      BY <2>1, <2>5, <2>8
    <3>2. x \in Seq(Token) /\ Len(x) = b + m
          /\ \A p \in 1..Len(x) : x[p].bound.chunk \in 1..m /\ Genuine(n, x[p])
      BY <1>5, <2>6, <3>1 DEF b
    <3> HIDE DEF x
    <3>3. /\ J[j] \in Seq(Token) /\ Len(J[j]) = Len(x) + Len(y)
          /\ \A p \in 1..Len(J[j]) : J[j][p].bound.chunk \in 1..j /\ Genuine(n, J[j][p])
      <4>1. \A k \in 1..Len(y) : y[k].bound.chunk = m + 1 /\ Genuine(n, y[k])
        BY <2>1, <2>4
      <4>2. /\ x \o y \in Seq(Token) /\ Len(x \o y) = Len(x) + Len(y)
            /\ \A p \in 1..Len(x \o y) :
                 (x \o y)[p].bound.chunk \in 1..(m + 1) /\ Genuine(n, (x \o y)[p])
        BY <2>1, <2>3, <3>2, <4>1, ChunkAdded
      <4> QED BY <2>1, <3>1, <4>2
    <3>4. Len(J[j]) = Least(n, j * ChunkSize) + j
      BY <2>1, <2>2, <2>3, <2>6, <3>2, <3>3
    <3>5. Right(j)
      BY <3>3, <3>4
    <3> HIDE DEF Right
    <3> QED BY <2>1, <3>5
  <2> QED BY <2>7, <2>8
<1> HIDE DEF S
<1>6. 0..c \subseteq S
  BY <1>2, <1>4, <1>5, NatInduct
<1>7. \A m \in 1..c : Right(m)
  BY <1>2, <1>6 DEF S
<1> QED BY <1>7 DEF J
\* The container grows by one sealed chunk at a time.
LEMMA StreamIs ==
    ASSUME NEW n \in Sizes
    PROVE  /\ Stream(n, 0) = Header \o Metadata
           /\ \A m \in 1..Count(n) :
                Stream(n, m) = Stream(n, m - 1) \o Seal(m, m = Count(n), Piece(n, m))
           /\ \A m \in 0..Count(n) : Stream(n, m) \in Seq(Token)
           /\ Container(n) = Stream(n, Count(n))
           /\ \A m \in 1..Count(n) : Stream(n, m) = Header \o Metadata \o Joined(Sealed(n))[m]
<1> DEFINE pre == Header \o Metadata
           J == Joined(Sealed(n))
           c == Count(n)
<1>1. pre \in Seq(Token)
  <2>1. Sizes # {}
    OBVIOUS
  <2> QED BY <2>1, PreambleIsASeq
<1>2. c \in Nat /\ c >= 1 /\ Len(Sealed(n)) = c
      /\ \A j \in 1..c : /\ Sealed(n)[j] = Seal(j, j = Count(n), Piece(n, j))
                         /\ Sealed(n)[j] \in Seq(Token)
  BY SealedIs
<1>3. \A i \in 1..c : J[i] = IF i = 1 THEN Sealed(n)[i] ELSE J[i-1] \o Sealed(n)[i]
  BY <1>2, JoinedIs
<1>4. \A m \in 1..c : J[m] \in Seq(Token)
  BY ChunksTogether
<1>5. Container(n) = pre \o FlattenSeq(Sealed(n))
  BY DEF Container, Sealed, Count, Piece
<1>6. FlattenSeq(Sealed(n)) = J[c]
  <2>1. Len(Sealed(n)) # 0
    BY <1>2
  <2>2. FlattenSeq(Sealed(n)) = Joined(Sealed(n))[Len(Sealed(n))]
    BY <2>1 DEF FlattenSeq, Joined
  <2> QED BY <1>2, <2>2
<1>7. Stream(n, 0) = pre /\ \A m \in 1..c : Stream(n, m) = pre \o J[m]
  <2>1. pre \o <<>> = pre
    BY <1>1, ConcatEmptySeq
  <2>2. Stream(n, 0) = pre \o <<>>
    BY DEF Stream
  <2>3. \A m \in 1..c : m # 0
    OBVIOUS
  <2>4. \A m \in 1..c : Stream(n, m) = pre \o J[m]
    BY <2>3 DEF Stream
  <2> QED BY <2>1, <2>2, <2>4
<1> HIDE DEF J, pre
<1>8. \A m \in 0..c : Stream(n, m) \in Seq(Token)
  <2>1. \A m \in 0..c : m = 0 \/ m \in 1..c
    BY <1>2
  <2>2. \A m \in 1..c : pre \o J[m] \in Seq(Token)
    BY <1>1, <1>4, ConcatProperties
  <2> QED BY <1>1, <1>7, <2>1, <2>2
<1>9. ASSUME NEW m \in 1..c
      PROVE  Stream(n, m) = Stream(n, m - 1) \o Seal(m, m = Count(n), Piece(n, m))
  <2>0. /\ Sealed(n)[m] = Seal(m, m = Count(n), Piece(n, m))
        /\ Sealed(n)[m] \in Seq(Token)
        /\ Stream(n, m) = pre \o J[m]
    BY <1>2, <1>7
  <2>1. CASE m = 1
    <3>1. J[m] = Sealed(n)[m] /\ Stream(n, m - 1) = pre
      <4>1. m - 1 = 0
        BY <2>1
      <4>2. Stream(n, m - 1) = pre
        BY <1>7, <4>1
      <4> QED BY <1>3, <2>1, <4>2
    <3>2. Stream(n, m) = Stream(n, m - 1) \o Sealed(n)[m]
      BY <2>0, <3>1
    <3> QED BY <2>0, <3>2, Zenon
  <2>2. CASE m # 1
    <3>1. m - 1 \in 1..c
      BY <1>2, <2>2
    <3>2. J[m] = J[m - 1] \o Sealed(n)[m]
      BY <1>3, <2>2
    <3>3. pre \o (J[m - 1] \o Sealed(n)[m]) = (pre \o J[m - 1]) \o Sealed(n)[m]
      <4>1. J[m - 1] \in Seq(Token) /\ Sealed(n)[m] \in Seq(Token)
        BY <1>4, <2>0, <3>1
      <4>2. \A s, t, u \in Seq(Token) : (s \o t) \o u = s \o (t \o u)
        BY ConcatAssociative
      <4> QED BY <1>1, <4>1, <4>2, Zenon
    <3>4. Stream(n, m - 1) = pre \o J[m - 1]
      BY <1>7, <3>1
    <3>5. Stream(n, m) = Stream(n, m - 1) \o Sealed(n)[m]
      BY <2>0, <3>2, <3>3, <3>4, Zenon
    <3> QED BY <2>0, <3>5, Zenon
  <2> QED BY <2>1, <2>2
<1>10. Container(n) = Stream(n, c)
  <2>1. c \in 1..c
    BY <1>2
  <2> QED BY <1>5, <1>6, <1>7, <2>1
<1> QED BY <1>7, <1>8, <1>9, <1>10 DEF J, pre

\* The container is as long as the upload declares before it starts.
LEMMA ContainerLength ==
    ASSUME NEW n \in Sizes
    PROVE  /\ Container(n) \in Seq(Token)
           /\ Len(Container(n)) = 3 + n + Count(n)
           /\ SealedTotalLength(n) = 3 + n + Count(n)
<1>1. n \in Nat /\ ChunkSize \in Nat /\ ChunkSize > 0
  BY StoredAssumption DEF StoredAssumption
<1> DEFINE c == Count(n)
           pre == Header \o Metadata
           body == Joined(Sealed(n))[c]
<1>2. /\ c \in Nat /\ c >= 1 /\ n <= c * ChunkSize /\ c \in 1..c
      /\ c * ChunkSize \in Nat
  <2>1. c \in Nat /\ c >= 1 /\ n <= c * ChunkSize
    BY <1>1, CountIs
  <2> HIDE DEF c
  <2>2. c * ChunkSize \in Nat
    BY <1>1, <2>1, TimesGrows
  <2> QED BY <2>1, <2>2
<1>3. pre \in Seq(Token) /\ Len(pre) = 3
  <2>1. Sizes # {}
    OBVIOUS
  <2> QED BY <2>1, PreambleIsASeq
<1>4. body \in Seq(Token) /\ Len(body) = Least(n, c * ChunkSize) + c
  BY <1>2, ChunksTogether
<1>5. Container(n) = pre \o body
  BY <1>2, StreamIs
<1> HIDE DEF pre, body, c
<1>6. Container(n) \in Seq(Token) /\ Len(Container(n)) = Len(pre) + Len(body)
  <2>1. pre \in Seq(Token) /\ body \in Seq(Token)
    BY <1>3, <1>4
  <2>2. pre \o body \in Seq(Token) /\ Len(pre \o body) = Len(pre) + Len(body)
    BY <2>1, JoinIsASeq
  <2> QED BY <1>5, <2>2
<1>7. Least(n, c * ChunkSize) = n
  BY <1>1, <1>2 DEF Least
<1>8. Len(Container(n)) = 3 + n + c
  BY <1>1, <1>2, <1>3, <1>4, <1>6, <1>7
<1> DEFINE full == n \div ChunkSize
           rest == n - full * ChunkSize
<1>9. /\ full \in Nat /\ full * ChunkSize \in Nat
      /\ full * ChunkSize <= n /\ n < full * ChunkSize + ChunkSize
  <2>1. full \in Nat /\ full * ChunkSize <= n /\ n < full * ChunkSize + ChunkSize
    BY <1>1, DivIs
  <2> HIDE DEF full
  <2>2. full * ChunkSize \in Nat
    BY <1>1, <2>1, TimesGrows
  <2> QED BY <2>1, <2>2
<1>10. SealedTotalLength(n) = 1 + SealedMeta + full * (ChunkSize + Tag)
                                + (IF rest > 0 \/ n = 0 THEN rest + Tag ELSE 0)
  BY DEF SealedTotalLength
<1> HIDE DEF full
<1>11. full * (ChunkSize + 1) = full * ChunkSize + full
  BY <1>1, <1>9
<1>12. SealedTotalLength(n) = 3 + (full * ChunkSize + full)
                                + (IF rest > 0 \/ n = 0 THEN rest + 1 ELSE 0)
  BY <1>9, <1>10, <1>11 DEF SealedMeta, Tag
<1>13. CASE rest > 0
  <2>1. c = full + 1
    <3>1. full * ChunkSize < n /\ n <= full * ChunkSize + ChunkSize
      BY <1>1, <1>9, <1>13
    <3> QED BY <1>1, <1>9, <3>1, CountBounds DEF c
  <2> QED BY <1>1, <1>6, <1>8, <1>9, <1>12, <1>13, <2>1 DEF c
<1>14. CASE n = 0
  <2>1. c = 1
    BY <1>1, <1>14, CountIs DEF c
  <2>2. full * ChunkSize = 0
    BY <1>9, <1>14
  <2>3. full = 0
    <3>1. full > 0 => 0 * ChunkSize + ChunkSize <= full * ChunkSize
      BY <1>1, <1>9, TimesGrows
    <3>2. 0 * ChunkSize = 0
      BY <1>1
    <3> QED BY <1>1, <1>9, <2>2, <3>1, <3>2
  <2> QED BY <1>6, <1>8, <1>12, <1>14, <2>1, <2>2, <2>3 DEF c
<1>15. CASE ~(rest > 0) /\ n # 0
  <2>1. n = full * ChunkSize
    BY <1>1, <1>9, <1>15
  <2>2. full >= 1
    <3>1. 0 * ChunkSize = 0
      BY <1>1
    <3>2. full # 0
      BY <1>15, <2>1, <3>1
    <3> QED BY <1>9, <3>2
  <2>3. c = full
    BY <1>1, <1>9, <2>1, <2>2, CountBounds DEF c
  <2> QED BY <1>1, <1>6, <1>8, <1>9, <1>12, <1>15, <2>1, <2>3 DEF c
<1> QED BY <1>13, <1>14, <1>15
----------------------------------------------------------------------------
(* What the steps of the upload leave alone *)

\* Rechunk does nothing.
SourceKept ==
    /\ up'.at = up.at /\ up'.input = up.input /\ up'.chunk = up.chunk
    /\ up'.pending = up.pending /\ up'.ended = up.ended

\* Nothing is yielded or sealed.
YieldsKept == up'.yields = up.yields /\ up'.counter = up.counter

\* Nothing is pushed.
PartKept == up'.out = up.out /\ up'.buffer = up.buffer

LEMMA ReservedKeeps ==
    ASSUME UpTyped, Reserved
    PROVE  /\ up.pc = "init" /\ up'.pc = "send" /\ SourceKept
           /\ up'.yields = up.yields /\ up'.counter = 1
           /\ up'.out = Header \o Metadata /\ up'.buffer = up.buffer
<1> DEFINE out == Header \o Metadata
           v == [up EXCEPT !.pc = "send", !.out = out]
<1>1. up.pc = "init" /\ up' = [v EXCEPT !.counter = 1]
  BY DEF Reserved
<1> HIDE DEF out
<1>2. /\ v.pc = "send" /\ v.out = out /\ v.buffer = up.buffer /\ v.yields = up.yields
      /\ v.at = up.at /\ v.input = up.input /\ v.chunk = up.chunk
      /\ v.pending = up.pending /\ v.ended = up.ended
  BY DEF UpTyped, Upload
<1>3. DOMAIN v = DOMAIN up /\ "counter" \in DOMAIN up
  BY DEF UpTyped, Upload
<1> HIDE DEF v
<1>4. /\ up'.pc = v.pc /\ up'.out = v.out /\ up'.buffer = v.buffer /\ up'.yields = v.yields
      /\ up'.at = v.at /\ up'.input = v.input /\ up'.chunk = v.chunk
      /\ up'.pending = v.pending /\ up'.ended = v.ended
      /\ up'.counter = 1
  BY <1>1, <1>3 DEF UpTyped, Upload
<1> QED BY <1>1, <1>2, <1>4 DEF SourceKept, out

LEMMA PushesKeeps ==
    ASSUME UpTyped, Pushes
    PROVE  /\ up.pc = "send" /\ up'.pc \in {"send", "part"} /\ SourceKept /\ YieldsKept
           /\ \E take \in 0..Len(up.out) :
                /\ up'.buffer = up.buffer \o SubSeq(up.out, 1, take)
                /\ up'.out = SubSeq(up.out, take + 1, Len(up.out))
<1> DEFINE take == Least(PartSize - Len(up.buffer), Len(up.out))
           part == up.buffer \o SubSeq(up.out, 1, take)
           rest == SubSeq(up.out, take + 1, Len(up.out))
           pc == IF Len(part) = PartSize THEN "part" ELSE up.pc
           v == [up EXCEPT !.buffer = part, !.out = rest]
<1>1. up.pc = "send" /\ up' = [v EXCEPT !.pc = pc]
  BY DEF Pushes, Up
<1>2. take \in 0..Len(up.out)
  <2>1. /\ Len(up.out) \in Int /\ Len(up.out) >= 0
        /\ PartSize - Len(up.buffer) \in Int /\ PartSize - Len(up.buffer) >= 0
    <3>1. Len(up.out) \in Nat /\ Len(up.buffer) \in Nat /\ PartSize \in Nat
      BY UploadFields
    <3>2. Len(up.buffer) <= PartSize
      BY DEF UpTyped
    <3> QED BY <3>1, <3>2
  <2>2. take \in Nat /\ take <= Len(up.out)
    BY <2>1, LeastIs
  <2> HIDE DEF take
  <2> QED BY <2>1, <2>2
<1>3. pc \in {"send", "part"}
  BY <1>1
<1> HIDE DEF part, rest, pc
<1>4. /\ v.out = rest /\ v.buffer = part /\ v.yields = up.yields /\ v.counter = up.counter
      /\ v.at = up.at /\ v.input = up.input /\ v.chunk = up.chunk
      /\ v.pending = up.pending /\ v.ended = up.ended /\ DOMAIN v = DOMAIN up
  BY DEF UpTyped, Upload
<1>5. "pc" \in DOMAIN up
  BY DEF UpTyped, Upload
<1> HIDE DEF v
<1>6. /\ up'.pc = pc /\ up'.out = v.out /\ up'.buffer = v.buffer /\ up'.yields = v.yields
      /\ up'.at = v.at /\ up'.input = v.input /\ up'.chunk = v.chunk
      /\ up'.pending = v.pending /\ up'.ended = v.ended /\ up'.counter = v.counter
  BY <1>1, <1>4, <1>5 DEF UpTyped, Upload
<1> QED BY <1>1, <1>2, <1>3, <1>4, <1>6 DEF SourceKept, YieldsKept, part, rest

LEMMA SealsKeeps ==
    ASSUME UpTyped, Seals, up'.pc # "revoke"
    PROVE  /\ up.pc = "send" /\ up'.pc = "send" /\ SourceKept
           /\ up.out = <<>> /\ up.yields # <<>> /\ up'.buffer = up.buffer
           /\ up'.out = Seal(up.counter, up.yields[1].final, up.yields[1].bytes)
           /\ up'.counter = up.counter + 1 /\ up'.yields = Tail(up.yields)
<1> DEFINE out == Seal(up.counter, up.yields[1].final, up.yields[1].bytes)
           n == up.counter + 1
           rest == Tail(up.yields)
           v == [up EXCEPT !.out = out, !.counter = n]
<1>1. up.pc = "send" /\ up.out = <<>> /\ up.yields # <<>>
  BY DEF Seals
<1>2. up' = [v EXCEPT !.yields = rest]
  <2>1. up' # Throws(up, "cancelled")
    BY ThrowsFields
  <2>2. up' = [up EXCEPT !.out = out, !.counter = @ + 1, !.yields = Tail(@)]
    BY <2>1 DEF Seals, Up
  <2> QED BY <2>2
<1> HIDE DEF out, n, rest
<1>3. /\ v.pc = up.pc /\ v.out = out /\ v.buffer = up.buffer /\ v.counter = n
      /\ v.at = up.at /\ v.input = up.input /\ v.chunk = up.chunk
      /\ v.pending = up.pending /\ v.ended = up.ended /\ DOMAIN v = DOMAIN up
  BY DEF UpTyped, Upload
<1>4. "yields" \in DOMAIN up
  BY DEF UpTyped, Upload
<1> HIDE DEF v
<1>5. /\ up'.pc = v.pc /\ up'.out = v.out /\ up'.buffer = v.buffer /\ up'.yields = rest
      /\ up'.at = v.at /\ up'.input = v.input /\ up'.chunk = v.chunk
      /\ up'.pending = v.pending /\ up'.ended = v.ended /\ up'.counter = v.counter
  BY <1>2, <1>3, <1>4 DEF UpTyped, Upload
<1> QED BY <1>1, <1>3, <1>5 DEF SourceKept, out, n, rest

LEMMA ReadsKeeps ==
    ASSUME UpTyped, Reads
    PROVE  /\ Sending /\ up'.pc = "send" /\ YieldsKept /\ PartKept
           /\ up.input = <<>> /\ up.at < up.size
           /\ up'.chunk = up.chunk /\ up'.pending = up.pending /\ up'.ended = up.ended
           /\ \E k \in 1..up.size - up.at :
                /\ up'.input = SubSeq(File, up.at + 1, up.at + k)
                /\ up'.at = up.at + k
<1>1. PICK k \in 1..up.size - up.at :
        up' = [up EXCEPT !.input = SubSeq(File, up.at + 1, up.at + k), !.at = @ + k]
  BY DEF Reads, Up
<1>2. Sending /\ up.pc = "send" /\ up.input = <<>> /\ up.at < up.size
  BY DEF Reads, Sending
<1> DEFINE input == SubSeq(File, up.at + 1, up.at + k)
           at == up.at + k
<1>3. up' = [up EXCEPT !.input = input, !.at = at]
  BY <1>1
<1> HIDE DEF input, at
<1>4. /\ up'.input = input /\ up'.at = at /\ up'.pc = up.pc /\ up'.yields = up.yields
      /\ up'.counter = up.counter /\ up'.out = up.out /\ up'.buffer = up.buffer
      /\ up'.chunk = up.chunk /\ up'.pending = up.pending /\ up'.ended = up.ended
  BY <1>3 DEF UpTyped, Upload
<1> QED BY <1>2, <1>4 DEF YieldsKept, PartKept, input, at

LEMMA FillsKeeps ==
    ASSUME UpTyped, Fills
    PROVE  /\ Sending /\ up'.pc = "send" /\ PartKept /\ up'.counter = up.counter
           /\ up.input # <<>> /\ up'.at = up.at /\ up'.ended = up.ended
           /\ \E take :
                LET chunk == up.chunk \o SubSeq(up.input, 1, take)
                IN  /\ take = Least(ChunkSize - Len(up.chunk), Len(up.input))
                    /\ up'.input = SubSeq(up.input, take + 1, Len(up.input))
                    /\ \/ /\ Len(chunk) < ChunkSize
                          /\ up'.chunk = chunk /\ up'.yields = up.yields
                          /\ up'.pending = up.pending
                       \/ /\ ~(Len(chunk) < ChunkSize)
                          /\ up'.chunk = <<>> /\ up'.yields = HeldBack(FALSE)
                          /\ up'.pending = <<chunk>>
<1> DEFINE take == Least(ChunkSize - Len(up.chunk), Len(up.input))
           chunk == up.chunk \o SubSeq(up.input, 1, take)
           rest == SubSeq(up.input, take + 1, Len(up.input))
           none == <<>>
           yields == HeldBack(FALSE)
           pending == <<chunk>>
<1>1. Sending /\ up.pc = "send" /\ up.input # <<>>
  BY DEF Fills, Sending
<1>2. up' = IF Len(chunk) < ChunkSize
            THEN [up EXCEPT !.chunk = chunk, !.input = rest]
            ELSE [up EXCEPT !.chunk = none, !.input = rest,
                            !.yields = yields, !.pending = pending]
  BY DEF Fills, Up
<1> SUFFICES /\ Sending /\ up'.pc = "send" /\ PartKept /\ up'.counter = up.counter
             /\ up.input # <<>> /\ up'.at = up.at /\ up'.ended = up.ended
             /\ up'.input = rest
             /\ \/ /\ Len(chunk) < ChunkSize
                   /\ up'.chunk = chunk /\ up'.yields = up.yields /\ up'.pending = up.pending
                \/ /\ ~(Len(chunk) < ChunkSize)
                   /\ up'.chunk = none /\ up'.yields = yields /\ up'.pending = pending
  OBVIOUS
<1> HIDE DEF chunk, rest, none, yields, pending
<1>3. CASE Len(chunk) < ChunkSize
  <2>1. /\ up'.pc = up.pc /\ up'.out = up.out /\ up'.buffer = up.buffer
        /\ up'.counter = up.counter /\ up'.at = up.at /\ up'.ended = up.ended
        /\ up'.input = rest /\ up'.chunk = chunk /\ up'.yields = up.yields
        /\ up'.pending = up.pending
    BY <1>2, <1>3 DEF UpTyped, Upload
  <2> QED BY <1>1, <1>3, <2>1 DEF PartKept
<1>4. CASE ~(Len(chunk) < ChunkSize)
  <2> DEFINE v == [up EXCEPT !.chunk = none, !.input = rest]
  <2>1. up' = [v EXCEPT !.yields = yields, !.pending = pending]
    BY <1>2, <1>4
  <2>2. /\ v.pc = up.pc /\ v.out = up.out /\ v.buffer = up.buffer
        /\ v.counter = up.counter /\ v.at = up.at /\ v.ended = up.ended
        /\ v.input = rest /\ v.chunk = none /\ DOMAIN v = DOMAIN up
    BY DEF UpTyped, Upload
  <2>3. "yields" \in DOMAIN up /\ "pending" \in DOMAIN up
    BY DEF UpTyped, Upload
  <2> HIDE DEF v
  <2>4. /\ up'.pc = v.pc /\ up'.out = v.out /\ up'.buffer = v.buffer
        /\ up'.counter = v.counter /\ up'.at = v.at /\ up'.ended = v.ended
        /\ up'.input = v.input /\ up'.chunk = v.chunk
        /\ up'.yields = yields /\ up'.pending = pending
    BY <2>1, <2>2, <2>3
  <2> QED BY <1>1, <1>4, <2>2, <2>4 DEF PartKept
<1> QED BY <1>3, <1>4

LEMMA SourceEndsKeeps ==
    ASSUME UpTyped, SourceEnds
    PROVE  /\ Sending /\ up'.pc = "send" /\ PartKept /\ up'.counter = up.counter
           /\ up.input = <<>> /\ up.at = up.size /\ up.ended = FALSE
           /\ up'.at = up.at /\ up'.input = up.input
           /\ up'.ended = TRUE /\ up'.yields = LastYields
<1> DEFINE none == <<>>
           yields == LastYields
           v == [up EXCEPT !.ended = TRUE, !.yields = yields]
<1>1. Sending /\ up.pc = "send" /\ up.input = <<>> /\ up.at = up.size /\ up.ended = FALSE
  BY UpFieldTypes DEF SourceEnds, Sending
<1>2. up' = [v EXCEPT !.chunk = none, !.pending = none]
  BY DEF SourceEnds, Up
<1> HIDE DEF none, yields
<1>3. /\ v.pc = up.pc /\ v.out = up.out /\ v.buffer = up.buffer
      /\ v.counter = up.counter /\ v.at = up.at /\ v.input = up.input
      /\ v.ended = TRUE /\ v.yields = yields
  BY DEF UpTyped, Upload
<1> HIDE DEF v
<1>4. /\ up'.pc = v.pc /\ up'.out = v.out /\ up'.buffer = v.buffer
      /\ up'.counter = v.counter /\ up'.at = v.at /\ up'.input = v.input
      /\ up'.ended = v.ended /\ up'.yields = v.yields
  BY <1>2
<1> QED BY <1>1, <1>3, <1>4 DEF PartKept, yields
----------------------------------------------------------------------------
(* Rechunking *)

\* Chunks sealed, handed to the sealer, and cut in all.
Done == up.counter - 1

\* Chunks yielded so far.
Given == Done + Len(up.yields)

\* Full chunks read so far.
Held == Given + Len(up.pending)

\* The sender before it has a slot.
FreshInv ==
    up.pc = "init" =>
        /\ up.at = 0 /\ up.input = <<>> /\ up.chunk = <<>> /\ up.pending = <<>>
        /\ up.ended = FALSE /\ up.yields = <<>> /\ up.counter = 0
        /\ up.out = <<>> /\ up.buffer = <<>>

\* What the source has handed over is, in order, the chunks sealed, the chunks
\* about to be, the one held back, the one being filled and the rest of the last
\* piece read; the last of all is marked as such, and no other.
RechunkInv ==
    Uploading =>
        /\ up.counter >= 1
        /\ Given <= Count(up.size)
        /\ \A j \in 1..Len(up.yields) :
             up.yields[j] = Yield(Piece(up.size, Done + j), Done + j = Count(up.size))
        /\ up.ended => Given = Count(up.size) /\ up.input = <<>> /\ up.at = up.size
        /\ ~up.ended =>
             /\ Held * ChunkSize + Len(up.chunk) + Len(up.input) = up.at
             /\ \A k \in 1..Len(up.chunk) : up.chunk[k] = Held * ChunkSize + k
             /\ \A k \in 1..Len(up.input) : up.input[k] = up.at - Len(up.input) + k
             /\ up.pending = <<>> => Held = 0
             /\ up.pending # <<>> => up.pending[1] = Piece(up.size, Held)

LEMMA FlushesKeeps ==
    ASSUME UpTyped, Flushes
    PROVE  /\ Sending /\ up.ended = TRUE /\ up'.pc \in {"commit", "part"}
           /\ SourceKept /\ YieldsKept /\ PartKept
<1>1. up' = [up EXCEPT !.pc = IF up.buffer = <<>> THEN "commit" ELSE "part"]
  BY DEF Flushes, Up
<1>2. Sending /\ up.ended = TRUE
  BY UpFieldTypes DEF Flushes
<1>3. up'.pc \in {"commit", "part"}
  BY <1>1 DEF UpTyped, Upload
<1>4. SourceKept
  BY <1>1 DEF UpTyped, Upload, SourceKept
<1>5. YieldsKept /\ PartKept
  BY <1>1 DEF UpTyped, Upload, YieldsKept, PartKept
<1> QED BY <1>2, <1>3, <1>4, <1>5

\* Every other step leaves the cutting alone, or ends the upload.
LEMMA StepKeeps ==
    ASSUME UpTyped, RestTyped, [Next]_vars, up'.pc \in {"init", "send", "part"}
    PROVE  \/ Reserved \/ Pushes \/ Seals \/ Reads \/ Fills \/ SourceEnds \/ Flushes
           \/ /\ SourceKept /\ YieldsKept /\ up'.size = up.size
              /\ Uploading \/ (up.pc = "init" /\ PartKept)
              /\ up'.pc = "init" => up.pc = "init"
              /\ up.pc = "init" => up'.pc = "init"
<1> DEFINE Goal == /\ SourceKept /\ YieldsKept /\ up'.size = up.size
                   /\ Uploading \/ (up.pc = "init" /\ PartKept)
                   /\ up'.pc = "init" => up.pc = "init"
                   /\ up.pc = "init" => up'.pc = "init"
<1>1. ASSUME NEW s, up' = [up EXCEPT !.fetch = s] PROVE Goal
  <2>1. SourceKept
    BY <1>1 DEF UpTyped, Upload, SourceKept
  <2>2. YieldsKept /\ PartKept /\ up'.size = up.size /\ up'.pc = up.pc
    BY <1>1 DEF UpTyped, Upload, YieldsKept, PartKept
  <2> QED BY <2>1, <2>2 DEF Uploading
<1>2. ASSUME up' = up PROVE Goal
  BY <1>2 DEF SourceKept, YieldsKept, PartKept, Uploading
<1>3. CASE Local
  <2>1. NotReserved => up'.pc = "failed"
    <3>1. NotReserved => up' = [up EXCEPT !.pc = "failed", !.why = "init"]
      BY DEF NotReserved
    <3> QED BY <3>1 DEF UpTyped, Upload
  <2>2. SourceFails => up'.pc = "revoke"
    BY ThrowsFields DEF SourceFails
  <2>3. SenderDeletes => up'.pc = "deleting"
    <3>1. SenderDeletes => up' = [up EXCEPT !.pc = "deleting"]
      BY DEF SenderDeletes, Up
    <3> QED BY <3>1 DEF UpTyped, Upload
  <2> QED BY <1>3, <2>1, <2>2, <2>3 DEF Local
<1>4. CASE Aside
  BY <1>2, <1>4 DEF Aside
<1>5. CASE PartAnswered
  <2>1. CASE up' = [up EXCEPT !.pc = "send", !.index = @ + 1, !.buffer = <<>>, !.try = 0,
                              !.fetch = "none"]
    <3> DEFINE none == <<>>
               v == [up EXCEPT !.pc = "send", !.index = @ + 1]
               w == [v EXCEPT !.buffer = none, !.try = 0]
    <3>1. up' = [w EXCEPT !.fetch = "none"]
      BY <2>1
    <3>2. /\ v.at = up.at /\ v.input = up.input /\ v.chunk = up.chunk
          /\ v.pending = up.pending /\ v.ended = up.ended
          /\ v.yields = up.yields /\ v.counter = up.counter /\ v.size = up.size
          /\ v.pc = "send"
      BY DEF UpTyped, Upload
    <3> HIDE DEF v, none
    <3>3. /\ w.at = v.at /\ w.input = v.input /\ w.chunk = v.chunk
          /\ w.pending = v.pending /\ w.ended = v.ended
          /\ w.yields = v.yields /\ w.counter = v.counter /\ w.size = v.size
          /\ w.pc = v.pc
      OBVIOUS
    <3> HIDE DEF w
    <3>4. /\ up'.at = w.at /\ up'.input = w.input /\ up'.chunk = w.chunk
          /\ up'.pending = w.pending /\ up'.ended = w.ended
          /\ up'.yields = w.yields /\ up'.counter = w.counter /\ up'.size = w.size
          /\ up'.pc = w.pc
      BY <3>1
    <3>5. up.pc = "part"
      BY <1>5 DEF PartAnswered
    <3> QED BY <3>2, <3>3, <3>4, <3>5 DEF SourceKept, YieldsKept, Uploading
  <2>2. CASE \E why : up' = Throws(up, why)
    BY <2>2, ThrowsFields
  <2>3. CASE up' = [up EXCEPT !.try = @ + 1, !.fetch = "none"]
    <3>1. SourceKept
      BY <2>3 DEF UpTyped, Upload, SourceKept
    <3>2. YieldsKept /\ up'.size = up.size /\ up'.pc = up.pc
      BY <2>3 DEF UpTyped, Upload, YieldsKept
    <3>3. up.pc = "part"
      BY <1>5 DEF PartAnswered
    <3> QED BY <3>1, <3>2, <3>3 DEF Uploading
  <2> QED BY <1>5, <2>1, <2>2, <2>3 DEF PartAnswered, Up, TriesAgain
<1>6. CASE CommitAnswered \/ RevokeAnswered
  <2>1. up'.pc \in {"stored", "revoke", "failed", "deleted"}
    <3>1. CASE CommitAnswered
      <4>1. up' = [up EXCEPT !.pc = "stored", !.fetch = "none"] \/ up' = Throws(up, "commit")
        BY <3>1 DEF CommitAnswered, GivesUp
      <4> QED BY <4>1, ThrowsFields DEF UpTyped, Upload
    <3>2. CASE RevokeAnswered
      <4>1. up' = [up EXCEPT !.pc = IF @ = "revoke" THEN "failed" ELSE "deleted", !.fetch = "none"]
        BY <3>2 DEF RevokeAnswered
      <4> QED BY <4>1 DEF UpTyped, Upload
    <3> QED BY <1>6, <3>1, <3>2
  <2> QED BY <2>1
<1>7. CASE PartStopped
  BY <1>7, ThrowsFields DEF PartStopped
<1>8. CASE Failed
  BY <1>1, <1>2, <1>8 DEF Failed, RequestFails, LateFails
<1>9. CASE \E op \in {"part", "commit", "revoke"} : Asks(op) /\ Asking(op)
  BY <1>1, <1>9 DEF Asks
<1>10. CASE \E r \in net : Answers(r)
  BY <1>1, <1>2, <1>10 DEF Answers
<1> QED BY <1>3, <1>4, <1>5, <1>6, <1>7, <1>8, <1>9, <1>10, StepsAre DEF Received

LEMMA FreshStep ==
    ASSUME UpTyped, RestTyped, FreshInv, [Next]_vars
    PROVE  FreshInv'
<1> SUFFICES ASSUME up'.pc = "init"
             PROVE  /\ up'.at = 0 /\ up'.input = <<>> /\ up'.chunk = <<>> /\ up'.pending = <<>>
                    /\ up'.ended = FALSE /\ up'.yields = <<>> /\ up'.counter = 0
                    /\ up'.out = <<>> /\ up'.buffer = <<>>
  BY DEF FreshInv
<1>1. ~(Reserved \/ Pushes \/ Seals \/ Reads \/ Fills \/ SourceEnds \/ Flushes)
  BY ReservedKeeps, PushesKeeps, SealsKeeps, ReadsKeeps, FillsKeeps, SourceEndsKeeps,
     FlushesKeeps
<1>2. SourceKept /\ YieldsKept /\ up.pc = "init" /\ PartKept
  BY <1>1, StepKeeps DEF Uploading
<1> QED BY <1>2 DEF FreshInv, SourceKept, YieldsKept, PartKept

\* The counters are numbers, and in order.
LEMMA RechunkNumbers ==
    ASSUME UpTyped, RechunkInv, Uploading
    PROVE  /\ Done \in Nat /\ Given \in Nat /\ Held \in Nat
           /\ Done <= Given /\ Given <= Held
           /\ Held * ChunkSize \in Nat
           /\ Count(up.size) \in Nat /\ Count(up.size) >= 1
           /\ Len(up.pending) \in 0..1 /\ (up.pending = <<>> <=> Len(up.pending) = 0)
           /\ (up.yields = <<>> <=> Len(up.yields) = 0)
           /\ (up.input = <<>> <=> Len(up.input) = 0)
           /\ (up.chunk = <<>> <=> Len(up.chunk) = 0)
<1>1. /\ up.counter \in Nat /\ up.counter >= 1 /\ Len(up.yields) \in Nat
      /\ Len(up.pending) \in Nat /\ Len(up.pending) <= 1 /\ up.size \in Nat
      /\ ChunkSize \in Nat /\ ChunkSize > 0
  BY UploadFields DEF RechunkInv, UpTyped
<1>2. /\ Done \in Nat /\ Given \in Nat /\ Held \in Nat /\ Done <= Given /\ Given <= Held
      /\ Len(up.pending) \in 0..1
  <2>1. Done \in Nat
    BY <1>1 DEF Done
  <2>2. Given \in Nat /\ Done <= Given
    BY <1>1, <2>1 DEF Given
  <2>3. Held \in Nat /\ Given <= Held
    BY <1>1, <2>2 DEF Held
  <2>4. Len(up.pending) \in 0..1
    <3>1. \A x \in Nat : x <= 1 => x \in 0..1
      OBVIOUS
    <3> QED BY <1>1, <3>1, Zenon
  <2> QED BY <2>1, <2>2, <2>3, <2>4
<1>3. Held * ChunkSize \in Nat
  BY <1>1, <1>2, TimesGrows
<1>4. \A S : \A s \in Seq(S) : s = <<>> <=> Len(s) = 0
  BY EmptySeq
<1>5. /\ up.pending \in Seq(Bytes) /\ up.yields \in Seq([bytes : Bytes, final : BOOLEAN])
      /\ up.input \in Bytes /\ up.chunk \in Bytes
  BY UploadFields
<1> QED BY <1>1, <1>2, <1>3, <1>4, <1>5, CountIs DEF Bytes

LEMMA RechunkReserved ==
    ASSUME UpTyped, FreshInv, Reserved, up'.size = up.size
    PROVE  RechunkInv'
<1>1. /\ up'.at = 0 /\ up'.input = <<>> /\ up'.chunk = <<>> /\ up'.pending = <<>>
      /\ up'.ended = FALSE /\ up'.yields = <<>> /\ up'.counter = 1
  BY ReservedKeeps DEF FreshInv, SourceKept
<1>2. Len(<<>>) = 0
  BY EmptySeq
<1>3. Done' = 0 /\ Given' = 0 /\ Held' = 0
  BY <1>1, <1>2 DEF Done, Given, Held
<1>4. Count(up'.size) \in Nat /\ Count(up'.size) >= 1 /\ 0 * ChunkSize = 0
  <2>1. up'.size \in Nat /\ ChunkSize \in Nat
    BY UploadFields
  <2> QED BY <2>1, CountIs
<1> QED BY <1>1, <1>2, <1>3, <1>4 DEF RechunkInv

LEMMA RechunkSeals ==
    ASSUME UpTyped, RechunkInv, Seals, up'.pc # "revoke", up'.size = up.size
    PROVE  RechunkInv'
<1>1. /\ up.pc = "send" /\ up.yields # <<>> /\ up'.counter = up.counter + 1
      /\ up'.yields = Tail(up.yields) /\ SourceKept
  BY SealsKeeps
<1>2. Uploading
  BY <1>1 DEF Uploading
<1>3. /\ Len(up'.yields) = Len(up.yields) - 1
      /\ \A j \in 1..Len(up'.yields) : up'.yields[j] = up.yields[j + 1]
      /\ Len(up.yields) \in Nat /\ up.counter \in Nat /\ Len(up.pending) \in Nat
  BY <1>1, UploadFields, HeadTailProperties
<1>4. Done' = Done + 1 /\ Given' = Given /\ Held' = Held
  <2>1. Done' = Done + 1
    BY <1>1, <1>3 DEF Done
  <2>2. Given' = Given
    <3>1. Done \in Nat
      BY <1>2, RechunkNumbers
    <3>2. Given = Done + Len(up.yields) /\ Given' = Done' + Len(up'.yields)
      BY DEF Given
    <3>3. \A d, l \in Nat : (d + 1) + (l - 1) = d + l
      OBVIOUS
    <3> QED BY <1>3, <2>1, <3>1, <3>2, <3>3, Zenon
  <2> QED BY <1>1, <2>1, <2>2 DEF Held, SourceKept
<1>5. ASSUME NEW j \in 1..Len(up'.yields)
      PROVE  up'.yields[j] = Yield(Piece(up'.size, Done' + j), Done' + j = Count(up'.size))
  <2>0. Done \in Nat /\ j \in Nat /\ j >= 1 /\ j <= Len(up.yields) - 1
    <3>1. j \in 1..(Len(up.yields) - 1)
      BY <1>3
    <3> QED BY <1>2, <1>3, <3>1, RechunkNumbers
  <2>1. j + 1 \in 1..Len(up.yields) /\ Done + (j + 1) = Done' + j
    BY <1>3, <1>4, <2>0
  <2>2. up.yields[j + 1] = Yield(Piece(up.size, Done + (j + 1)), Done + (j + 1) = Count(up.size))
    BY <1>2, <2>1 DEF RechunkInv
  <2> QED BY <1>3, <2>1, <2>2
<1>6. up'.counter >= 1
  BY <1>1, <1>3
<1> QED BY <1>1, <1>2, <1>4, <1>5, <1>6 DEF RechunkInv, SourceKept

LEMMA RechunkReads ==
    ASSUME UpTyped, RechunkInv, Reads, up'.size = up.size
    PROVE  RechunkInv'
<1>1. PICK k \in 1..up.size - up.at :
        up'.input = SubSeq(File, up.at + 1, up.at + k) /\ up'.at = up.at + k
  BY ReadsKeeps
<1>2. /\ up.pc = "send" /\ YieldsKept /\ up'.chunk = up.chunk /\ up'.pending = up.pending
      /\ up'.ended = up.ended /\ up.input = <<>> /\ up.at < up.size
  BY ReadsKeeps DEF Sending
<1>3. Uploading
  BY <1>2 DEF Uploading
<1>4. /\ up.size \in Sizes /\ up.size \in Nat /\ up.at \in Nat /\ k \in Nat
      /\ up.at + k \in Nat /\ up.at + k <= up.size /\ Len(up.chunk) \in Nat
  <2>1. /\ up.size \in Sizes /\ up.size \in Nat /\ up.at \in Nat
        /\ Len(up.chunk) \in Nat
    BY UploadFields
  <2> QED BY <2>1
<1>5. ~up.ended
  <2>1. up.at # up.size
    BY <1>2, <1>4
  <2> QED BY <1>3, <2>1 DEF RechunkInv
<1>6. Len(up'.input) = k /\ \A i \in 1..k : up'.input[i] = up.at + i
  <2>1. File \in Bytes /\ Len(File) = up.size
    BY <1>4, FrontIsBytes DEF File
  <2>2. up.at + k \in Nat /\ up.at <= up.at + k /\ up.at + k <= Len(File) /\ (up.at + k) - up.at = k
    BY <1>4, <2>1
  <2>3. File \in Seq(Values) /\ up.at \in Nat
    BY <1>4, <2>1 DEF Bytes, Values
  <2>4. Len(up'.input) = k /\ \A i \in 1..k : up'.input[i] = File[up.at + i]
    <3>1. up'.input = SubSeq(File, up.at + 1, up.at + k)
      BY <1>1
    <3> DEFINE b == up.at + k
               part == SubSeq(File, up.at + 1, b)
    <3>2. /\ b \in Nat /\ up.at <= b /\ b <= Len(File) /\ b - up.at = k
          /\ File \in Seq(Values) /\ up.at \in Nat /\ up'.input = part
      BY <2>2, <2>3, <3>1
    <3> HIDE DEF Values, b
    <3>3. IsStretch(part, File, up.at, b)
      BY <3>2, StretchOf, Zenon
    <3> HIDE DEF part
    <3>4. Len(part) = b - up.at /\ \A i \in 1..b - up.at : part[i] = File[up.at + i]
      BY <3>3, StretchMeans
    <3>5. Len(part) = k /\ \A i \in 1..k : part[i] = File[up.at + i]
      BY <3>2, <3>4, Zenon
    <3> QED BY <3>2, <3>5, Zenon
  <2>5. \A i \in 1..k : File[up.at + i] = up.at + i
    BY <1>4 DEF File
  <2> QED BY <2>4, <2>5
<1>7. Done' = Done /\ Given' = Given /\ Held' = Held
  BY <1>2 DEF Done, Given, Held, YieldsKept
<1>8. Held * ChunkSize + Len(up.chunk) + 0 = up.at /\ Held * ChunkSize \in Nat
  <2>1. Len(up.input) = 0
    BY <1>2, <1>3, RechunkNumbers
  <2>2. Held * ChunkSize + Len(up.chunk) + Len(up.input) = up.at
    BY <1>3, <1>5 DEF RechunkInv
  <2> QED BY <1>3, <2>1, <2>2, RechunkNumbers
<1>9. Held' * ChunkSize + Len(up'.chunk) + Len(up'.input) = up'.at
  <2> DEFINE h == Held * ChunkSize
  <2>1. Held' * ChunkSize = h /\ Len(up'.chunk) = Len(up.chunk)
    BY <1>2, <1>7
  <2>2. h \in Nat /\ h + Len(up.chunk) + 0 = up.at
    BY <1>8
  <2> HIDE DEF h
  <2>3. \A a, b, c \in Nat : a + b + 0 = c => a + b + k = c + k
    OBVIOUS
  <2>4. h + Len(up.chunk) + k = up.at + k
    BY <1>4, <2>2, <2>3
  <2> QED BY <1>1, <1>6, <2>1, <2>4, Zenon
<1>10. \A i \in 1..Len(up'.input) : up'.input[i] = up'.at - Len(up'.input) + i
  <2>1. \A a \in Nat : \A i \in Nat : (a + k) - k + i = a + i
    OBVIOUS
  <2>2. up'.at = up.at + k /\ Len(up'.input) = k
    BY <1>1, <1>4, <1>6
  <2>3. TAKE i \in 1..Len(up'.input)
  <2>4. i \in 1..k /\ i \in Nat /\ up.at \in Nat
    BY <1>4, <2>2
  <2>5. up'.input[i] = up.at + i
    BY <1>6, <2>4
  <2>6. up.at + i = (up.at + k) - k + i
    BY <2>1, <2>4
  <2> QED BY <2>2, <2>5, <2>6, Zenon
<1> QED BY <1>2, <1>3, <1>5, <1>7, <1>9, <1>10 DEF RechunkInv, YieldsKept

\* The piece that Fills takes, and what it leaves.
LEMMA FillsTakes ==
    ASSUME UpTyped, Fills,
           NEW take, take = Least(ChunkSize - Len(up.chunk), Len(up.input))
    PROVE  LET front == SubSeq(up.input, 1, take)
               rest == SubSeq(up.input, take + 1, Len(up.input))
               chunk == up.chunk \o front
           IN  /\ take \in Nat /\ take >= 1 /\ take <= Len(up.input)
               /\ Len(up.chunk) + take <= ChunkSize
               /\ chunk \in Bytes /\ Len(chunk) = Len(up.chunk) + take
               /\ \A k \in 1..Len(up.chunk) : chunk[k] = up.chunk[k]
               /\ \A k \in 1..take : chunk[Len(up.chunk) + k] = up.input[k]
               /\ rest \in Bytes /\ Len(rest) = Len(up.input) - take
               /\ \A k \in 1..Len(rest) : rest[k] = up.input[take + k]
<1> DEFINE S == UNION {0..n : n \in Sizes}
           front == SubSeq(up.input, 1, take)
           rest == SubSeq(up.input, take + 1, Len(up.input))
           chunk == up.chunk \o front
           c == Len(up.chunk)
           l == Len(up.input)
<1>1. /\ up.input \in Seq(S) /\ up.chunk \in Seq(S) /\ ChunkSize \in Nat
      /\ l \in Nat /\ c \in Nat /\ c < ChunkSize /\ l # 0
  <2>1. up.input # <<>> /\ up.input \in Seq(S)
    BY UploadFields DEF Fills, Bytes
  <2>2. l # 0
    BY <2>1, EmptySeq
  <2> QED BY <2>1, <2>2, UploadFields DEF UpTyped, Bytes
<1> HIDE DEF S, c, l
<1>2. take \in Nat /\ take >= 1 /\ take <= l /\ c + take <= ChunkSize
  <2>1. take = Least(ChunkSize - c, l)
    BY DEF c, l
  <2>2. take = IF ChunkSize - c < l THEN ChunkSize - c ELSE l
    BY <2>1 DEF Least
  <2> QED BY <1>1, <2>2
<1>3. front \in Seq(S) /\ Len(front) = take /\ \A k \in 1..take : front[k] = up.input[k]
  <2>1. 0 \in Nat /\ 0 <= take /\ take - 0 = take /\ take <= Len(up.input)
    BY <1>2 DEF l
  <2>2. \A k \in 1..take : 0 + k = k
    OBVIOUS
  <2>3. front = SubSeq(up.input, 0 + 1, take)
    OBVIOUS
  <2> HIDE DEF front
  <2>4. /\ up.input \in Seq(S) /\ 0 \in Nat /\ take \in Nat
        /\ 0 <= take /\ take <= Len(up.input)
    BY <1>1, <1>2, <2>1
  <2>5. SubSeq(up.input, 0 + 1, take) \in Seq(S)
    BY <2>4, StretchOf, Zenon
  <2>6. IsStretch(SubSeq(up.input, 0 + 1, take), up.input, 0, take)
    BY <2>4, StretchOf, Zenon
  <2>7. Len(front) = take /\ \A k \in 1..take : front[k] = up.input[0 + k]
    BY <2>1, <2>3, <2>6, Zenon DEF IsStretch
  <2> QED BY <2>2, <2>3, <2>5, <2>7
<1>4. /\ rest \in Seq(S) /\ Len(rest) = l - take
      /\ \A k \in 1..Len(rest) : rest[k] = up.input[take + k]
  <2>1. l <= Len(up.input) /\ rest = SubSeq(up.input, take + 1, l)
    BY <1>1 DEF l
  <2> HIDE DEF rest
  <2>2. /\ up.input \in Seq(S) /\ take \in Nat /\ l \in Nat
        /\ take <= l /\ l <= Len(up.input)
    BY <1>1, <1>2, <2>1
  <2>3. rest = SubSeq(up.input, take + 1, l)
    BY <2>1
  <2>4. SubSeq(up.input, take + 1, l) \in Seq(S)
    BY <2>2, StretchOf, Zenon
  <2>5. IsStretch(SubSeq(up.input, take + 1, l), up.input, take, l)
    BY <2>2, StretchOf, Zenon
  <2> QED BY <2>3, <2>4, <2>5, Zenon DEF IsStretch
<1> HIDE DEF front, rest
<1>5. /\ chunk \in Seq(S) /\ Len(chunk) = c + take
      /\ \A k \in 1..c : chunk[k] = up.chunk[k]
  <2>1. /\ chunk \in Seq(S) /\ Len(chunk) = Len(up.chunk) + Len(front)
        /\ \A k \in 1..Len(up.chunk) : chunk[k] = up.chunk[k]
    <3>1. up.chunk \in Seq(S) /\ front \in Seq(S)
      BY <1>1, <1>3
    <3>2. up.chunk \o front \in Seq(S) /\ IsJoin(up.chunk \o front, up.chunk, front)
      BY <3>1, JoinOf
    <3> QED BY <3>2 DEF IsJoin
  <2> QED BY <1>3, <2>1 DEF c
<1>6. \A k \in 1..take : chunk[c + k] = up.input[k]
  <2>1. \A k \in 1..Len(front) : chunk[Len(up.chunk) + k] = front[k]
    BY <1>1, <1>3, JoinIsASeq
  <2> QED BY <1>3, <2>1 DEF c
<1> HIDE DEF chunk
<1>7. chunk \in Bytes /\ rest \in Bytes
  BY <1>4, <1>5 DEF S, Bytes
<1>8. /\ take \in Nat /\ take >= 1 /\ take <= l
      /\ c + take <= ChunkSize
      /\ chunk \in Bytes /\ Len(chunk) = c + take
      /\ \A k \in 1..c : chunk[k] = up.chunk[k]
      /\ \A k \in 1..take : chunk[c + k] = up.input[k]
      /\ rest \in Bytes /\ Len(rest) = l - take
      /\ \A k \in 1..Len(rest) : rest[k] = up.input[take + k]
  BY <1>2, <1>4, <1>5, <1>6, <1>7
<1> QED BY <1>8 DEF c, l, chunk, front, rest

LEMMA RechunkFills ==
    ASSUME UpTyped, RechunkInv, Fills, up'.size = up.size
    PROVE  RechunkInv'
<1> DEFINE n == up.size
           c == Len(up.chunk)
           l == Len(up.input)
           base == Held * ChunkSize
           front(take) == up.chunk \o SubSeq(up.input, 1, take)
           rest(take) == SubSeq(up.input, take + 1, Len(up.input))
<1>1. /\ up.pc = "send" /\ up'.pc = "send" /\ up.yields = <<>> /\ up.input # <<>>
      /\ up'.counter = up.counter /\ up'.at = up.at /\ up'.ended = up.ended
  BY FillsKeeps DEF Sending
<1>2. Uploading
  BY <1>1 DEF Uploading
<1>3. PICK take :
        LET chunk == front(take)
        IN  /\ take = Least(ChunkSize - Len(up.chunk), Len(up.input))
            /\ up'.input = rest(take)
            /\ \/ /\ Len(chunk) < ChunkSize
                  /\ up'.chunk = chunk /\ up'.yields = up.yields
                  /\ up'.pending = up.pending
               \/ /\ ~(Len(chunk) < ChunkSize)
                  /\ up'.chunk = <<>> /\ up'.yields = HeldBack(FALSE)
                  /\ up'.pending = <<chunk>>
  BY FillsKeeps
<1> DEFINE chunk == front(take)
           tail == rest(take)
<1>4. /\ take \in Nat /\ take >= 1 /\ take <= l
      /\ c + take <= ChunkSize
      /\ chunk \in Bytes /\ Len(chunk) = c + take
      /\ \A k \in 1..c : chunk[k] = up.chunk[k]
      /\ \A k \in 1..take : chunk[c + k] = up.input[k]
      /\ tail \in Bytes /\ Len(tail) = l - take
      /\ \A k \in 1..Len(tail) : tail[k] = up.input[take + k]
  BY <1>3, FillsTakes
<1>5. /\ up'.input = tail
      /\ \/ /\ Len(chunk) < ChunkSize
            /\ up'.chunk = chunk /\ up'.yields = up.yields /\ up'.pending = up.pending
         \/ /\ ~(Len(chunk) < ChunkSize)
            /\ up'.chunk = <<>> /\ up'.yields = HeldBack(FALSE) /\ up'.pending = <<chunk>>
  BY <1>3
<1> HIDE DEF chunk, tail
<1>6. ~up.ended
  BY <1>1, <1>2 DEF RechunkInv
<1>7. /\ base + c + l = up.at
      /\ \A k \in 1..c : up.chunk[k] = base + k
      /\ \A k \in 1..l : up.input[k] = up.at - l + k
      /\ up.pending = <<>> => Held = 0
      /\ up.pending # <<>> => up.pending[1] = Piece(n, Held)
  BY <1>2, <1>6 DEF RechunkInv
<1>8. /\ Done \in Nat /\ Given \in Nat /\ Held \in Nat /\ base \in Nat
      /\ Len(up.pending) \in 0..1 /\ (up.pending = <<>> <=> Len(up.pending) = 0)
      /\ Len(up.yields) = 0
  BY <1>1, <1>2, RechunkNumbers
<1>9. /\ c \in Nat /\ l \in Nat /\ up.at \in Nat /\ n \in Nat /\ n \in Sizes /\ up.at <= n
      /\ ChunkSize \in Nat /\ ChunkSize > 0
  BY UploadFields DEF UpTyped
<1> HIDE DEF n, c, l, base
<1>10. \A k \in 1..(c + take) : chunk[k] = base + k
  <2> SUFFICES ASSUME NEW k \in 1..(c + take) PROVE chunk[k] = base + k
    OBVIOUS
  <2>1. CASE k <= c
    <3>1. k \in 1..c
      BY <1>9, <2>1
    <3> QED BY <1>4, <1>7, <3>1
  <2>2. CASE k > c
    <3>1. PICK i \in 1..take : k = c + i
      <4>1. k - c \in 1..take /\ k = c + (k - c)
        BY <1>4, <1>9, <2>2
      <4> QED BY <4>1
    <3>2. i \in 1..l /\ i \in Nat
      BY <1>4, <1>9
    <3>3. chunk[k] = up.at - l + i
      BY <1>4, <1>7, <3>1, <3>2
    <3>4. up.at - l + i = base + k
      BY <1>7, <1>8, <1>9, <3>1, <3>2
    <3> QED BY <3>3, <3>4
  <2> QED BY <1>9, <2>1, <2>2
<1>11. \A k \in 1..Len(tail) : tail[k] = up.at - Len(tail) + k
  <2> SUFFICES ASSUME NEW k \in 1..Len(tail) PROVE tail[k] = up.at - Len(tail) + k
    OBVIOUS
  <2>1. k \in Nat /\ k >= 1 /\ k <= l - take
    BY <1>4, <1>9
  <2>2. take + k \in 1..l
    BY <1>4, <1>9, <2>1
  <2>3. tail[k] = up.at - l + (take + k)
    BY <1>4, <1>7, <2>2
  <2>4. up.at - l + (take + k) = up.at - (l - take) + k
    BY <1>4, <1>9, <2>1
  <2> QED BY <1>4, <2>3, <2>4
<1>12. CASE Len(chunk) < ChunkSize
  <2>1. up'.chunk = chunk /\ up'.yields = up.yields /\ up'.pending = up.pending
    BY <1>5, <1>12
  <2>2. Done' = Done /\ Given' = Given /\ Held' = Held
    BY <1>1, <2>1 DEF Done, Given, Held
  <2>3. base + Len(chunk) + Len(tail) = up.at
    BY <1>4, <1>7, <1>8, <1>9
  <2>4. /\ Held' * ChunkSize + Len(up'.chunk) + Len(up'.input) = up'.at
        /\ \A k \in 1..Len(up'.chunk) : up'.chunk[k] = Held' * ChunkSize + k
        /\ \A k \in 1..Len(up'.input) : up'.input[k] = up'.at - Len(up'.input) + k
    BY <1>1, <1>4, <1>5, <1>10, <1>11, <2>1, <2>2, <2>3 DEF base
  <2> QED BY <1>1, <1>2, <1>6, <2>1, <2>2, <2>4 DEF RechunkInv
<1>13. CASE ~(Len(chunk) < ChunkSize)
  <2>1. up'.chunk = <<>> /\ up'.yields = HeldBack(FALSE) /\ up'.pending = <<chunk>>
    BY <1>5, <1>13
  <2>2. c + take = ChunkSize
    BY <1>4, <1>9, <1>13
  <2>3. base + ChunkSize <= n /\ base < n
    BY <1>4, <1>7, <1>8, <1>9, <2>2
  <2>4. chunk = Piece(n, Held + 1)
    <3>1. Len(chunk) = Least(ChunkSize, n - base)
      BY <1>4, <1>8, <1>9, <2>2, <2>3 DEF Least
    <3>2. base <= n
      BY <1>8, <1>9, <2>3
    <3>3. \A k \in 1..Len(chunk) : chunk[k] = base + k
      BY <1>4, <1>10
    <3> QED BY <1>4, <1>8, <1>9, <3>1, <3>2, <3>3, PieceFrom DEF base
  <2>5. Held < Count(n) /\ Count(n) \in Nat
    <3>1. Held * ChunkSize < n
      BY <2>3 DEF base
    <3> QED BY <1>8, <1>9, <3>1, CountBounds, CountIs
  <2>6. Len(HeldBack(FALSE)) = Len(up.pending)
    BY HeldBackTyped
  <2>7. Len(up'.pending) = 1 /\ up'.pending[1] = chunk /\ up'.pending # <<>>
    BY <1>4, <2>1, OneIsASeq
  <2>8. Done' = Done /\ Given' = Held /\ Held' = Held + 1
    <3>1. Done' = Done
      BY <1>1 DEF Done
    <3>2. Given = Done + Len(up.yields) /\ Held = Given + Len(up.pending)
      BY DEF Given, Held
    <3>3. Given' = Done' + Len(up'.yields) /\ Held' = Given' + Len(up'.pending)
      BY DEF Given, Held
    <3>4. Given' = Done + Len(up.pending)
      BY <2>1, <2>6, <3>1, <3>3
    <3>5. Given' = Held
      BY <1>8, <3>2, <3>4
    <3> QED BY <2>7, <3>1, <3>3, <3>5
  <2>9. ASSUME NEW j \in 1..Len(up'.yields)
        PROVE  up'.yields[j] = Yield(Piece(up'.size, Done' + j), Done' + j = Count(up'.size))
    <3>1. j = 1 /\ Len(up.pending) = 1 /\ up.pending # <<>>
      <4>1. j \in 1..Len(up.pending)
        BY <2>1, <2>6
      <4>2. \A x \in 0..1 : \A y \in 1..x : y = 1 /\ x = 1
        OBVIOUS
      <4>3. j = 1 /\ Len(up.pending) = 1
        BY <1>8, <4>1, <4>2, Zenon
      <4> QED BY <1>8, <4>3
    <3>2. up'.yields[j] = Yield(up.pending[1], FALSE)
      BY <2>1, <3>1 DEF HeldBack
    <3>3. up.pending[1] = Piece(n, Held)
      BY <1>7, <3>1
    <3>4. Done + 1 = Held
      <4>1. Given = Done + Len(up.yields) /\ Held = Given + Len(up.pending)
        BY DEF Given, Held
      <4> QED BY <1>8, <3>1, <4>1
    <3>5. (Done + 1 = Count(n)) = FALSE
      BY <1>8, <2>5, <3>4
    <3>6. up'.yields[j] = Yield(Piece(n, Done + 1), Done + 1 = Count(n))
      BY <3>2, <3>3, <3>4, <3>5
    <3>7. Done' + j = Done + 1 /\ up'.size = n
      BY <2>8, <3>1 DEF n
    <3> QED BY <3>6, <3>7
  <2>10. Given' <= Count(up'.size) /\ up'.counter >= 1
    <3>1. up.counter >= 1
      BY <1>2 DEF RechunkInv
    <3>2. Held <= Count(n)
      BY <1>8, <2>5
    <3> QED BY <1>1, <2>8, <3>1, <3>2 DEF n
  <2>11. Held' * ChunkSize + Len(up'.chunk) + Len(up'.input) = up'.at
    <3>1. (Held + 1) * ChunkSize = base + ChunkSize
      BY <1>8, <1>9, TimesGrows DEF base
    <3>2. Len(up'.chunk) = 0
      BY <2>1, EmptySeq
    <3>3. base + ChunkSize + 0 + Len(tail) = up.at
      <4>1. Len(tail) = l - take /\ base + c + l = up.at
        BY <1>4, <1>7
      <4>2. \A x \in Nat : x + (c + take) + 0 + (l - take) = x + c + l
        BY <1>4, <1>9
      <4> QED BY <1>8, <2>2, <4>1, <4>2, Zenon
    <3> QED BY <1>1, <1>5, <2>8, <3>1, <3>2, <3>3
  <2>12. /\ \A k \in 1..Len(up'.chunk) : up'.chunk[k] = Held' * ChunkSize + k
         /\ \A k \in 1..Len(up'.input) : up'.input[k] = up'.at - Len(up'.input) + k
    <3>1. Len(up'.chunk) = 0
      BY <2>1, EmptySeq
    <3> QED BY <1>1, <1>5, <1>11, <3>1
  <2>13. up'.pending[1] = Piece(up'.size, Held')
    BY <2>4, <2>7, <2>8 DEF n
  <2> QED BY <1>1, <1>6, <2>7, <2>9, <2>10, <2>11, <2>12, <2>13 DEF RechunkInv
<1> QED BY <1>12, <1>13

LEMMA RechunkEnds ==
    ASSUME UpTyped, RechunkInv, SourceEnds, up'.size = up.size
    PROVE  RechunkInv'
<1> DEFINE n == up.size
           c == Len(up.chunk)
           base == Held * ChunkSize
<1>1. /\ up.pc = "send" /\ up'.pc = "send" /\ up.yields = <<>> /\ up.input = <<>>
      /\ up.at = n /\ up.ended = FALSE /\ up'.counter = up.counter /\ up'.at = up.at
      /\ up'.input = up.input /\ up'.ended = TRUE /\ up'.yields = LastYields
  BY SourceEndsKeeps DEF Sending
<1>2. Uploading
  BY <1>1 DEF Uploading
<1>3. /\ Done \in Nat /\ Given \in Nat /\ Held \in Nat /\ base \in Nat
      /\ Len(up.pending) \in 0..1 /\ (up.pending = <<>> <=> Len(up.pending) = 0)
      /\ Len(up.yields) = 0 /\ Len(up.input) = 0
      /\ (up.chunk = <<>> <=> c = 0)
  BY <1>1, <1>2, RechunkNumbers
<1>4. /\ c \in Nat /\ n \in Nat /\ n \in Sizes /\ up.chunk \in Bytes /\ c < ChunkSize
      /\ ChunkSize \in Nat /\ ChunkSize > 0
  BY UploadFields DEF UpTyped
<1>5. /\ base + c = n
      /\ \A k \in 1..c : up.chunk[k] = base + k
      /\ up.pending = <<>> => Held = 0
      /\ up.pending # <<>> => up.pending[1] = Piece(n, Held)
  <2>1. /\ base + c + Len(up.input) = up.at
        /\ \A k \in 1..c : up.chunk[k] = base + k
        /\ up.pending = <<>> => Held = 0
        /\ up.pending # <<>> => up.pending[1] = Piece(n, Held)
    BY <1>1, <1>2 DEF RechunkInv
  <2>2. base + c + 0 = n
    BY <1>1, <1>3, <2>1
  <2> HIDE DEF base, c, n
  <2> QED BY <1>3, <1>4, <2>1, <2>2
<1>6. /\ Given = Done /\ Held = Done + Len(up.pending)
  <2>1. Given = Done + Len(up.yields) /\ Held = Given + Len(up.pending)
    BY DEF Given, Held
  <2> QED BY <1>3, <2>1
<1>7. Done' = Done /\ Given' = Done + Len(up'.yields)
  BY <1>1 DEF Done, Given
<1>8. \A final \in BOOLEAN :
        /\ Len(HeldBack(final)) = Len(up.pending)
        /\ HeldBack(final) \in Seq([bytes : Bytes, final : BOOLEAN])
        /\ up.pending # <<>> => HeldBack(final)[1] = Yield(Piece(n, Held), final)
  <2> TAKE final \in BOOLEAN
  <2>1. /\ HeldBack(final) \in Seq([bytes : Bytes, final : BOOLEAN])
        /\ Len(HeldBack(final)) = Len(up.pending)
    BY HeldBackTyped
  <2>2. up.pending # <<>> => 1 \in 1..Len(up.pending)
    BY <1>3
  <2>3. up.pending # <<>> => HeldBack(final)[1] = Yield(up.pending[1], final)
    BY <2>2 DEF HeldBack
  <2> QED BY <1>5, <2>1, <2>3
<1>9. up.counter >= 1
  BY <1>2 DEF RechunkInv
<1> HIDE DEF n, c, base
<1>10. CASE up.chunk # <<>> \/ up.pending = <<>>
  <2> DEFINE y == Yield(up.chunk, TRUE)
             h == HeldBack(FALSE)
  <2>1. up'.yields = h \o <<y>>
    BY <1>1, <1>10 DEF LastYields
  <2>2. y \in [bytes : Bytes, final : BOOLEAN]
    BY <1>4 DEF Yield
  <2> HIDE DEF y
  <2>3. /\ <<y>> \in Seq([bytes : Bytes, final : BOOLEAN]) /\ Len(<<y>>) = 1 /\ <<y>>[1] = y
    BY <2>2, OneIsASeq
  <2>4. h \in Seq([bytes : Bytes, final : BOOLEAN]) /\ Len(h) = Len(up.pending)
        /\ (up.pending # <<>> => h[1] = Yield(Piece(n, Held), FALSE))
    BY <1>8
  <2> HIDE DEF h
  <2>5. /\ Len(up'.yields) = Len(h) + Len(<<y>>)
        /\ \A k \in 1..Len(h) : up'.yields[k] = h[k]
        /\ \A k \in 1..Len(<<y>>) : up'.yields[Len(h) + k] = <<y>>[k]
    BY <2>1, <2>3, <2>4, JoinIsASeq
  <2>6. Count(n) = Held + 1
    <3>1. CASE c > 0
      <4>1. base < n /\ n <= base + ChunkSize
        <5> HIDE DEF base
        <5> QED BY <1>3, <1>4, <1>5, <3>1 DEF c, n
      <4>2. Held * ChunkSize < n /\ n <= Held * ChunkSize + ChunkSize
        BY <4>1 DEF base
      <4> QED BY <1>3, <1>4, <4>2, CountBounds
    <3>2. CASE c = 0
      <4>1. Held = 0
        BY <1>3, <1>5, <1>10, <3>2
      <4>2. base = 0
        BY <1>4, <4>1 DEF base
      <4>3. n = 0
        BY <1>4, <1>5, <3>2, <4>2
      <4> QED BY <4>1, <4>3, CountIs
    <3> QED BY <1>4, <3>1, <3>2
  <2>7. up.chunk = Piece(n, Held + 1)
    <3>1. Len(up.chunk) = Least(ChunkSize, n - base) /\ base <= n
      BY <1>3, <1>4, <1>5 DEF Least, c
    <3>2. \A k \in 1..Len(up.chunk) : up.chunk[k] = base + k
      BY <1>5 DEF c
    <3> QED BY <1>3, <1>4, <3>1, <3>2, PieceFrom DEF base
  <2>8. Len(up'.yields) = Len(up.pending) + 1 /\ Given' = Count(n)
    <3>1. Len(up'.yields) = Len(up.pending) + 1
      BY <2>3, <2>4, <2>5
    <3>2. Given' = Done + (Len(up.pending) + 1)
      BY <1>7, <3>1
    <3>3. Count(n) = (Done + Len(up.pending)) + 1
      BY <1>6, <2>6
    <3>4. Done + (Len(up.pending) + 1) = (Done + Len(up.pending)) + 1
      BY <1>3
    <3> QED BY <3>1, <3>2, <3>3, <3>4
  <2>9. ASSUME NEW j \in 1..Len(up'.yields)
        PROVE  up'.yields[j] = Yield(Piece(n, Done + j), Done + j = Count(n))
    <3>1. CASE j \in 1..Len(h)
      <4>1. j = 1 /\ Len(up.pending) = 1 /\ up.pending # <<>>
        <5>1. j \in 1..Len(up.pending)
          BY <2>4, <3>1
        <5>2. \A x \in 0..1 : \A z \in 1..x : z = 1 /\ x = 1
          OBVIOUS
        <5>3. j = 1 /\ Len(up.pending) = 1
          BY <1>3, <5>1, <5>2, Zenon
        <5> QED BY <1>3, <5>3
      <4>2. up'.yields[j] = Yield(Piece(n, Held), FALSE)
        BY <2>4, <2>5, <3>1, <4>1
      <4>3. Held = Done + j /\ (Done + j = Count(n)) = FALSE
        BY <1>3, <1>6, <2>6, <4>1
      <4> QED BY <4>2, <4>3
    <3>2. CASE j = Len(h) + 1
      <4>1. up'.yields[j] = y
        <5>1. 1 \in 1..Len(<<y>>)
          BY <2>3
        <5> QED BY <2>3, <2>5, <3>2, <5>1
      <4>2. Done + j = Held + 1
        <5>1. Done + j = Done + (Len(up.pending) + 1)
          BY <2>4, <3>2
        <5>2. Held + 1 = (Done + Len(up.pending)) + 1
          BY <1>6
        <5>3. Done + (Len(up.pending) + 1) = (Done + Len(up.pending)) + 1
          BY <1>3
        <5> QED BY <5>1, <5>2, <5>3
      <4>3. (Done + j = Count(n)) = TRUE
        BY <2>6, <4>2
      <4>4. y = Yield(Piece(n, Done + j), TRUE)
        BY <2>7, <4>2 DEF y
      <4> QED BY <4>1, <4>3, <4>4
    <3>3. j \in 1..Len(h) \/ j = Len(h) + 1
      <4>1. \A p \in 0..1 : \A z \in 1..(p + 1) : z \in 1..p \/ z = p + 1
        OBVIOUS
      <4>2. j \in 1..(Len(up.pending) + 1)
        BY <2>8
      <4> QED BY <1>3, <2>4, <4>1, <4>2, Zenon
    <3> QED BY <3>1, <3>2, <3>3
  <2>10. Given' <= Count(n)
    <3>1. Count(n) \in Nat
      BY <1>4, CountIs
    <3> QED BY <2>8, <3>1
  <2> QED BY <1>1, <1>7, <1>9, <2>8, <2>9, <2>10 DEF RechunkInv, n
<1>11. CASE ~(up.chunk # <<>> \/ up.pending = <<>>)
  <2>1. up'.yields = HeldBack(TRUE)
    BY <1>1, <1>11 DEF LastYields
  <2>2. Len(up.pending) = 1 /\ c = 0
    BY <1>3, <1>11
  <2>3. /\ Len(up'.yields) = 1 /\ up'.yields[1] = Yield(Piece(n, Held), TRUE)
    BY <1>8, <1>11, <2>1, <2>2
  <2>4. Held = Done + 1 /\ Held >= 1
    BY <1>3, <1>6, <2>2
  <2>5. Count(n) = Held
    <3>1. n = Held * ChunkSize
      BY <1>3, <1>4, <1>5, <2>2 DEF base
    <3> QED BY <1>3, <1>4, <2>4, <3>1, CountBounds
  <2>6. Given' = Count(n) /\ Given' <= Count(n)
    BY <1>3, <1>7, <2>3, <2>4, <2>5
  <2>7. ASSUME NEW j \in 1..Len(up'.yields)
        PROVE  up'.yields[j] = Yield(Piece(n, Done + j), Done + j = Count(n))
    <3>1. j = 1
      BY <2>3
    <3>2. (Done + 1 = Count(n)) = TRUE
      BY <2>4, <2>5
    <3> QED BY <2>3, <2>4, <3>1, <3>2
  <2> QED BY <1>1, <1>7, <1>9, <2>6, <2>7 DEF RechunkInv, n
<1> QED BY <1>10, <1>11

\* Rechunk loses, repeats and swaps nothing.
LEMMA RechunkStep ==
    ASSUME UpTyped, RestTyped, FreshInv, RechunkInv, [Next]_vars
    PROVE  RechunkInv'
<1> SUFFICES ASSUME Uploading' PROVE RechunkInv'
  BY DEF RechunkInv
<1>1. up'.pc \in {"send", "part"}
  BY DEF Uploading
<1>2. Local => up'.size = up.size
  BY LocalFields
<1>3. CASE Reserved
  BY <1>2, <1>3, RechunkReserved DEF Local
<1>4. CASE Seals
  BY <1>1, <1>2, <1>4, RechunkSeals DEF Local
<1>5. CASE Reads
  BY <1>2, <1>5, RechunkReads DEF Local
<1>6. CASE Fills
  BY <1>2, <1>6, RechunkFills DEF Local
<1>7. CASE SourceEnds
  BY <1>2, <1>7, RechunkEnds DEF Local
<1>8. CASE SourceKept /\ YieldsKept /\ up'.size = up.size /\ Uploading
  <2>1. Done' = Done /\ Given' = Given /\ Held' = Held
    BY <1>8 DEF SourceKept, YieldsKept, Done, Given, Held
  <2> QED BY <1>8, <2>1 DEF RechunkInv, SourceKept, YieldsKept
<1>9. CASE Pushes
  BY <1>2, <1>8, <1>9, PushesKeeps DEF Local, Uploading
<1>10. CASE Flushes
  BY <1>2, <1>8, <1>10, FlushesKeeps DEF Local, Uploading, Sending
<1>11. \/ Reserved \/ Pushes \/ Seals \/ Reads \/ Fills \/ SourceEnds \/ Flushes
       \/ SourceKept /\ YieldsKept /\ up'.size = up.size /\ Uploading
  BY <1>1, StepKeeps
<1> QED BY <1>3, <1>4, <1>5, <1>6, <1>7, <1>8, <1>9, <1>10, <1>11
----------------------------------------------------------------------------
(* The container on the server *)

\* What the server holds, with what it has not been sent, or has and the sender
\* does not know it, is the container as far as it has been sealed.
Sent ==
    \/ /\ server.next = up.index
       /\ server.blob \o up.buffer \o up.out = Stream(up.size, Done)
    \/ /\ server.next = up.index + 1
       /\ server.blob \o up.out = Stream(up.size, Done)

\* The container is on the server, or on its way there in order, if no part was
\* appended by halves.
StreamInv ==
    "torn" \notin lost =>
        /\ Uploading => Sent
        /\ Complete => server.blob = Container(up.size)

\* Taking the front of o over to s changes nothing of the whole.
Moves(b, s, o, t) ==
    b \o (s \o SubSeq(o, 1, t)) \o SubSeq(o, t + 1, Len(o)) = b \o s \o o

LEMMA JoinMoves ==
    ASSUME NEW S, NEW b \in Seq(S), NEW s \in Seq(S), NEW o \in Seq(S), NEW t \in 0..Len(o)
    PROVE  Moves(b, s, o, t)
<1> DEFINE x == SubSeq(o, 1, t)
           y == SubSeq(o, t + 1, Len(o))
<1>0. Len(o) \in Nat
  BY LenProperties
<1>1. x \in Seq(S) /\ y \in Seq(S)
  <2>1. t \in Nat /\ t <= Len(o) /\ 0 + 1 = 1
    BY <1>0
  <2>2. SubSeq(o, 0 + 1, t) \in Seq(S)
    <3>1. 0 \in Nat
      OBVIOUS
    <3> QED BY <2>1, <3>1, StretchIsASeq, Zenon
  <2>3. SubSeq(o, t + 1, Len(o)) \in Seq(S)
    <3>1. Len(o) <= Len(o)
      BY <1>0
    <3> QED BY <1>0, <2>1, <3>1, StretchIsASeq, Zenon
  <2> QED BY <2>1, <2>2, <2>3
<1>2. x \o y = o
  <2>1. 1 \in 1..Len(o) + 1 /\ t \in 1 - 1..Len(o) /\ Len(o) \in t..Len(o)
    BY <1>0
  <2>2. x \o y = SubSeq(o, 1, Len(o))
    BY <2>1, ConcatAdjacentSubSeq
  <2> QED BY <2>2, SubSeqFull
<1> HIDE DEF x, y
<1>3. s \o x \in Seq(S) /\ b \o s \in Seq(S)
  BY <1>1, ConcatProperties
<1>4. /\ b \in Seq(S) /\ s \in Seq(S) /\ o \in Seq(S)
      /\ Associates(s, x, y) /\ Associates(b, s, o)
  BY <1>1, JoinsAssociate
<1>5. b \o (s \o x) \o y = b \o ((s \o x) \o y)
  <2>1. Associates(b, s \o x, y)
    BY <1>1, <1>3, <1>4, JoinsAssociate
  <2> QED BY <2>1 DEF Associates
<1>6. (s \o x) \o y = s \o (x \o y)
  BY <1>4 DEF Associates
<1>7. b \o (s \o o) = b \o s \o o
  BY <1>4 DEF Associates
<1> QED BY <1>2, <1>5, <1>6, <1>7 DEF x, y, Moves

LEMMA ServerFields ==
    ASSUME UpTyped, RestTyped
    PROVE  /\ server.blob \in Seq(Token) /\ up.buffer \in Seq(Token) /\ up.out \in Seq(Token)
           /\ server.next \in Nat /\ up.index \in Nat /\ up.size \in Sizes
BY UploadFields, RestFields

\* Sealing a chunk makes the container longer by just that chunk.
LEMMA SealsSends ==
    ASSUME UpTyped, RestTyped, RechunkInv, OrderInv, Sent, Seals, up'.pc # "revoke",
           up'.size = up.size, up'.index = up.index, server' = server
    PROVE  Sent'
<1> DEFINE n == up.size
           y == up.yields[1]
<1>1. /\ up.pc = "send" /\ up.out = <<>> /\ up.yields # <<>> /\ up'.buffer = up.buffer
      /\ up'.out = Seal(up.counter, y.final, y.bytes) /\ up'.counter = up.counter + 1
  BY SealsKeeps
<1>2. Uploading
  BY <1>1 DEF Uploading
<1>3. /\ server.blob \in Seq(Token) /\ up.buffer \in Seq(Token) /\ n \in Sizes
      /\ server.next \in Nat /\ up.index \in Nat
  BY ServerFields
<1>4. server.next = up.index
  BY <1>1, <1>2 DEF OrderInv
<1>5. server.blob \o up.buffer = Stream(n, Done)
  <2>1. up.index # up.index + 1
    BY <1>3
  <2>2. server.blob \o up.buffer \o <<>> = Stream(n, Done)
    BY <1>1, <1>4, <2>1 DEF Sent
  <2>3. server.blob \o up.buffer \in Seq(Token)
    BY <1>3, ConcatProperties
  <2> QED BY <2>2, <2>3, ConcatEmptySeq
<1>6. /\ Done \in Nat /\ up.counter = Done + 1 /\ Done + 1 \in 1..Count(n)
      /\ 1 \in 1..Len(up.yields)
  <2>1. /\ Done \in Nat /\ Given <= Count(n) /\ Count(n) \in Nat
        /\ Len(up.yields) \in Nat /\ Len(up.yields) # 0 /\ up.counter \in Nat
    BY <1>1, <1>2, RechunkNumbers, UploadFields DEF RechunkInv
  <2>2. Given = Done + Len(up.yields) /\ Done = up.counter - 1
    BY DEF Given, Done
  <2>3. up.counter = Done + 1
    BY <2>1, <2>2
  <2>4. \A d, l, c \in Nat : l # 0 /\ d + l <= c => d + 1 \in 1..c /\ 1 \in 1..l
    OBVIOUS
  <2> QED BY <2>1, <2>2, <2>3, <2>4, Zenon
<1>7. y = Yield(Piece(n, Done + 1), Done + 1 = Count(n))
  BY <1>2, <1>6 DEF RechunkInv
<1>8. y.final = (Done + 1 = Count(n)) /\ y.bytes = Piece(n, Done + 1)
  BY <1>7 DEF Yield
<1>9. Stream(n, Done + 1) = Stream(n, Done) \o Seal(Done + 1, Done + 1 = Count(n), Piece(n, Done + 1))
  <2>1. Stream(n, Done + 1) = Stream(n, (Done + 1) - 1)
                                \o Seal(Done + 1, Done + 1 = Count(n), Piece(n, Done + 1))
    BY <1>3, <1>6, StreamIs
  <2>2. (Done + 1) - 1 = Done
    BY <1>6
  <2> QED BY <2>1, <2>2, Zenon
<1>10. Done' = Done + 1
  BY <1>1, <1>6, UploadFields DEF Done
<1>11. up'.out = Seal(Done + 1, Done + 1 = Count(n), Piece(n, Done + 1))
  BY <1>1, <1>6, <1>8, Zenon
<1>12. server.blob \o up'.buffer \o up'.out = Stream(n, Done + 1)
  BY <1>1, <1>5, <1>9, <1>11, Zenon
<1>13. server'.blob \o up'.buffer \o up'.out = Stream(up'.size, Done')
  BY <1>10, <1>12
<1> QED BY <1>4, <1>13 DEF Sent

\* What is left to send is nothing when the last part was flushed.
LEMMA FlushesSends ==
    ASSUME UpTyped, RestTyped, RechunkInv, OrderInv, Sent, Local, up'.pc = "commit"
    PROVE  server.blob = Container(up.size)
<1> DEFINE n == up.size
<1>1. /\ up.pc = "send" /\ up.buffer = <<>> /\ up.out = <<>> /\ up.yields = <<>>
      /\ up.ended = TRUE
  BY FlushesFields
<1>2. Uploading
  BY <1>1 DEF Uploading
<1>3. /\ server.blob \in Seq(Token) /\ n \in Sizes /\ up.index \in Nat
  BY ServerFields
<1>4. Done = Count(n)
  <2>1. Given = Count(n) /\ Given = Done + Len(up.yields)
    BY <1>1, <1>2 DEF RechunkInv, Given
  <2>2. Len(up.yields) = 0 /\ Done \in Nat
    BY <1>1, <1>2, RechunkNumbers
  <2> QED BY <2>1, <2>2
<1>5. server.blob \o <<>> = server.blob
  BY <1>3, ConcatEmptySeq
<1>6. server.blob = Stream(n, Done)
  BY <1>1, <1>5 DEF Sent
<1> QED BY <1>3, <1>4, <1>6, StreamIs

LEMMA SentKept ==
    ASSUME Sent, server'.next = server.next, server'.blob = server.blob,
           up'.index = up.index, up'.size = up.size, up'.counter = up.counter,
           up'.buffer = up.buffer, up'.out = up.out
    PROVE  Sent'
BY DEF Sent, Done

LEMMA StreamLocal ==
    ASSUME UpTyped, RestTyped, CallInv, FreshInv, RechunkInv, OrderInv, StreamInv, Local
    PROVE  StreamInv'
<1> SUFFICES ASSUME "torn" \notin lost'
             PROVE  /\ Uploading' => Sent'
                    /\ Complete' => server'.blob = Container(up'.size)
  BY DEF StreamInv
<1>0. "torn" \notin lost
  BY LocalServer
<1>1. /\ up'.size = up.size /\ up'.index = up.index
      /\ server'.next = server.next /\ server'.blob = server.blob
  BY LocalFields, LocalServer
<1>2. /\ server.blob \in Seq(Token) /\ up.buffer \in Seq(Token) /\ up.out \in Seq(Token)
      /\ server.next \in Nat /\ up.index \in Nat /\ up.size \in Sizes
  BY ServerFields
<1>3. ASSUME Uploading' PROVE Sent'
  <2>1. CASE Reserved
    <3>1. /\ up.pc = "init" /\ up'.counter = 1 /\ up'.out = Header \o Metadata
          /\ up'.buffer = up.buffer
      BY <2>1, ReservedKeeps
    <3>2. server.next = up.index /\ server.blob = <<>> /\ up.buffer = <<>>
      BY <3>1 DEF OrderInv, FreshInv
    <3>3. Header \o Metadata \in Seq(Token)
      BY <1>2, PreambleIsASeq
    <3>4. server.blob \o up.buffer \o (Header \o Metadata) = Header \o Metadata
      <4>1. server.blob \o <<>> = server.blob
        BY <1>2, ConcatEmptySeq
      <4>2. <<>> \o (Header \o Metadata) = Header \o Metadata
        BY <3>3, ConcatEmptySeq
      <4> QED BY <3>2, <4>1, <4>2, Zenon
    <3>5. Done' = 0 /\ Stream(up.size, 0) = Header \o Metadata
      <4>1. Done' = 0
        BY <3>1 DEF Done
      <4>2. Stream(up.size, 0) = Header \o Metadata
        BY <1>2, StreamIs
      <4> QED BY <4>1, <4>2
    <3> QED BY <1>1, <3>1, <3>2, <3>4, <3>5 DEF Sent
  <2>2. CASE Pushes
    <3>1. up.pc = "send" /\ up'.counter = up.counter
      BY <2>2, PushesKeeps DEF YieldsKept
    <3>2. Sent /\ server.next = up.index
      BY <1>0, <3>1 DEF StreamInv, OrderInv, Uploading
    <3>3. PICK t \in 0..Len(up.out) :
            /\ up'.buffer = up.buffer \o SubSeq(up.out, 1, t)
            /\ up'.out = SubSeq(up.out, t + 1, Len(up.out))
      BY <2>2, PushesKeeps
    <3>4. server.blob \o up'.buffer \o up'.out = server.blob \o up.buffer \o up.out
      <4>1. server.blob \o (up.buffer \o SubSeq(up.out, 1, t)) \o SubSeq(up.out, t + 1, Len(up.out))
              = server.blob \o up.buffer \o up.out
        <5>1. /\ server.blob \in Seq(Token) /\ up.buffer \in Seq(Token) /\ up.out \in Seq(Token)
              /\ t \in 0..Len(up.out)
          BY <1>2
        <5>2. Moves(server.blob, up.buffer, up.out, t)
          BY <5>1, JoinMoves, Zenon
        <5> QED BY <5>2 DEF Moves
      <4> QED BY <3>3, <4>1, Zenon
    <3>5. server.blob \o up.buffer \o up.out = Stream(up.size, Done)
      <4>1. up.index # up.index + 1
        BY <1>2
      <4> QED BY <3>2, <4>1 DEF Sent
    <3>6. Done' = Done
      BY <3>1 DEF Done
    <3> QED BY <1>1, <3>2, <3>4, <3>5, <3>6 DEF Sent
  <2>3. CASE Seals
    <3>1. Uploading /\ up'.pc # "revoke" /\ server' = server
      BY <1>3, <2>3 DEF Seals, Up, Uploading
    <3> QED BY <1>0, <1>1, <2>3, <3>1, SealsSends DEF StreamInv
  <2>4. CASE PartKept /\ up'.counter = up.counter /\ Uploading
    BY <1>0, <1>1, <2>4, SentKept DEF StreamInv, PartKept
  <2>5. Reads => PartKept /\ up'.counter = up.counter /\ Uploading
    BY ReadsKeeps DEF YieldsKept, Sending, Uploading
  <2>6. Fills => PartKept /\ up'.counter = up.counter /\ Uploading
    BY FillsKeeps DEF Sending, Uploading
  <2>7. SourceEnds => PartKept /\ up'.counter = up.counter /\ Uploading
    BY SourceEndsKeeps DEF Sending, Uploading
  <2>8. Flushes => PartKept /\ up'.counter = up.counter /\ Uploading
    BY FlushesKeeps DEF YieldsKept, Sending, Uploading
  <2>9. ~SourceFails /\ ~NotReserved /\ ~SenderDeletes
    <3>1. SourceFails => up'.pc = "revoke"
      BY ThrowsFields DEF SourceFails
    <3>2. NotReserved => up'.pc = "failed"
      <4>1. NotReserved => up' = [up EXCEPT !.pc = "failed", !.why = "init"]
        BY DEF NotReserved
      <4> QED BY <4>1 DEF UpTyped, Upload
    <3>3. SenderDeletes => up'.pc = "deleting"
      <4>1. SenderDeletes => up' = [up EXCEPT !.pc = "deleting"]
        BY DEF SenderDeletes, Up
      <4> QED BY <4>1 DEF UpTyped, Upload
    <3> QED BY <1>3, <3>1, <3>2, <3>3 DEF Uploading
  <2> QED BY <2>1, <2>2, <2>3, <2>4, <2>5, <2>6, <2>7, <2>8, <2>9 DEF Local
<1>4. ASSUME Complete' PROVE server'.blob = Container(up'.size)
  <2>1. CASE up'.pc = "commit" /\ up.pc # "commit"
    <3>1. Uploading
      BY <2>1, FlushesFields DEF Uploading
    <3> QED BY <1>0, <1>1, <2>1, <3>1, FlushesSends DEF StreamInv
  <2>2. CASE Complete
    BY <1>0, <1>1, <2>2 DEF StreamInv
  <2>3. Complete \/ (up'.pc = "commit" /\ up.pc # "commit")
    BY <1>4, LocalFields DEF Complete, CallInv
  <2> QED BY <2>1, <2>2, <2>3
<1> QED BY <1>3, <1>4

\* Nothing is lost, repeated or swapped on the way to the server.
LEMMA StreamStep ==
    ASSUME UpTyped, RestTyped, CallInv, FreshInv, RechunkInv, OrderInv, StreamInv, [Next]_vars
    PROVE  StreamInv'
<1> DEFINE Goal == /\ Uploading' => Sent'
                   /\ Complete' => server'.blob = Container(up'.size)
<1> SUFFICES ASSUME "torn" \notin lost' PROVE Goal
  BY DEF StreamInv
<1>t. "torn" \notin lost
  BY LostStays
<1>0. /\ server.blob \in Seq(Token) /\ up.buffer \in Seq(Token) /\ up.out \in Seq(Token)
      /\ server.next \in Nat /\ up.index \in Nat /\ up.size \in Sizes
  BY ServerFields
<1>1. CASE Local
  BY <1>1, StreamLocal DEF StreamInv
<1>2. ASSUME server'.next = server.next, server'.blob = server.blob, up'.size = up.size,
             Complete' => Complete,
             Uploading' => /\ Uploading /\ up'.index = up.index /\ up'.counter = up.counter
                           /\ up'.buffer = up.buffer /\ up'.out = up.out
      PROVE  Goal
  BY <1>2, <1>t, SentKept DEF StreamInv
<1>3. CASE Aside
  BY <1>2, <1>3 DEF Aside, Complete, Uploading
<1>4. CASE PartAnswered
  <2>1. /\ net' = net /\ server' = server /\ up'.size = up.size /\ up.pc = "part"
        /\ up.why = "none" /\ up.fetch \in Status
    BY <1>4, ReceivedFields DEF Received, CallInv, PartAnswered
  <2>2. CASE /\ up.fetch = "ok" /\ up'.pc = "send" /\ up'.index = up.index + 1
             /\ up'.buffer = <<>> /\ up'.out = up.out /\ up'.counter = up.counter
    <3>1. Uploading /\ server.next = up.index + 1 /\ up.index + 1 # up.index
      BY <1>0, <2>1, <2>2 DEF OrderInv, Uploading
    <3>2. server.blob \o up.out = Stream(up.size, Done)
      BY <1>t, <3>1 DEF StreamInv, Sent
    <3>3. server.blob \o <<>> = server.blob
      BY <1>0, ConcatEmptySeq
    <3>4. server'.blob \o up'.buffer \o up'.out = Stream(up'.size, Done')
      <4>1. Done' = Done
        BY <2>2 DEF Done
      <4> QED BY <2>1, <2>2, <3>2, <3>3, <4>1
    <3>5. up'.why = "none"
      BY <1>4, <2>1, <2>2, ReceivedFields DEF Received
    <3> QED BY <2>1, <2>2, <3>1, <3>4, <3>5 DEF Sent, Complete
  <2>3. CASE up'.pc = "revoke" /\ up'.why \in {"cancelled", "part"}
    BY <2>3 DEF Uploading, Complete
  <2>4. CASE /\ up'.pc = "part" /\ up'.index = up.index
             /\ up'.buffer = up.buffer /\ up'.out = up.out /\ up'.counter = up.counter
    <3>1. up'.why = "none"
      BY <1>4, <2>1, <2>4, ReceivedFields DEF Received
    <3> QED BY <1>2, <2>1, <2>4, <3>1 DEF Uploading, Complete
  <2> QED BY <1>4, <2>2, <2>3, <2>4, PartFields
<1>5. CASE CommitAnswered \/ RevokeAnswered
  <2>1. /\ server' = server /\ up'.size = up.size /\ ~Uploading'
        /\ Complete' => Complete
    BY <1>5, ReceivedFields DEF Received, CommitAnswered, RevokeAnswered, Uploading, Complete, CallInv
  <2> QED BY <1>2, <2>1
<1>6. CASE PartStopped
  <2>1. up'.pc = "revoke" /\ up'.why = "cancelled"
    BY <1>6, ThrowsFields DEF PartStopped
  <2> QED BY <2>1 DEF Uploading, Complete
<1>7. CASE \E op \in {"part", "commit", "revoke"} : Asks(op) /\ Asking(op)
  <2>1. /\ up'.pc = up.pc /\ up'.why = up.why /\ up'.index = up.index
        /\ up'.size = up.size /\ up'.buffer = up.buffer /\ up'.out = up.out
        /\ up'.counter = up.counter /\ server' = server
    BY <1>7, AsksFields
  <2> QED BY <1>2, <2>1 DEF Uploading, Complete
<1>8. CASE \E r \in net :
             /\ server' \in {server, After(r)}
             /\ up'.pc = up.pc /\ up'.why = up.why /\ up'.index = up.index
             /\ up'.size = up.size /\ up'.buffer = up.buffer /\ up'.out = up.out
             /\ up'.counter = up.counter
  <2>1. PICK r \in net :
             /\ server' \in {server, After(r)}
             /\ up'.pc = up.pc /\ up'.why = up.why /\ up'.index = up.index
             /\ up'.size = up.size /\ up'.buffer = up.buffer /\ up'.out = up.out
             /\ up'.counter = up.counter
    BY <1>8
  <2>2. (Uploading' <=> Uploading) /\ (Complete' <=> Complete)
    BY <2>1 DEF Uploading, Complete
  <2>3. CASE server'.blob = server.blob /\ server'.next = server.next
    BY <1>2, <2>1, <2>2, <2>3
  <2>4. CASE /\ r.op = "part" /\ r.index = server.next
             /\ server'.blob = server.blob \o r.body /\ server'.next = r.index + 1
    <3>1. r.index \in Nat
      BY RequestFields DEF RestTyped
    <3>2. ~Complete
      <4>1. Complete => server.next = up.index /\ r.index < up.index
        BY <2>4 DEF OrderInv
      <4>2. ~(up.index < up.index)
        BY <1>0
      <4> QED BY <2>4, <4>1, <4>2
    <3>3. ASSUME Uploading PROVE Sent'
      <4>1. r.index <= up.index /\ (server.next = up.index \/ server.next = up.index + 1)
        BY <3>3 DEF OrderInv
      <4>2. r.index = up.index /\ server.next = up.index /\ up.index # up.index + 1
        BY <1>0, <2>4, <3>1, <4>1
      <4>3. r.body = up.buffer
        BY <3>3, <4>2 DEF OrderInv
      <4>4. server.blob \o up.buffer \o up.out = Stream(up.size, Done)
        BY <1>t, <3>3, <4>2 DEF StreamInv, Sent
      <4>5. server'.next = up'.index + 1 /\ server'.blob = server.blob \o up.buffer
        BY <2>1, <2>4, <4>2, <4>3
      <4>6. Done' = Done
        BY <2>1 DEF Done
      <4>7. server'.blob \o up'.out = Stream(up'.size, Done')
        BY <2>1, <4>4, <4>5, <4>6
      <4> QED BY <4>5, <4>7 DEF Sent
    <3> QED BY <2>2, <3>2, <3>3
  <2> QED BY <2>1, <2>3, <2>4, AfterPart
<1>9. CASE Failed
  <2>1. PICK r \in net :
             /\ server' \in {server, After(r)}
             /\ up'.pc = up.pc /\ up'.why = up.why /\ up'.index = up.index
             /\ up'.size = up.size /\ up'.buffer = up.buffer /\ up'.out = up.out
             /\ up'.counter = up.counter
    BY <1>9, FailsFields DEF Ruined, Missed
  <2> QED BY <1>8, <2>1
<1>10. CASE \E r \in net : Answers(r)
  <2>1. PICK r \in net : Answers(r)
    BY <1>10
  <2>2. /\ server' = After(r)
        /\ up'.pc = up.pc /\ up'.why = up.why /\ up'.index = up.index
        /\ up'.size = up.size /\ up'.buffer = up.buffer /\ up'.out = up.out
        /\ up'.counter = up.counter
    BY <2>1, AnswersFields
  <2> QED BY <1>8, <2>2
<1> QED BY <1>1, <1>3, <1>4, <1>5, <1>6, <1>7, <1>9, <1>10, StepsAre DEF Received

\* Only a part appended by halves leaves bytes that the record does not count.
StrayInv == "torn" \notin lost => server.stray = 0

LEMMA StrayStep ==
    ASSUME UpTyped, RestTyped, StrayInv, [Next]_vars
    PROVE  StrayInv'
<1> SUFFICES ASSUME "torn" \notin lost' PROVE server'.stray = server.stray
  BY LostStays DEF StrayInv
<1>1. Failed => server'.stray = server.stray
  BY FailsFields, AfterTyped DEF Ruined
<1>2. (\E r \in net : Answers(r)) => server'.stray = server.stray
  BY AnswersFields, AfterTyped
<1>3. (\E op \in {"part", "commit", "revoke"} : Asks(op)) => server' = server
  BY AsksFields
<1>4. Received => server' = server
  BY ReceivedFields
<1>5. PartStopped => server' = server
  BY DEF PartStopped
<1>6. Local \/ Aside => server'.stray = server.stray
  BY LocalServer DEF Aside
<1> QED BY <1>1, <1>2, <1>3, <1>4, <1>5, <1>6, StepsAre

\* The invariant from which UploadExact follows.
ExactInv == UploadInv /\ FreshInv /\ RechunkInv /\ StreamInv /\ StrayInv

LEMMA ExactStep == ExactInv /\ [Next]_vars => ExactInv'
BY UploadStep, FreshStep, RechunkStep, StreamStep, StrayStep, TypesAre
   DEF ExactInv, UploadInv, FailureInv

LEMMA ExactInit == Init => ExactInv
<1> SUFFICES ASSUME Init PROVE ExactInv
  OBVIOUS
<1>1. /\ up.pc = "init" /\ up.why = "none"
      /\ up.at = 0 /\ up.input = <<>> /\ up.chunk = <<>> /\ up.pending = <<>>
      /\ up.ended = FALSE /\ up.yields = <<>> /\ up.counter = 0
      /\ up.out = <<>> /\ up.buffer = <<>> /\ server.stray = 0
  BY DEF Init
<1> QED BY <1>1, UploadInit
        DEF ExactInv, FreshInv, RechunkInv, StreamInv, StrayInv, Uploading, Complete

LEMMA ExactHolds == Spec => []ExactInv
<1>1. Init => ExactInv
  BY ExactInit
<1>2. ExactInv /\ [Next]_vars => ExactInv'
  BY ExactStep
<1> QED BY <1>1, <1>2, PTL DEF Spec

\* A transfer that can be collected, or that its sender was told is stored, is the
\* container of the whole file, byte for byte and of the length declared when it
\* was reserved (stored.ts:95-138), whatever was repeated, answered late or lost,
\* unless a part was appended by halves and sent again (api.ts:98-104).
THEOREM UploadsAreExact == Spec => []UploadExact
<1>1. ExactInv => UploadExact
  <2> SUFFICES ASSUME ExactInv, "torn" \notin lost,
                      server.slot = "committed" \/ up.pc \in {"stored", "deleting", "deleted"}
               PROVE  /\ server.blob = Container(up.size) /\ server.stray = 0
                      /\ Len(server.blob) = SealedTotalLength(up.size)
    BY DEF UploadExact
  <2>1. Complete
    BY DEF ExactInv, UploadInv, CommitInv, Complete
  <2>2. server.blob = Container(up.size) /\ server.stray = 0
    BY <2>1 DEF ExactInv, StreamInv, StrayInv
  <2>3. up.size \in Sizes
    BY UploadFields, TypesAre DEF ExactInv, UploadInv, FailureInv
  <2> QED BY <2>2, <2>3, ContainerLength
<1> QED BY <1>1, ExactHolds, PTL
----------------------------------------------------------------------------
(* What is delivered *)

\* The first m chunks of a file of length n, opened.
Begun(n, m) == [k \in 1..Least(n, m * ChunkSize) |-> k]

\* The tokens of the header and the metadata belong to no chunk.
LEMMA PreambleTokens ==
    ASSUME Sizes # {}
    PROVE  \A k \in 1..3 : (Header \o Metadata)[k].bound.chunk = 0
<1> DEFINE pre == Header \o Metadata
<1>0. /\ Header \in Seq(Token) /\ Len(Header) = 1
      /\ Metadata \in Seq(Token) /\ Len(Metadata) = 2
  BY PreambleIsASeq
<1>1. Header[1].bound.chunk = 0
  BY DEF Header, Bound
<1>2. \A k \in 1..2 : Metadata[k].bound.chunk = 0
  <2>1. Len(<<0>>) = 1
    OBVIOUS
  <2>2. Metadata = [k \in 1..2 |-> [bound |-> Bound(0, FALSE), of |-> <<0>>, at |-> k]]
    BY <2>1 DEF Metadata, Seal, Tag
  <2>3. \A k \in 1..2 : Metadata[k] = [bound |-> Bound(0, FALSE), of |-> <<0>>, at |-> k]
    BY <2>2
  <2> QED BY <2>3 DEF Bound
<1>3. /\ \A k \in 1..Len(Header) : pre[k] = Header[k]
      /\ \A k \in 1..Len(Metadata) : pre[Len(Header) + k] = Metadata[k]
  <2> DEFINE h == Header
             m == Metadata
  <2>1. h \in Seq(Token) /\ m \in Seq(Token)
    BY <1>0
  <2> HIDE DEF h, m
  <2>2. /\ \A k \in 1..Len(h) : (h \o m)[k] = h[k]
        /\ \A k \in 1..Len(m) : (h \o m)[Len(h) + k] = m[k]
    BY ONLY <2>1, JoinIsASeq
  <2> QED BY <2>2 DEF h, m
<1> HIDE DEF pre
<1>4. pre[1] = Header[1] /\ pre[2] = Metadata[1] /\ pre[3] = Metadata[2]
  <2>1. 1 \in 1..Len(Header) /\ 1 \in 1..Len(Metadata) /\ 2 \in 1..Len(Metadata)
        /\ Len(Header) + 1 = 2 /\ Len(Header) + 2 = 3
    BY <1>0
  <2> QED BY <1>3, <2>1
<1>5. 1 \in 1..2 /\ 2 \in 1..2 /\ \A k \in 1..3 : k = 1 \/ k = 2 \/ k = 3
  OBVIOUS
<1>6. \A k \in 1..3 : pre[k].bound.chunk = 0
  BY <1>1, <1>2, <1>4, <1>5
<1> QED BY <1>6 DEF pre

\* A sealed token stands where it was sealed: it tells the chunk's plaintext,
\* and the tag of a chunk marked as final is the last token of the container.
LEMMA ContainerTokens ==
    ASSUME NEW n \in Sizes, NEW p \in 1..Len(Container(n)),
           Container(n)[p].bound.chunk # 0
    PROVE  /\ Container(n)[p].bound.chunk \in 1..Count(n)
           /\ Genuine(n, Container(n)[p])
           /\ Container(n)[p].bound.chunk = Count(n)
                /\ Container(n)[p].at = Len(Piece(n, Count(n))) + 1
                => p = Len(Container(n))
<1> DEFINE c == Count(n)
           pre == Header \o Metadata
           J == Joined(Sealed(n))
           body == J[c]
           t == Container(n)[p]
<1>1. c \in Nat /\ c >= 1 /\ c \in 1..c /\ Len(Sealed(n)) = c
      /\ Len(Sealed(n)[c]) = Len(Piece(n, c)) + 1 /\ Len(Piece(n, c)) \in Nat
  <2>1. c \in Nat /\ c >= 1 /\ Len(Sealed(n)) = c
    BY SealedIs
  <2>2. c \in 1..c
    BY <2>1
  <2>3. Len(Sealed(n)[c]) = Len(Piece(n, c)) + 1 /\ Piece(n, c) \in Bytes
    BY <2>2, SealedIs
  <2> HIDE DEF c
  <2> QED BY <2>1, <2>2, <2>3 DEF Bytes
<1>2. /\ Header \in Seq(Token) /\ Len(Header) = 1
      /\ Metadata \in Seq(Token) /\ Len(Metadata) = 2
      /\ pre \in Seq(Token) /\ Len(pre) = 3
  <2>1. Sizes # {}
    OBVIOUS
  <2> QED BY <2>1, PreambleIsASeq
<1>3. \A k \in 1..3 : pre[k].bound.chunk = 0
  BY PreambleTokens
<1>4. /\ body \in Seq(Token)
      /\ \A q \in 1..Len(body) : body[q].bound.chunk \in 1..c /\ Genuine(n, body[q])
  BY <1>1, ChunksTogether
<1>5. Container(n) = pre \o body
  BY <1>1, StreamIs
<1>6. /\ Len(Container(n)) = Len(pre) + Len(body)
      /\ \A k \in 1..Len(pre) : Container(n)[k] = pre[k]
      /\ \A k \in 1..Len(body) : Container(n)[Len(pre) + k] = body[k]
  <2>1. pre \in Seq(Token) /\ body \in Seq(Token)
    BY <1>2, <1>4
  <2> HIDE DEF pre, body
  <2>2. /\ Len(pre \o body) = Len(pre) + Len(body)
        /\ \A k \in 1..Len(pre) : (pre \o body)[k] = pre[k]
        /\ \A k \in 1..Len(body) : (pre \o body)[Len(pre) + k] = body[k]
    BY <2>1, JoinIsASeq
  <2> QED BY <1>5, <2>2
<1>7. Len(body) \in Nat
  BY <1>4
<1> DEFINE q == p - 3
<1>8. q \in 1..Len(body) /\ t = body[q] /\ q \in Nat
  <2> HIDE DEF pre, body
  <2>1. p \in 1..3 + Len(body) /\ p \in Nat
    BY <1>2, <1>6, <1>7
  <2>2. p \notin 1..3
    BY <1>2, <1>3, <1>6
  <2>3. q \in 1..Len(body) /\ p = 3 + q
    BY <1>7, <2>1, <2>2
  <2> HIDE DEF q
  <2> QED BY <1>2, <1>6, <2>3
<1>9. ASSUME t.bound.chunk = c, t.at = Len(Piece(n, c)) + 1
      PROVE  q = Len(body)
  <2>1. body = IF c = 1 THEN Sealed(n)[c] ELSE J[c-1] \o Sealed(n)[c]
    BY <1>1, JoinedIs
  <2>2. Sealed(n)[c] \in Seq(Token) /\ \A k \in 1..Len(Sealed(n)[c]) : Sealed(n)[c][k].at = k
    <3>1. c \in 1..Count(n)
      BY <1>1
    <3> HIDE DEF c
    <3>2. InPlace(Sealed(n)[c])
      BY <3>1, SealedInPlace
    <3> QED BY <3>2 DEF InPlace
  <2>3. CASE c = 1
    BY <1>1, <1>8, <1>9, <2>1, <2>2, <2>3
  <2>4. CASE c # 1
    <3> DEFINE x == J[c-1]
               y == Sealed(n)[c]
               l == Len(x)
    <3>1. c - 1 \in 1..c /\ c - 1 < c
      BY <1>1, <2>4
    <3>2. x \in Seq(Token) /\ \A r \in 1..Len(x) : x[r].bound.chunk \in 1..c-1
      BY <3>1, ChunksTogether
    <3>3. \A r \in 1..Len(x) : x[r].bound.chunk # c
      <4> HIDE DEF c, x
      <4> QED BY <3>1, <3>2, <1>1
    <3>4. body = x \o y
      BY <2>1, <2>4
    <3> HIDE DEF x, y, body
    <3>5. /\ Len(body) = Len(x) + Len(y)
          /\ \A k \in 1..Len(x) : body[k] = x[k]
          /\ \A k \in 1..Len(y) : body[Len(x) + k] = y[k]
      BY <2>2, <3>2, <3>4, JoinIsASeq DEF y
    <3>6. l \in Nat /\ Len(y) \in Nat
      BY <2>2, <3>2 DEF y
    <3>7. q \notin 1..l
      BY <1>8, <1>9, <3>3, <3>5
    <3> HIDE DEF q, t
    <3>8. q - l \in 1..Len(y) /\ q = l + (q - l)
      BY <1>8, <3>5, <3>6, <3>7
    <3>9. t = y[q - l]
      BY <1>8, <3>5, <3>8
    <3>10. t.at = q - l
      BY <2>2, <3>8, <3>9 DEF y
    <3>11. t.at = Len(y)
      BY <1>1, <1>9 DEF y
    <3> QED BY <1>8, <3>5, <3>6, <3>8, <3>10, <3>11
  <2> QED BY <2>3, <2>4
<1>10. t.bound.chunk \in 1..c /\ Genuine(n, t)
  BY <1>4, <1>8
<1>11. q = Len(body) => p = Len(Container(n))
  <2>1. Len(pre) + Len(body) = 3 + Len(body)
    BY <1>2
  <2> HIDE DEF pre, body
  <2> QED BY <1>6, <1>7, <2>1
<1> HIDE DEF q
<1> QED BY <1>9, <1>10, <1>11

\* A token of the metadata, or of a chunk of the file.
Known(n, t) == t.bound.chunk # 0 => t.bound.chunk \in 1..Count(n) /\ Genuine(n, t)

AllKnown(n, s) == \A k \in 1..Len(s) : Known(n, s[k])

LEMMA KnownJoin ==
    ASSUME NEW n, NEW a \in Seq(Token), NEW b \in Seq(Token), AllKnown(n, a), AllKnown(n, b)
    PROVE  a \o b \in Seq(Token) /\ AllKnown(n, a \o b)
<1> DEFINE c == a \o b
<1>1. /\ c \in Seq(Token) /\ Len(c) = Len(a) + Len(b)
      /\ \A k \in 1..Len(a) : c[k] = a[k]
      /\ \A k \in 1..Len(b) : c[Len(a) + k] = b[k]
  BY JoinIsASeq
<1> HIDE DEF c
<1>2. ASSUME NEW k \in 1..Len(c) PROVE Known(n, c[k])
  <2>1. Len(a) \in Nat /\ Len(b) \in Nat
    BY LenProperties
  <2>2. CASE k \in 1..Len(a)
    BY <1>1, <2>2 DEF AllKnown
  <2>3. CASE k \notin 1..Len(a)
    <3>1. k - Len(a) \in 1..Len(b) /\ Len(a) + (k - Len(a)) = k
      BY <1>1, <2>1, <2>3
    <3>2. c[k] = b[k - Len(a)]
      BY <1>1, <3>1
    <3> QED BY <3>1, <3>2 DEF AllKnown
  <2> QED BY <2>2, <2>3
<1>3. AllKnown(n, c)
  BY <1>2 DEF AllKnown
<1> QED BY <1>1, <1>3 DEF c

LEMMA KnownStretch ==
    ASSUME NEW n, NEW s \in Seq(Token), AllKnown(n, s),
           NEW a \in Nat, NEW b \in Nat, b <= Len(s)
    PROVE  SubSeq(s, a + 1, b) \in Seq(Token) /\ AllKnown(n, SubSeq(s, a + 1, b))
<1> DEFINE x == SubSeq(s, a + 1, b)
<1>1. /\ x \in Seq(Token) /\ Len(x) = (IF a <= b THEN b - a ELSE 0)
      /\ \A k \in 1..Len(x) : x[k] = s[a + k]
  BY StretchIsASeq
<1> HIDE DEF x
<1>2. ASSUME NEW k \in 1..Len(x) PROVE Known(n, x[k])
  <2>1. Len(s) \in Nat
    BY LenProperties
  <2>2. a + k \in 1..Len(s)
    BY <1>1, <2>1
  <2> QED BY <1>1, <2>2 DEF AllKnown
<1>3. AllKnown(n, x)
  BY <1>2 DEF AllKnown
<1> QED BY <1>1, <1>3 DEF x

\* What opens as chunk i, all of it from the container of the file, is chunk i.
IsChunk(n, x, i, final) ==
    /\ i \in 1..Count(n) /\ x[1].of = Piece(n, i) /\ final = (i = Count(n))
    /\ Len(x) \in Nat /\ Len(x) >= 1
    /\ x[Len(x)].bound.chunk = i /\ x[Len(x)].at = Len(Piece(n, i)) + 1

LEMMA OpensIs ==
    ASSUME NEW n \in Sizes, NEW x \in Seq(Token), AllKnown(n, x),
           NEW i \in Nat, i >= 1, NEW final \in BOOLEAN, Opens(x, i, final)
    PROVE  IsChunk(n, x, i, final)
<1> DEFINE body == x[1].of
           l == Len(body)
           t == x[Len(x)]
<1>1. x # <<>> /\ x = Seal(i, final, body)
  BY DEF Opens
<1>2. Len(x) \in Nat /\ Len(x) >= 1
  BY <1>1, EmptySeq
<1>3. body \in Bytes /\ l \in Nat
  <2>1. x[1] \in Token
    BY <1>2
  <2>2. body \in Bytes
    BY <2>1 DEF Token
  <2> QED BY <2>2 DEF Bytes
<1> HIDE DEF body
<1>4. /\ Len(x) = l + 1
      /\ \A k \in 1..l + 1 : x[k] = [bound |-> Bound(i, final), of |-> body, at |-> k]
  BY <1>1, <1>3, SealIsASeq
<1> HIDE DEF l
<1>5. t = [bound |-> Bound(i, final), of |-> body, at |-> l + 1]
  <2>1. l + 1 \in 1..l + 1
    BY <1>3
  <2> QED BY <1>4, <2>1
<1>6. t.bound.chunk = i /\ t.bound.final = final /\ t.of = body /\ t.at = l + 1
  BY <1>5 DEF Bound
<1>7. Known(n, t)
  <2>1. Len(x) \in 1..Len(x)
    BY <1>2
  <2> QED BY <2>1 DEF AllKnown
<1> HIDE DEF t
<1>8. i \in 1..Count(n) /\ Genuine(n, t)
  BY <1>6, <1>7 DEF Known
<1>9. body = Piece(n, i) /\ final = (i = Count(n))
  BY <1>6, <1>8 DEF Genuine
<1> QED BY <1>2, <1>6, <1>8, <1>9 DEF IsChunk, body, l, t

\* Of a container that is whole, what opens as the last chunk is its end.
LEMMA LastOpens ==
    ASSUME NEW n \in Sizes, NEW a \in Nat, NEW b \in Nat, a <= b, b <= Len(Container(n)),
           IsChunk(n, SubSeq(Container(n), a + 1, b), Count(n), TRUE)
    PROVE  b = Len(Container(n))
<1> DEFINE C == Container(n)
           x == SubSeq(C, a + 1, b)
           t == C[b]
<1>1. C \in Seq(Token)
  BY ContainerLength
<1> HIDE DEF C
<1>2. Len(x) = b - a /\ \A k \in 1..b - a : x[k] = C[a + k]
  <2>1. IsStretch(x, C, a, b)
    BY <1>1, StretchOf DEF C
  <2> QED BY <2>1 DEF IsStretch
<1>3. /\ Len(x) >= 1 /\ x[Len(x)].bound.chunk = Count(n)
      /\ x[Len(x)].at = Len(Piece(n, Count(n))) + 1
  BY DEF IsChunk, C
<1> HIDE DEF x
<1>4. Len(x) \in 1..b - a /\ a + Len(x) = b /\ b \in 1..Len(C)
  BY <1>2, <1>3 DEF C
<1>5. x[Len(x)] = t
  BY <1>2, <1>4
<1>6. Count(n) # 0
  BY SealedIs
<1>7. t.bound.chunk = Count(n) /\ t.at = Len(Piece(n, Count(n))) + 1 /\ t.bound.chunk # 0
  BY <1>3, <1>5, <1>6
<1>8. t.bound.chunk # 0 =>
        (t.bound.chunk = Count(n) /\ t.at = Len(Piece(n, Count(n))) + 1 => b = Len(C))
  BY <1>4, ContainerTokens DEF C, t
<1> QED BY <1>7, <1>8 DEF C

\* Chunk by chunk the file is written from its beginning to its end.
LEMMA BegunIs ==
    ASSUME NEW n \in Sizes
    PROVE  /\ Begun(n, 0) = <<>>
           /\ Begun(n, Count(n)) = [k \in 1..n |-> k]
           /\ \A m \in 0..Count(n) :
                /\ Begun(n, m) \in Bytes
                /\ IsPrefix(Begun(n, m), [k \in 1..n |-> k])
                /\ m < Count(n) => Begun(n, m) \o Piece(n, m + 1) = Begun(n, m + 1)
<1>1. n \in Nat /\ ChunkSize \in Nat /\ ChunkSize > 0 /\ Count(n) \in Nat /\ Count(n) >= 1
      /\ n <= Count(n) * ChunkSize
  <2>1. n \in Nat /\ ChunkSize \in Nat /\ ChunkSize > 0
    BY StoredAssumption DEF StoredAssumption
  <2> QED BY <2>1, CountIs
<1>2. Begun(n, 0) = <<>>
  <2>1. Least(n, 0 * ChunkSize) = 0
    BY <1>1 DEF Least
  <2>2. Begun(n, 0) = [k \in 1..0 |-> k]
    BY <2>1 DEF Begun
  <2> QED BY <2>2
<1>3. Begun(n, Count(n)) = [k \in 1..n |-> k]
  <2> DEFINE e == Count(n) * ChunkSize
  <2>1. n <= e /\ e \in Int
    BY <1>1
  <2> HIDE DEF e
  <2>2. Least(n, e) = n
    BY <1>1, <2>1 DEF Least
  <2> QED BY <2>2 DEF Begun, e
<1>4. ASSUME NEW m \in 0..Count(n)
      PROVE  /\ Begun(n, m) \in Bytes
             /\ IsPrefix(Begun(n, m), [k \in 1..n |-> k])
             /\ m < Count(n) => Begun(n, m) \o Piece(n, m + 1) = Begun(n, m + 1)
  <2> DEFINE e == m * ChunkSize
             l == Least(n, e)
             s == Begun(n, m)
             file == [k \in 1..n |-> k]
  <2>1. e \in Nat /\ m \in Nat
    BY <1>1, <1>4, TimesGrows
  <2> HIDE DEF e
  <2>2. l \in 0..n
    BY <1>1, <2>1 DEF Least
  <2>3. s = [k \in 1..l |-> k]
    BY DEF Begun, e
  <2> HIDE DEF l
  <2>4. s \in Bytes /\ Len(s) = l
    BY <2>2, <2>3, FrontIsBytes
  <2>5. file \in Bytes /\ Len(file) = n
    BY <1>1, FrontIsBytes
  <2> HIDE DEF s
  <2>6. IsPrefix(s, file)
    <3>1. file \in Seq(Values) /\ s \in Seq(Values) /\ l \in Nat
      BY <2>2, <2>4, <2>5 DEF Bytes, Values
    <3>2. \A k \in 1..l : s[k] = file[k]
      <4>1. \A k \in 1..l : k \in 1..n
        BY <1>1, <2>2
      <4>2. \A k \in 1..n : file[k] = k
        OBVIOUS
      <4>3. \A k \in 1..l : s[k] = k
        BY <2>3
      <4> QED BY <4>1, <4>2, <4>3, Zenon
    <3> HIDE DEF file, Values
    <3>3. SubSeq(s, 1, l) = SubSeq(file, 1, l)
      <4>1. l <= Len(s) /\ l <= Len(file) /\ 0 + 1 = 1 /\ 0 \in Nat /\ 0 <= l /\ l - 0 = l
        BY <1>1, <2>2, <2>4, <2>5
      <4>2. IsStretch(SubSeq(s, 0 + 1, l), s, 0, l) /\ SubSeq(s, 0 + 1, l) \in Seq(Values)
        BY <3>1, <4>1, StretchOf
      <4>3. IsStretch(SubSeq(file, 0 + 1, l), file, 0, l) /\ SubSeq(file, 0 + 1, l) \in Seq(Values)
        BY <3>1, <4>1, StretchOf
      <4> DEFINE x == SubSeq(s, 0 + 1, l)
                 y == SubSeq(file, 0 + 1, l)
      <4>4. /\ x \in Seq(Values) /\ y \in Seq(Values) /\ Len(x) = l - 0 /\ Len(y) = l - 0
            /\ \A k \in 1..l - 0 : x[k] = s[0 + k] /\ y[k] = file[0 + k]
        BY <4>2, <4>3 DEF IsStretch
      <4> HIDE DEF x, y
      <4>5. \A k \in 1..l - 0 : 0 + k = k
        OBVIOUS
      <4>6. \A k \in 1..l - 0 : x[k] = y[k]
        BY <3>2, <4>1, <4>4, <4>5
      <4>7. x = y
        BY <4>4, <4>6, SeqEqual
      <4> QED BY <4>1, <4>7 DEF x, y
    <3> QED BY <1>1, <2>2, <2>4, <2>5, <3>3 DEF IsPrefix
  <2>7. ASSUME m < Count(n) PROVE s \o Piece(n, m + 1) = Begun(n, m + 1)
    <3> DEFINE y == Piece(n, m + 1)
               d == Least(ChunkSize, n - e)
               z == Begun(n, m + 1)
    <3>1. e <= n /\ (m + 1) * ChunkSize = e + ChunkSize
      BY <1>1, <2>1, <2>7, CountBounds, TimesGrows DEF e
    <3>2. l = e /\ Least(n, e + ChunkSize) = e + d /\ d \in Nat
      BY <1>1, <2>1, <3>1 DEF l, Least
    <3>3. y \in Bytes /\ Len(y) = d /\ \A k \in 1..d : y[k] = e + k
      <4>1. m + 1 \in Nat /\ m + 1 >= 1 /\ (m + 1) - 1 = m
        BY <2>1
      <4>2. ((m + 1) - 1) * ChunkSize = e
        BY <4>1 DEF e
      <4>3. /\ y \in Bytes
            /\ Len(y) = Least(ChunkSize, n - ((m + 1) - 1) * ChunkSize)
            /\ \A k \in 1..Len(y) : y[k] = ((m + 1) - 1) * ChunkSize + k
        BY <3>1, <4>1, <4>2, PieceIs
      <4> HIDE DEF y
      <4> QED BY <4>2, <4>3
    <3>4. z = [k \in 1..e + d |-> k]
      BY <3>1, <3>2 DEF Begun
    <3> HIDE DEF y, d
    <3>5. /\ s \o y \in Seq(Values) /\ Len(s \o y) = Len(s) + Len(y)
          /\ \A k \in 1..Len(s) : (s \o y)[k] = s[k]
          /\ \A k \in 1..Len(y) : (s \o y)[Len(s) + k] = y[k]
      <4>1. s \in Seq(Values) /\ y \in Seq(Values)
        BY <2>4, <3>3 DEF Bytes, Values
      <4> HIDE DEF Values
      <4> QED BY <4>1, JoinIsASeq
    <3> DEFINE w == s \o y
    <3> HIDE DEF w
    <3>6. /\ w \in Seq(Values) /\ Len(w) = e + d
          /\ \A k \in 1..e : w[k] = k
          /\ \A k \in 1..d : w[e + k] = e + k
      <4>1. \A k \in 1..e : s[k] = k
        BY <2>3, <3>2
      <4> QED BY <2>4, <3>2, <3>3, <3>5, <4>1 DEF w
    <3>7. \A k \in 1..e + d : w[k] = k
      <4>1. \A k \in 1..e + d : k \in 1..e \/ (k - e \in 1..d /\ e + (k - e) = k)
        BY <2>1, <3>2
      <4> QED BY <3>6, <4>1
    <3>8. z \in Seq(Values) /\ Len(z) = e + d /\ \A k \in 1..e + d : z[k] = k
      <4>1. e + d \in 0..n
        BY <1>1, <2>1, <3>1, <3>2 DEF d, Least
      <4> HIDE DEF z
      <4>2. z \in Bytes /\ Len(z) = e + d
        BY <3>4, <4>1, FrontIsBytes
      <4> QED BY <3>4, <4>2 DEF Bytes, Values
    <3> HIDE DEF z, Values
    <3>9. w = z
      BY <3>6, <3>7, <3>8, SeqEqual
    <3> QED BY <3>9 DEF w, y, z
  <2> QED BY <2>4, <2>6, <2>7 DEF s
<1> QED BY <1>2, <1>3, <1>4

\* Whatever was repeated or appended by halves, each token that is held, under way
\* or stored is one of the file's container.
GenuineInv ==
    /\ AllKnown(up.size, up.out) /\ AllKnown(up.size, up.buffer)
    /\ AllKnown(up.size, server.blob)
    /\ \A r \in net : AllKnown(up.size, r.body)

\* The sender makes no other.
LEMMA GenuineLocal ==
    ASSUME UpTyped, RestTyped, RechunkInv, GenuineInv, Local
    PROVE  AllKnown(up.size, up'.out) /\ AllKnown(up.size, up'.buffer)
<1> DEFINE n == up.size
<1>1. /\ n \in Sizes /\ up.out \in Seq(Token) /\ up.buffer \in Seq(Token)
      /\ Len(up.out) \in Nat /\ up.counter \in Nat
  BY UploadFields
<1>2. AllKnown(n, up.out) /\ AllKnown(n, up.buffer)
  BY DEF GenuineInv
<1>3. CASE PartKept
  BY <1>2, <1>3 DEF PartKept
<1>4. CASE Reserved
  <2>1. up'.out = Header \o Metadata /\ up'.buffer = up.buffer
    BY <1>4, ReservedKeeps
  <2>2. Len(Header \o Metadata) = 3 /\ \A k \in 1..3 : (Header \o Metadata)[k].bound.chunk = 0
    BY <1>1, PreambleIsASeq, PreambleTokens
  <2>3. AllKnown(n, Header \o Metadata)
    BY <2>2 DEF AllKnown, Known
  <2> QED BY <1>2, <2>1, <2>3
<1>5. CASE Pushes
  <2>1. PICK take \in 0..Len(up.out) :
          /\ up'.buffer = up.buffer \o SubSeq(up.out, 1, take)
          /\ up'.out = SubSeq(up.out, take + 1, Len(up.out))
    BY <1>5, PushesKeeps
  <2>2. take \in Nat /\ take <= Len(up.out) /\ 0 \in Nat /\ 0 + 1 = 1 /\ Len(up.out) <= Len(up.out)
    BY <1>1
  <2>3. /\ SubSeq(up.out, 0 + 1, take) \in Seq(Token) /\ AllKnown(n, SubSeq(up.out, 0 + 1, take))
        /\ AllKnown(n, SubSeq(up.out, take + 1, Len(up.out)))
    BY <1>1, <1>2, <2>2, KnownStretch
  <2>4. AllKnown(n, up.buffer \o SubSeq(up.out, 1, take))
    BY <1>1, <1>2, <2>2, <2>3, KnownJoin
  <2> QED BY <2>1, <2>3, <2>4
<1>6. CASE Seals /\ up'.pc # "revoke"
  <2>1. /\ up.pc = "send" /\ up.yields # <<>> /\ up'.buffer = up.buffer
        /\ up'.out = Seal(up.counter, up.yields[1].final, up.yields[1].bytes)
    BY <1>6, SealsKeeps
  <2>2. Uploading
    BY <2>1 DEF Uploading
  <2> DEFINE j == up.counter
             y == up.yields[1]
  <2>3. 1 \in 1..Len(up.yields) /\ Done + 1 = j /\ j \in 1..Count(n)
    <3>1. /\ Given <= Count(n) /\ Count(n) \in Nat /\ Done \in Nat
          /\ Len(up.yields) \in Nat /\ Len(up.yields) # 0
      BY <2>1, <2>2, RechunkNumbers, UploadFields DEF RechunkInv
    <3>2. Given = Done + Len(up.yields) /\ Done = j - 1
      BY DEF Given, Done
    <3> QED BY <1>1, <3>1, <3>2
  <2>4. y = Yield(Piece(n, Done + 1), Done + 1 = Count(n))
    BY <2>2, <2>3 DEF RechunkInv
  <2>5. y.final = (j = Count(n)) /\ y.bytes = Piece(n, j)
    BY <2>3, <2>4 DEF Yield
  <2>6. up'.out = Sealed(n)[j]
    <3>1. Sealed(n)[j] = Seal(j, j = Count(n), Piece(n, j))
      BY <2>3 DEF Sealed
    <3> QED BY <2>1, <2>5, <3>1, Zenon
  <2>7. AllKnown(n, Sealed(n)[j])
    <3>1. j \in 1..Count(n) /\ j # 0
      BY <2>3, SealedIs
    <3> HIDE DEF j, n
    <3>2. \A k \in 1..Len(Sealed(n)[j]) :
            Sealed(n)[j][k].bound.chunk = j /\ Genuine(n, Sealed(n)[j][k])
      BY <1>1, <3>1, SealedTokens
    <3> QED BY <3>1, <3>2 DEF AllKnown, Known
  <2> QED BY <1>2, <2>1, <2>6, <2>7
<1>7. CASE Seals /\ up'.pc = "revoke"
  <2>1. \/ up' = Throws(up, "cancelled")
        \/ \E y : up' = [up EXCEPT !.out = Seal(up.counter, y.final, y.bytes),
                                   !.counter = @ + 1, !.yields = Tail(@)]
    BY <1>7 DEF Seals, Up
  <2>2. up.pc = "send"
    BY <1>7 DEF Seals
  <2>3. up' = Throws(up, "cancelled")
    BY <1>7, <2>1, <2>2 DEF UpTyped, Upload
  <2> QED BY <1>3, <2>3, ThrowsFields DEF PartKept
<1>8. CASE SourceFails
  BY <1>3, <1>8, ThrowsFields DEF SourceFails, PartKept
<1>9. CASE NotReserved
  <2>1. up' = [up EXCEPT !.pc = "failed", !.why = "init"]
    BY <1>9 DEF NotReserved
  <2> QED BY <1>3, <2>1 DEF PartKept, UpTyped, Upload
<1>10. CASE SenderDeletes
  <2>1. up' = [up EXCEPT !.pc = "deleting"]
    BY <1>10 DEF SenderDeletes, Up
  <2> QED BY <1>3, <2>1 DEF PartKept, UpTyped, Upload
<1>11. Reads \/ Fills \/ SourceEnds \/ Flushes => PartKept
  BY ReadsKeeps, FillsKeeps, SourceEndsKeeps, FlushesKeeps
<1> QED BY <1>3, <1>4, <1>5, <1>6, <1>7, <1>8, <1>9, <1>10, <1>11 DEF Local

LEMMA GenuineStep ==
    ASSUME UpTyped, RestTyped, RechunkInv, GenuineInv, [Next]_vars
    PROVE  GenuineInv'
<1> DEFINE n == up.size
<1>1. /\ n \in Sizes /\ up.out \in Seq(Token) /\ up.buffer \in Seq(Token)
      /\ server.blob \in Seq(Token)
  BY ServerFields
<1>2. /\ AllKnown(n, up.out) /\ AllKnown(n, up.buffer) /\ AllKnown(n, server.blob)
      /\ \A r \in net : AllKnown(n, r.body) /\ r \in Request
  BY DEF GenuineInv, RestTyped
<1>3. ASSUME up'.size = up.size, AllKnown(n, up'.out), AllKnown(n, up'.buffer),
             AllKnown(n, server'.blob), \A r \in net' : AllKnown(n, r.body)
      PROVE  GenuineInv'
  BY <1>3 DEF GenuineInv
<1>4. AllKnown(n, <<>>)
  BY DEF AllKnown
<1> HIDE DEF n
<1>5. CASE Local
  <2>1. up'.size = up.size /\ net' = net /\ server'.blob = server.blob
    BY <1>5, LocalFields, LocalServer
  <2>2. AllKnown(n, up'.out) /\ AllKnown(n, up'.buffer)
    BY <1>5, GenuineLocal DEF n
  <2> QED BY <1>2, <1>3, <2>1, <2>2
<1>6. CASE Aside
  BY <1>2, <1>3, <1>6 DEF Aside
<1>7. CASE Received
  <2>1. up'.size = up.size /\ net' = net /\ server' = server
    BY <1>7, ReceivedFields
  <2>2. CASE PartAnswered
    BY <1>2, <1>3, <1>4, <2>1, <2>2, PartFields
  <2>3. CASE CommitAnswered \/ RevokeAnswered
    <3>1. \/ up' = [up EXCEPT !.pc = "stored", !.fetch = "none"]
          \/ up' = Throws(up, "commit")
          \/ up' = [up EXCEPT !.pc = IF @ = "revoke" THEN "failed" ELSE "deleted",
                              !.fetch = "none"]
      BY <2>3 DEF CommitAnswered, RevokeAnswered, GivesUp
    <3>2. up'.out = up.out /\ up'.buffer = up.buffer
      BY <3>1, ThrowsFields DEF UpTyped, Upload
    <3> QED BY <1>2, <1>3, <2>1, <3>2
  <2> QED BY <1>7, <2>2, <2>3 DEF Received
<1>8. CASE PartStopped
  <2>1. /\ up'.size = up.size /\ up'.out = up.out /\ up'.buffer = up.buffer
        /\ server' = server
    BY <1>8, ThrowsFields DEF PartStopped
  <2>2. \A s \in net' : s \in net \/ \E r \in net : s = Unheard(r)
    BY <1>8 DEF PartStopped, PartAborted
  <2>3. \A s \in net' : AllKnown(n, s.body)
    BY <1>2, <2>2, UnheardFields
  <2> QED BY <1>2, <1>3, <2>1, <2>3
<1>9. CASE \E op \in {"part", "commit", "revoke"} : Asks(op) /\ Asking(op)
  <2>1. PICK op \in {"part", "commit", "revoke"} : Asks(op)
    BY <1>9
  <2>2. /\ up'.size = up.size /\ up'.out = up.out /\ up'.buffer = up.buffer
        /\ server' = server
        /\ \A r \in net' : r \in net \/ r.body = (IF op = "part" THEN up.buffer ELSE <<>>)
    BY <2>1, AsksFields
  <2>3. \A r \in net' : AllKnown(n, r.body)
    BY <1>2, <1>4, <2>2
  <2> QED BY <1>2, <1>3, <2>2, <2>3
<1>10. ASSUME NEW r \in net PROVE AllKnown(n, After(r).blob)
  <2>1. CASE After(r).blob = server.blob
    BY <1>2, <2>1
  <2>2. CASE After(r).blob = server.blob \o r.body
    <3>1. r.body \in Seq(Token)
      BY <1>2, RequestFields
    <3> QED BY <1>1, <1>2, <2>2, <3>1, KnownJoin
  <2> QED BY <2>1, <2>2, AfterPart
<1>11. CASE \E r \in net : Answers(r)
  <2>1. PICK r \in net : Answers(r)
    BY <1>11
  <2>2. /\ up'.size = up.size /\ up'.out = up.out /\ up'.buffer = up.buffer
        /\ server' = After(r) /\ net' = net \ {r}
    BY <2>1, AnswersFields
  <2> QED BY <1>2, <1>3, <1>10, <2>2
<1>12. CASE Failed
  <2>1. PICK r \in net : Ruined(r) /\ Missed(r)
    BY <1>12, FailsFields
  <2>2. /\ up'.size = up.size /\ up'.out = up.out /\ up'.buffer = up.buffer
        /\ net' \subseteq (net \ {r}) \cup {Unheard(r)}
    BY <2>1 DEF Missed
  <2>3. \A s \in net' : AllKnown(n, s.body)
    BY <1>2, <2>2, UnheardFields
  <2>4. AllKnown(n, server'.blob)
    <3>1. CASE server' \in {server, After(r)}
      BY <1>2, <1>10, <3>1
    <3>2. CASE Halved(server', r)
      <4>1. PICK k \in 1..Len(r.body) : server'.blob = server.blob \o SubSeq(r.body, 1, k)
        BY <3>2 DEF Halved
      <4>2. r.body \in Seq(Token) /\ Len(r.body) \in Nat
        BY <1>2, RequestFields, LenProperties
      <4>3. k \in Nat /\ k <= Len(r.body) /\ 0 \in Nat /\ 0 + 1 = 1
        BY <4>2
      <4>4. SubSeq(r.body, 0 + 1, k) \in Seq(Token) /\ AllKnown(n, SubSeq(r.body, 0 + 1, k))
        BY <1>2, <4>2, <4>3, KnownStretch
      <4>5. AllKnown(n, server.blob \o SubSeq(r.body, 1, k))
        BY <1>1, <1>2, <4>3, <4>4, KnownJoin
      <4> QED BY <4>1, <4>5
    <3> QED BY <2>1, <3>1, <3>2 DEF Ruined
  <2> QED BY <1>2, <1>3, <2>2, <2>3, <2>4
<1> QED BY <1>5, <1>6, <1>7, <1>8, <1>9, <1>11, <1>12, StepsAre

LEMMA GenuineInit == Init => GenuineInv
<1> SUFFICES ASSUME Init PROVE GenuineInv
  OBVIOUS
<1>1. up.out = <<>> /\ up.buffer = <<>> /\ server.blob = <<>> /\ net = {}
  BY DEF Init
<1> QED BY <1>1 DEF GenuineInv, AllKnown

\* Chunks opened so far, and how many of them have been written.
Opened == down.counter - 1

Written == Opened - Len(sink.feed)

\* Where the receiver is, what it has done and what its destination is like.
PhaseInv ==
    /\ down.pc \in {"idle", "header", "meta"} => down.counter = 0
    /\ down.counter = 0 => down.last = FALSE
    /\ down.pc \in {"dest", "chunk", "end", "push", "drain"} => down.counter >= 1
    /\ down.pc \in {"idle", "header", "meta", "dest"} => sink.state = "none"
    /\ down.pc \in {"chunk", "end", "push", "drain"} => sink.state \in {"open", "broken"}
    /\ sink.state = "none" =>
         sink.feed = <<>> /\ sink.written = <<>> /\ down.counter <= 1
    /\ sink.state # "none" => down.counter >= 1
    /\ sink.state = "closed" => down.pc = "done" /\ down.last = TRUE /\ sink.feed = <<>>
    /\ down.pc = "drain" => down.last = TRUE
    /\ down.pc \notin {"idle", "failed"} => server.conn # "none"
    /\ down.counter >= 1 => down.right = TRUE /\ server.conn # "none"

\* What was written is the file up to some chunk.
HandedInv == \E m \in 0..Count(up.size) : sink.written = Begun(up.size, m)

\* What is written and what waits are the chunks opened, in order.
FeedInv ==
    sink.state \in {"open", "broken", "closed"} =>
        /\ Opened <= Count(up.size) /\ Len(sink.feed) <= Opened
        /\ sink.written = Begun(up.size, Written)
        /\ \A j \in 1..Len(sink.feed) : sink.feed[j] = Piece(up.size, Written + j)

\* The last chunk is the last of the file, and of the blob if no part was appended
\* by halves; the ciphertext in hand is what the cursor has just passed.
EndInv ==
    /\ down.counter >= 1 /\ down.last = TRUE =>
         /\ Opened = Count(up.size)
         /\ "torn" \notin lost => down.pos = Len(server.blob)
    /\ down.pc = "end" => \E a \in 0..down.pos :
                            down.sealed = SubSeq(server.blob, a + 1, down.pos)

\* A response that was closed and not counted is one the receiver has not had
\* whole: it gave up, or takes a stretch for all there is.
CountInv ==
    /\ {"torn", "end"} \cap lost = {}
    /\ server.conn = "cut" \/ (server.conn = "settled" /\ server.counted = FALSE)
    => down.pc = "failed" \/ (down.eof = TRUE /\ down.arrived < Len(server.blob))

\* The invariant from which DeliveredWhole follows.
DeliverInv == PhaseInv /\ HandedInv /\ FeedInv /\ EndInv

\* What is stored does not change once it is being read.
Standing ==
    /\ up'.size = up.size /\ lost \subseteq lost'
    /\ server.conn # "none" => server'.blob = server.blob

LEMMA StandingStep == ExactInv /\ [Next]_vars => Standing
<1> SUFFICES ASSUME ExactInv, [Next]_vars PROVE Standing
  OBVIOUS
<1>1. UpTyped /\ RestTyped /\ CallInv /\ CommitInv /\ OrderInv
  BY TypesAre DEF ExactInv, UploadInv, FailureInv
<1>2. ASSUME NEW r \in net, server.conn # "none" PROVE ~(r.op = "part" /\ r.index = server.next)
  <2>1. Complete
    BY <1>1, <1>2 DEF CommitInv
  <2>2. server.next = up.index /\ up.index \in Nat /\ (r.op = "part" => r.index < up.index)
    BY <1>1, <2>1, ServerFields DEF OrderInv
  <2> QED BY <2>2
<1>3. CASE Local
  BY <1>1, <1>3, LocalFields, LocalServer DEF Standing
<1>4. CASE Aside
  BY <1>4 DEF Aside, Standing
<1>5. CASE Received
  BY <1>1, <1>5, ReceivedFields DEF Standing
<1>6. CASE PartStopped
  BY <1>1, <1>6, ThrowsFields DEF PartStopped, Standing
<1>7. CASE Failed
  <2>1. PICK r \in net : Ruined(r) /\ Missed(r)
    BY <1>1, <1>7, FailsFields
  <2>2. server.conn # "none" => server'.blob = server.blob
    <3>1. server' \in {server, After(r)} \/ Halved(server', r)
      BY <2>1 DEF Ruined
    <3> QED BY <1>1, <1>2, <3>1, AfterPart DEF Halved
  <2> QED BY <2>1, <2>2 DEF Missed, Standing
<1>8. CASE \E op \in {"part", "commit", "revoke"} : Asks(op) /\ Asking(op)
  BY <1>1, <1>8, AsksFields DEF Standing
<1>9. CASE \E r \in net : Answers(r)
  <2>1. PICK r \in net : Answers(r)
    BY <1>9
  <2>2. server' = After(r) /\ up'.size = up.size /\ lost' = lost
    BY <1>1, <2>1, AnswersFields
  <2> QED BY <1>1, <1>2, <2>2, AfterPart DEF Standing
<1> QED BY <1>1, <1>3, <1>4, <1>5, <1>6, <1>7, <1>8, <1>9, StepsAre

\* There is a response if there was one.
ResponseKept == server'.conn = "none" <=> server.conn = "none"

\* The receiver stays where it is.
DownKept ==
    /\ down'.pc = down.pc /\ down'.counter = down.counter /\ down'.right = down.right
    /\ down'.last = down.last /\ down'.pos = down.pos /\ down'.sealed = down.sealed

\* Nothing of the download is moved.
Kept ==
    /\ DownKept /\ sink' = sink
    /\ ResponseKept

\* The download is given up.
Ended ==
    /\ down'.pc = "failed" /\ down'.counter = down.counter /\ down'.right = down.right
    /\ down'.last = down.last /\ down'.pos = down.pos
    /\ sink'.state = (IF sink.state = "none" THEN "none" ELSE "aborted")
    /\ sink'.feed = <<>> /\ sink'.written = sink.written
    /\ ResponseKept

\* The steps that move the receiver or its destination.
Moving == \/ Starts \/ HeaderRead \/ MetaRead \/ Chosen \/ ChunkRead \/ ChunkOpened
          \/ Pushed \/ Writes \/ WriteFails \/ Drained

\* The catch of storedReceive.
LEMMA StopsEnds == RestTyped /\ Stops => Ended
<1> SUFFICES ASSUME RestTyped, Stops PROVE Ended
  OBVIOUS
<1>1. down \in Download /\ server \in Record /\ SinkTyped
  BY DEF RestTyped
<1>2. /\ down' = [down EXCEPT !.pc = "failed"]
      /\ sink' = [sink EXCEPT !.state = IF @ = "none" THEN @ ELSE "aborted", !.feed = <<>>]
      /\ server' = [server EXCEPT !.conn = IF @ = "open" THEN "cut" ELSE @]
  BY DEF Stops, SinkAborted, Closed
<1>3. /\ down'.pc = "failed" /\ down'.counter = down.counter /\ down'.right = down.right
      /\ down'.last = down.last /\ down'.pos = down.pos
  BY <1>1, <1>2 DEF Download
<1>4. /\ sink'.state = (IF sink.state = "none" THEN "none" ELSE "aborted")
      /\ sink'.feed = <<>> /\ sink'.written = sink.written
  BY <1>1, <1>2 DEF SinkTyped
<1>5. ResponseKept
  BY <1>1, <1>2 DEF Record, ResponseKept
<1> QED BY <1>3, <1>4, <1>5 DEF Ended

\* Every step keeps the download, ends it or moves it.
LEMMA OthersKeep ==
    ASSUME UpTyped, RestTyped, [Next]_vars
    PROVE  Kept \/ Ended \/ Moving
<1>0. down \in Download /\ server \in Record
  BY DEF RestTyped
<1>1. ASSUME UNCHANGED <<down, sink>>,
             server' = server \/ (\E s : server' = [server EXCEPT !.slot = s])
               \/ (\E r \in net : server' = After(r))
      PROVE  Kept
  <2>1. ResponseKept
    BY <1>0, <1>1, AfterTyped DEF Record, ResponseKept
  <2> QED BY <1>1, <2>1 DEF Kept, DownKept, ResponseKept
<1>2. CASE Uploads \/ NotReserved \/ SourceFails \/ SenderCancels \/ SenderDeletes
             \/ ReceiverCancels \/ ServerDrops \/ UNCHANGED vars
  <2>1. UNCHANGED <<down, sink>>
        /\ (server' = server \/ (\E s : server' = [server EXCEPT !.slot = s]))
    BY <1>2 DEF Uploads, NotReserved, SourceFails, SenderCancels, SenderDeletes,
       ReceiverCancels, ServerDrops, vars, Reserved, Pushes, Seals, Reads, Fills, SourceEnds,
       Flushes, PartSent, PartAborted, PartAnswered, CommitSent, CommitAnswered, RevokeSent,
       RevokeAnswered, Up, Asks
  <2> QED BY <1>1, <2>1
<1>3. CASE Answered \/ Late
  <2>1. UNCHANGED <<down, sink>> /\ \E r \in net : server' = After(r)
    BY <1>3 DEF Answered, Late, Answers
  <2> QED BY <1>1, <2>1
<1>4. CASE Failed
  <2>1. UNCHANGED <<down, sink>>
    BY <1>4 DEF Failed, RequestFails, LateFails
  <2>2. PICK r \in net : server'.conn \in {server.conn, After(r).conn}
    BY <1>4, FailsFields DEF Ruined
  <2>3. server'.conn = server.conn
    BY <2>2, AfterTyped
  <2> QED BY <2>1, <2>3 DEF Kept, DownKept, ResponseKept
<1>5. CASE Settles
  <2>1. PICK whole : server' = [server EXCEPT !.conn = "settled", !.counted = whole,
                                              !.slot = IF whole THEN "gone" ELSE @]
    BY <1>5 DEF Settles
  <2>2. server.conn # "none" /\ UNCHANGED <<down, sink>>
    BY <1>5 DEF Settles
  <2>3. server'.conn = "settled"
    BY <1>0, <2>1 DEF Record
  <2> QED BY <2>2, <2>3 DEF Kept, DownKept, ResponseKept
<1>6. CASE Arrives
  <2>1. /\ (\E k : down' = [down EXCEPT !.arrived = @ + k]) \/ down' = [down EXCEPT !.eof = TRUE]
        /\ UNCHANGED <<sink, server>>
    BY <1>6 DEF Arrives, Down
  <2>2. DownKept
    BY <1>0, <2>1 DEF Download, DownKept
  <2> QED BY <2>1, <2>2 DEF Kept, ResponseKept
<1>7. CASE Cut \/ CutAtEnd \/ CloseFails
  <2>1. /\ server' = [server EXCEPT !.conn = IF @ = "open" THEN "cut" ELSE @]
        /\ \/ down' = [down EXCEPT !.eof = TRUE] /\ UNCHANGED sink
           \/ UNCHANGED <<down, sink>>
           \/ down' = [down EXCEPT !.pc = "failed"] /\ sink' = SinkAborted
    BY <1>7 DEF Cut, CutAtEnd, CloseFails, Closed
  <2>2. ResponseKept
    BY <1>0, <2>1 DEF Record, ResponseKept
  <2>3. CASE (down' = down \/ down' = [down EXCEPT !.eof = TRUE]) /\ UNCHANGED sink
    <3>1. DownKept
      BY <1>0, <2>3 DEF Download, DownKept
    <3> QED BY <2>2, <2>3, <3>1 DEF Kept, ResponseKept
  <2>4. CASE down' = [down EXCEPT !.pc = "failed"] /\ sink' = SinkAborted
    <3>1. /\ down'.pc = "failed" /\ down'.counter = down.counter /\ down'.right = down.right
          /\ down'.last = down.last /\ down'.pos = down.pos
      BY <1>0, <2>4 DEF Download
    <3>2. /\ sink'.state = (IF sink.state = "none" THEN "none" ELSE "aborted")
          /\ sink'.feed = <<>> /\ sink'.written = sink.written
      BY <2>4 DEF SinkTyped, RestTyped, SinkAborted
    <3> QED BY <2>2, <3>1, <3>2 DEF Ended
  <2> QED BY <2>1, <2>3, <2>4
<1>8. CASE ReceiverAborted
  BY <1>8, StopsEnds DEF ReceiverAborted
<1> QED BY <1>2, <1>3, <1>4, <1>5, <1>6, <1>7, <1>8
        DEF Next, Downloads, Users, Faulty, Moving, Failed

LEMMA DeliverKept ==
    ASSUME DeliverInv, Standing, Kept
    PROVE  DeliverInv'
<1>1. /\ DownKept /\ sink' = sink /\ up'.size = up.size
      /\ server.conn # "none" => server'.blob = server.blob
      /\ server'.conn = "none" <=> server.conn = "none"
      /\ lost \subseteq lost'
  BY DEF Kept, Standing, ResponseKept
<1>2. Opened' = Opened /\ Written' = Written
  BY <1>1 DEF Opened, Written, DownKept
<1>3. PhaseInv' /\ HandedInv'
  BY <1>1 DEF DeliverInv, PhaseInv, HandedInv, DownKept
<1>4. FeedInv'
  BY <1>1, <1>2 DEF DeliverInv, FeedInv
<1>5. down.pc = "end" \/ down.counter >= 1 => server'.blob = server.blob
  <2>1. down.pc = "end" \/ down.counter >= 1 => server.conn # "none"
    BY DEF DeliverInv, PhaseInv
  <2> QED BY <1>1, <2>1
<1>6. EndInv'
  BY <1>1, <1>2, <1>5 DEF DeliverInv, EndInv, DownKept
<1> QED BY <1>3, <1>4, <1>6 DEF DeliverInv

LEMMA DeliverEnded ==
    ASSUME DeliverInv, Standing, Ended
    PROVE  DeliverInv'
<1>1. /\ down'.pc = "failed" /\ down'.counter = down.counter /\ down'.right = down.right
      /\ down'.last = down.last /\ down'.pos = down.pos
      /\ sink'.state = (IF sink.state = "none" THEN "none" ELSE "aborted")
      /\ sink'.feed = <<>> /\ sink'.written = sink.written
      /\ ResponseKept /\ up'.size = up.size /\ lost \subseteq lost'
      /\ server.conn # "none" => server'.blob = server.blob
  BY DEF Ended, Standing
<1>2. PhaseInv'
  BY <1>1 DEF DeliverInv, PhaseInv, ResponseKept
<1>3. HandedInv' /\ FeedInv'
  BY <1>1 DEF DeliverInv, HandedInv, FeedInv
<1>4. EndInv'
  <2>1. down.counter >= 1 => server'.blob = server.blob
    BY <1>1 DEF DeliverInv, PhaseInv
  <2>2. Opened' = Opened
    BY <1>1 DEF Opened
  <2> QED BY <1>1, <2>1, <2>2 DEF DeliverInv, EndInv
<1> QED BY <1>2, <1>3, <1>4 DEF DeliverInv

\* Until a chunk is opened, nothing is in the destination.
LEMMA DeliverBefore ==
    ASSUME DeliverInv, Standing, PhaseInv',
           sink.state = "none", sink' = sink, down'.pc # "end",
           down'.counter = 0 \/ down'.last = FALSE
    PROVE  DeliverInv'
<1>1. HandedInv' /\ FeedInv'
  BY DEF DeliverInv, HandedInv, FeedInv, Standing
<1>2. EndInv'
  BY DEF EndInv
<1> QED BY <1>1, <1>2 DEF DeliverInv

LEMMA DeliverStarts ==
    ASSUME RestTyped, DeliverInv, Standing, Starts
    PROVE  DeliverInv'
<1>1. down \in Download /\ server \in Record /\ down.pc = "idle" /\ sink' = sink
  BY DEF RestTyped, Starts
<1>2. /\ down'.pc \in {"header", "failed"} /\ down'.counter = down.counter
      /\ down'.last = down.last
      /\ \/ down'.pc = "header" /\ server'.conn = "open"
         \/ down'.pc = "failed" /\ server' = server
  BY <1>1 DEF Starts, Download, Record
<1>3. down.counter = 0 /\ down.last = FALSE /\ sink.state = "none"
      /\ sink.feed = <<>> /\ sink.written = <<>>
  BY <1>1 DEF DeliverInv, PhaseInv
<1>4. PhaseInv'
  BY <1>1, <1>2, <1>3 DEF PhaseInv
<1> QED BY <1>1, <1>2, <1>3, <1>4, DeliverBefore

LEMMA DeliverHeader ==
    ASSUME RestTyped, DeliverInv, Standing, HeaderRead
    PROVE  DeliverInv'
<1>1. CASE Stops
  BY <1>1, StopsEnds, DeliverEnded
<1>2. CASE Down([down EXCEPT !.pc = "meta", !.pos = @ + 1])
  <2>1. down \in Download /\ down.pc = "header" /\ sink' = sink /\ server' = server
    BY <1>2 DEF RestTyped, HeaderRead, Down
  <2>2. down'.pc = "meta" /\ down'.counter = down.counter /\ down'.last = down.last
    BY <1>2, <2>1 DEF Down, Download
  <2>3. /\ down.counter = 0 /\ down.last = FALSE /\ sink.state = "none"
        /\ sink.feed = <<>> /\ sink.written = <<>> /\ server.conn # "none"
    BY <2>1 DEF DeliverInv, PhaseInv
  <2>4. PhaseInv'
    BY <2>1, <2>2, <2>3 DEF PhaseInv
  <2> QED BY <2>1, <2>2, <2>3, <2>4, DeliverBefore
<1> QED BY <1>1, <1>2 DEF HeaderRead

LEMMA DeliverMeta ==
    ASSUME RestTyped, DeliverInv, Standing, MetaRead
    PROVE  DeliverInv'
<1>1. CASE Stops
  BY <1>1, StopsEnds, DeliverEnded
<1>2. CASE ~Stops
  <2>1. /\ down' = [down EXCEPT !.pc = "dest", !.pos = @ + SealedMeta, !.counter = 1]
        /\ down.right /\ down.pc = "meta" /\ sink' = sink /\ server' = server
        /\ down \in Download
    BY <1>2 DEF RestTyped, MetaRead, Down
  <2>2. down'.pc = "dest" /\ down'.counter = 1 /\ down'.last = down.last
        /\ down'.right = down.right /\ down.right = TRUE
    BY <2>1 DEF Download
  <2>3. /\ down.last = FALSE /\ sink.state = "none"
        /\ sink.feed = <<>> /\ sink.written = <<>> /\ server.conn # "none"
    BY <2>1 DEF DeliverInv, PhaseInv
  <2>4. PhaseInv'
    BY <2>1, <2>2, <2>3 DEF PhaseInv
  <2> QED BY <2>1, <2>2, <2>3, <2>4, DeliverBefore
<1> QED BY <1>1, <1>2

LEMMA DeliverChosen ==
    ASSUME UpTyped, RestTyped, DeliverInv, Standing, Chosen
    PROVE  DeliverInv'
<1>1. CASE "receiver" \in aborted
  <2>1. /\ down \in Download /\ server \in Record /\ SinkTyped /\ down.pc = "dest"
        /\ down' = [down EXCEPT !.pc = "failed"] /\ sink' = [sink EXCEPT !.state = "aborted"]
        /\ server' = [server EXCEPT !.conn = IF @ = "open" THEN "cut" ELSE @]
    BY <1>1 DEF RestTyped, Chosen, Closed
  <2>2. /\ down'.pc = "failed" /\ down'.counter = down.counter /\ down'.last = down.last
        /\ down'.right = down.right /\ down'.pos = down.pos
        /\ sink'.state = "aborted" /\ sink'.feed = sink.feed /\ sink'.written = sink.written
    BY <2>1 DEF Download, SinkTyped
  <2>3. down.counter >= 1 /\ server.conn # "none" /\ down.right = TRUE
    BY <2>1 DEF DeliverInv, PhaseInv
  <2>4. server'.conn # "none"
    BY <2>1, <2>3 DEF Record
  <2>5. PhaseInv'
    <3>1. down.counter # 0
      BY <2>3
    <3> QED BY <2>2, <2>3, <2>4, <3>1 DEF PhaseInv
  <2>6. HandedInv' /\ FeedInv'
    BY <2>2 DEF DeliverInv, HandedInv, FeedInv, Standing
  <2>7. EndInv'
    <3>1. server'.blob = server.blob /\ Opened' = Opened
      BY <2>2, <2>3 DEF Standing, Opened
    <3> QED BY <2>2, <3>1 DEF DeliverInv, EndInv, Standing
  <2> QED BY <2>5, <2>6, <2>7 DEF DeliverInv
<1>2. CASE "receiver" \notin aborted
  <2>1. /\ down \in Download /\ SinkTyped /\ down.pc = "dest" /\ server' = server
        /\ down' = [down EXCEPT !.pc = "chunk"] /\ sink' = [sink EXCEPT !.state = "open"]
    BY <1>2 DEF RestTyped, Chosen
  <2>2. /\ down'.pc = "chunk" /\ down'.counter = down.counter /\ down'.last = down.last
        /\ down'.right = down.right /\ down'.pos = down.pos
        /\ sink'.state = "open" /\ sink'.feed = sink.feed /\ sink'.written = sink.written
    BY <2>1 DEF Download, SinkTyped
  <2>3. /\ down.counter >= 1 /\ down.counter <= 1 /\ server.conn # "none" /\ down.right = TRUE
        /\ sink.feed = <<>> /\ sink.written = <<>>
    BY <2>1 DEF DeliverInv, PhaseInv
  <2>4. down.counter = 1
    BY <2>1, <2>3 DEF Download
  <2>5. PhaseInv'
    BY <2>1, <2>2, <2>3, <2>4 DEF PhaseInv
  <2>6. up'.size = up.size /\ up.size \in Sizes /\ up.size \in Nat
        /\ Count(up.size) \in Nat /\ Count(up.size) >= 1
    BY UploadFields, SealedIs DEF Standing
  <2>7. HandedInv'
    BY <2>2, <2>6 DEF DeliverInv, HandedInv
  <2>8. FeedInv'
    <3>1. Opened' = 0 /\ Len(sink'.feed) = 0 /\ Written' = 0
      <4>1. Opened' = 0 /\ sink'.feed = <<>>
        BY <2>2, <2>3, <2>4 DEF Opened
      <4>2. Len(sink'.feed) = 0
        BY <4>1
      <4>3. Written' = Opened' - Len(sink'.feed)
        BY DEF Written
      <4> QED BY <4>1, <4>2, <4>3
    <3>2. Begun(up.size, 0) = <<>>
      BY <2>6, BegunIs
    <3>3. sink'.written = Begun(up'.size, Written')
      BY <2>2, <2>3, <2>6, <3>1, <3>2
    <3> QED BY <2>6, <3>1, <3>3 DEF FeedInv
  <2>9. EndInv'
    BY <2>1, <2>2 DEF DeliverInv, EndInv, Standing, Opened, PhaseInv
  <2> QED BY <2>5, <2>7, <2>8, <2>9 DEF DeliverInv
<1> QED BY <1>1, <1>2

LEMMA DeliverChunk ==
    ASSUME RestTyped, ReadingOK, DeliverInv, Standing, ChunkRead
    PROVE  DeliverInv'
<1>1. CASE Stops
  <2>1. RestTyped /\ Stops
    BY <1>1
  <2> QED BY <2>1, StopsEnds, DeliverEnded
<1>2. CASE ~Stops
  <2> DEFINE take == Least(ChunkSize + Tag, Queued)
             x == Took(ChunkSize + Tag)
  <2>1. /\ down' = [down EXCEPT !.pc = "end", !.sealed = x, !.pos = @ + take]
        /\ down.pc = "chunk" /\ sink' = sink /\ server' = server /\ down \in Download
    BY <1>2 DEF RestTyped, ChunkRead, Down
  <2>2. /\ take \in Nat /\ down.pos + take <= Len(server.blob)
        /\ x = SubSeq(server.blob, down.pos + 1, down.pos + take)
    <3>1. ChunkSize + Tag \in Nat
      BY StoredAssumption DEF StoredAssumption, Tag
    <3> DEFINE m == ChunkSize + Tag
    <3> HIDE DEF m
    <3>2. m \in Nat
      BY <3>1 DEF m
    <3>3. Least(m, Queued) \in Nat /\ down.pos + Least(m, Queued) <= Len(server.blob)
      BY <3>2, TookIsASeq
    <3>4. Took(m) = SubSeq(server.blob, down.pos + 1, down.pos + Least(m, Queued))
      BY DEF Took
    <3> QED BY <3>3, <3>4 DEF m
  <2> HIDE DEF take, x
  <2>3. /\ down'.pc = "end" /\ down'.sealed = x /\ down'.pos = down.pos + take
        /\ down'.counter = down.counter /\ down'.last = down.last /\ down'.right = down.right
    BY <2>1 DEF Download
  <2>4. PhaseInv' /\ HandedInv'
    BY <2>1, <2>3 DEF DeliverInv, PhaseInv, HandedInv, Standing
  <2>5. Opened' = Opened /\ Written' = Written
    BY <2>1, <2>3 DEF Opened, Written
  <2>6. FeedInv'
    BY <2>1, <2>5 DEF DeliverInv, FeedInv, Standing
  <2>7. down.pos \in Nat /\ Len(server.blob) \in Nat
    BY RestFields
  <2>8. down.counter >= 1 /\ down.last = TRUE /\ "torn" \notin lost => down'.pos = Len(server.blob)
    <3>1. ASSUME down.pos = Len(server.blob) PROVE down.pos + take = Len(server.blob)
      BY <2>2, <2>7, <3>1
    <3> QED BY <2>3, <3>1 DEF DeliverInv, EndInv
  <2>9. \E a \in 0..down'.pos : down'.sealed = SubSeq(server'.blob, a + 1, down'.pos)
    <3>1. down.pos \in 0..down'.pos
      BY <2>2, <2>3, <2>7
    <3>2. down'.sealed = SubSeq(server'.blob, down.pos + 1, down'.pos)
      BY <2>1, <2>2, <2>3
    <3> QED BY <3>1, <3>2
  <2>10. EndInv'
    BY <2>1, <2>3, <2>5, <2>8, <2>9 DEF DeliverInv, EndInv, Standing
  <2> QED BY <2>4, <2>6, <2>10 DEF DeliverInv
<1> QED BY <1>1, <1>2

\* The chunk goes to the end of the feed.
LEMMA FeedGrows ==
    ASSUME NEW s \in Seq(Bytes), NEW x \in Bytes, NEW t, t = Append(s, x)
    PROVE  /\ Len(s) \in Nat /\ Len(t) = Len(s) + 1
           /\ \A j \in 1..Len(s) : t[j] = s[j]
           /\ t[Len(s) + 1] = x
BY AppendProperties

\* The chunk that opened is the next one of the file.
LEMMA DeliverOpened ==
    ASSUME UpTyped, RestTyped, ReadingOK, StreamInv, CommitInv, GenuineInv, DeliverInv, Standing,
           ChunkOpened
    PROVE  DeliverInv'
<1> DEFINE final == Queued = 0
           n == up.size
           i == down.counter
           body == down.sealed[1].of
<1>1. CASE Stops
  <2>1. RestTyped /\ Stops
    BY <1>1
  <2> QED BY <2>1, StopsEnds, DeliverEnded
<1>2. CASE ~Stops
  <2>1. /\ Opens(down.sealed, i, final)
        /\ down' = [down EXCEPT !.pc = "push", !.counter = @ + 1, !.last = final,
                                !.sealed = <<>>]
        /\ sink' = [sink EXCEPT !.feed = Append(@, body)]
        /\ server' = server /\ down.pc = "end" /\ down \in Download /\ SinkTyped
    BY <1>2 DEF RestTyped, ChunkOpened
  <2> HIDE DEF final, body
  <2>2. /\ down'.pc = "push" /\ down'.counter = i + 1 /\ down'.last = final
        /\ down'.right = down.right /\ down'.pos = down.pos
    BY <2>1 DEF Download
  <2>3. /\ sink'.state = sink.state /\ sink'.written = sink.written
        /\ sink'.feed = Append(sink.feed, body)
    BY <2>1 DEF SinkTyped
  <2>4. /\ i \in Nat /\ i >= 1 /\ down.right = TRUE /\ server.conn # "none"
        /\ sink.state \in {"open", "broken"}
    BY <2>1, RestFields DEF DeliverInv, PhaseInv
  <2>5. n \in Sizes /\ n \in Nat /\ n' = n
    BY UploadFields DEF Standing
  <2>6. "torn" \notin lost => server.blob = Container(n)
    BY <2>4 DEF CommitInv, StreamInv
  <2>7. PICK a \in 0..down.pos : down.sealed = SubSeq(server.blob, a + 1, down.pos)
    BY <2>1 DEF DeliverInv, EndInv
  <2>8. /\ down.pos \in Nat /\ down.pos <= Len(server.blob) /\ a \in Nat /\ a <= down.pos
        /\ sink.feed \in Seq(Bytes) /\ server.blob \in Seq(Token)
    BY <2>7, RestFields DEF ReadingOK
  <2>9. final \in BOOLEAN
    BY DEF final
  <2>10. /\ i \in 1..Count(n) /\ body = Piece(n, i)
         /\ final = (i = Count(n))
         /\ final /\ "torn" \notin lost => down.pos = Len(server.blob)
    <3> DEFINE b == down.pos
               x == SubSeq(server.blob, a + 1, b)
    <3>1. x \in Seq(Token) /\ AllKnown(n, x)
      BY <2>8, KnownStretch DEF GenuineInv
    <3>2. Opens(x, i, final) /\ body = x[1].of
      BY <2>1, <2>7 DEF body
    <3>3. IsChunk(n, x, i, final)
      <4> HIDE DEF x, n, i
      <4> QED BY <2>4, <2>5, <2>9, <3>1, <3>2, OpensIs DEF n, i
    <3>4. /\ i \in 1..Count(n) /\ x[1].of = Piece(n, i) /\ final = (i = Count(n))
      BY <3>3 DEF IsChunk
    <3>5. ASSUME final, "torn" \notin lost PROVE b = Len(server.blob)
      <4>1. server.blob = Container(n) /\ i = Count(n) /\ final = TRUE
        BY <2>6, <2>9, <3>4, <3>5
      <4>2. IsChunk(n, SubSeq(Container(n), a + 1, b), Count(n), TRUE)
        BY <3>3, <4>1
      <4> HIDE DEF b, n
      <4>3. b = Len(Container(n))
        BY <2>5, <2>8, <4>1, <4>2, LastOpens DEF b, n
      <4> QED BY <4>1, <4>3
    <3> QED BY <3>2, <3>4, <3>5
  <2> HIDE DEF n, i
  <2>11. PhaseInv'
    <3>1. down'.counter >= 1 /\ down'.counter # 0
      BY <2>2, <2>4
    <3>2. sink'.state \in {"open", "broken"} /\ server'.conn # "none" /\ down'.right = TRUE
      BY <2>1, <2>2, <2>3, <2>4
    <3> QED BY <2>2, <3>1, <3>2 DEF PhaseInv
  <2>12. HandedInv'
    BY <2>3 DEF DeliverInv, HandedInv, Standing
  <2> DEFINE l == Len(sink.feed)
             w == Written
  <2>13. /\ Opened = i - 1 /\ l <= i - 1 /\ sink.written = Begun(n, w)
         /\ \A j \in 1..l : sink.feed[j] = Piece(n, w + j)
         /\ w = (i - 1) - l
    BY <2>4 DEF DeliverInv, FeedInv, Opened, Written, n, i
  <2>14. /\ l \in Nat /\ Len(sink'.feed) = l + 1
         /\ \A j \in 1..l : sink'.feed[j] = sink.feed[j]
         /\ sink'.feed[l + 1] = body
    <3>1. body \in Bytes
      <4>1. i \in Nat /\ i >= 1 /\ (i - 1) * ChunkSize <= n
        <5>1. i \in 1..Count(n) /\ n \in Sizes
          BY <2>5, <2>10 DEF n
        <5>2. (i - 1) * ChunkSize <= n
          BY <5>1, SealedIs
        <5> QED BY <2>4, <5>2
      <4>2. n \in Sizes
        BY <2>5 DEF n
      <4>3. Piece(n, i) \in Bytes
        BY <4>1, <4>2, PieceIs
      <4> QED BY <2>10, <4>3
    <3>2. sink.feed \in Seq(Bytes)
      BY <2>8
    <3> QED BY <2>3, <3>1, <3>2, FeedGrows
  <2>15. Opened' = i /\ Written' = w
    <3>1. Opened' = down'.counter - 1
      BY DEF Opened
    <3>2. Opened' = i
      BY <2>2, <2>4, <3>1
    <3>3. Written' = Opened' - Len(sink'.feed)
      BY DEF Written
    <3>4. i - (l + 1) = (i - 1) - l
      BY <2>4, <2>14
    <3> QED BY <2>13, <2>14, <3>2, <3>3, <3>4
  <2> HIDE DEF l, w
  <2>16. \A j \in 1..Len(sink'.feed) : sink'.feed[j] = Piece(n, w + j)
    <3>1. w + (l + 1) = i
      BY <2>4, <2>13, <2>14
    <3>2. sink'.feed[l + 1] = Piece(n, w + (l + 1))
      BY <2>10, <2>14, <3>1
    <3>3. \A j \in 1..l + 1 : j \in 1..l \/ j = l + 1
      BY <2>14
    <3> QED BY <2>13, <2>14, <3>2, <3>3
  <2>17. FeedInv'
    <3>1. up'.size = n
      BY <2>5 DEF n
    <3>2. Opened' <= Count(n) /\ Len(sink'.feed) <= Opened'
      <4>1. i <= Count(n)
        <5>1. Count(n) \in Nat
          BY <2>5, SealedIs DEF n
        <5> QED BY <2>10, <5>1
      <4>2. l + 1 <= i
        BY <2>4, <2>13, <2>14
      <4> QED BY <2>14, <2>15, <4>1, <4>2
    <3>3. sink'.written = Begun(n, Written')
      BY <2>3, <2>13, <2>15
    <3>4. \A j \in 1..Len(sink'.feed) : sink'.feed[j] = Piece(n, Written' + j)
      BY <2>15, <2>16
    <3> QED BY <3>1, <3>2, <3>3, <3>4 DEF FeedInv
  <2>18. EndInv'
    <3>1. up'.size = n
      BY <2>5 DEF n
    <3>2. down'.last = TRUE => /\ Opened' = Count(n)
                               /\ "torn" \notin lost' => down'.pos = Len(server'.blob)
      BY <2>1, <2>2, <2>10, <2>15 DEF Standing
    <3> QED BY <2>1, <2>2, <3>1, <3>2 DEF DeliverInv, EndInv
  <2> QED BY <2>11, <2>12, <2>17, <2>18 DEF DeliverInv
<1> QED BY <1>1, <1>2

LEMMA DeliverPushed ==
    ASSUME RestTyped, DeliverInv, Standing, Pushed
    PROVE  DeliverInv'
<1>1. /\ down' = [down EXCEPT !.pc = IF down.last THEN "drain" ELSE "chunk"]
      /\ down.pc = "push" /\ sink' = sink /\ server' = server /\ down \in Download
  BY DEF RestTyped, Pushed, Down
<1>2. /\ down'.pc = (IF down.last THEN "drain" ELSE "chunk")
      /\ down'.counter = down.counter /\ down'.last = down.last /\ down'.right = down.right
      /\ down'.pos = down.pos /\ down.last \in BOOLEAN
  BY <1>1 DEF Download
<1>3. /\ down'.pc \in {"drain", "chunk"} /\ (down'.pc = "drain" => down.last = TRUE)
  BY <1>2
<1>4. PhaseInv' /\ HandedInv'
  BY <1>1, <1>2, <1>3 DEF DeliverInv, PhaseInv, HandedInv, Standing
<1>5. Opened' = Opened /\ Written' = Written
  BY <1>1, <1>2 DEF Opened, Written
<1>6. FeedInv' /\ EndInv'
  BY <1>1, <1>2, <1>3, <1>5 DEF DeliverInv, FeedInv, EndInv, Standing
<1> QED BY <1>4, <1>6 DEF DeliverInv

\* The first of the feed is taken.
LEMMA FeedShrinks ==
    ASSUME NEW s \in Seq(Bytes), s # <<>>, NEW t, t = Tail(s)
    PROVE  /\ Len(s) \in Nat /\ Len(s) >= 1 /\ Len(t) = Len(s) - 1
           /\ \A j \in 1..Len(s) - 1 : t[j] = s[j + 1]
<1>1. Len(s) \in Nat /\ Len(s) >= 1
  BY EmptySeq
<1>2. Len(t) = Len(s) - 1 /\ \A j \in 1..Len(t) : t[j] = s[j + 1]
  BY <1>1, HeadTailProperties
<1> QED BY <1>1, <1>2

\* The next chunk is written.
LEMMA DeliverWrites ==
    ASSUME UpTyped, RestTyped, DeliverInv, Standing, Writes
    PROVE  DeliverInv'
<1> DEFINE n == up.size
           l == Len(sink.feed)
           w == Written
           o == Opened
<1>1. /\ sink' = [sink EXCEPT !.written = @ \o sink.feed[1], !.feed = Tail(@)]
      /\ sink.state = "open" /\ sink.feed # <<>> /\ down' = down /\ server' = server
      /\ SinkTyped /\ down \in Download
  BY DEF RestTyped, Writes
<1>2. /\ sink'.state = "open" /\ sink'.written = sink.written \o sink.feed[1]
      /\ sink'.feed = Tail(sink.feed)
  BY <1>1 DEF SinkTyped
<1>3. n \in Sizes /\ up'.size = n /\ Count(n) \in Nat
  BY UploadFields, SealedIs DEF Standing
<1>4. PhaseInv'
  BY <1>1, <1>2 DEF DeliverInv, PhaseInv
<1>5. /\ down.counter >= 1 /\ down.counter \in Nat
  BY <1>1 DEF DeliverInv, PhaseInv, Download
<1>6. /\ o \in Nat /\ o <= Count(n) /\ l <= o /\ w = o - l
      /\ sink.written = Begun(n, w)
      /\ \A j \in 1..l : sink.feed[j] = Piece(n, w + j)
  <2>1. o \in Nat
    BY <1>5 DEF Opened
  <2>2. w = o - l
    BY DEF Written
  <2>3. /\ o <= Count(n) /\ l <= o
        /\ sink.written = Begun(n, w)
        /\ \A j \in 1..l : sink.feed[j] = Piece(n, w + j)
    BY <1>1 DEF DeliverInv, FeedInv
  <2> QED BY <2>1, <2>2, <2>3
<1>7. /\ l \in Nat /\ l >= 1 /\ Len(sink'.feed) = l - 1
      /\ \A j \in 1..l - 1 : sink'.feed[j] = sink.feed[j + 1]
  BY <1>1, <1>2, FeedShrinks DEF SinkTyped
<1>8. Opened' = o /\ Written' = o - (l - 1)
  BY <1>1, <1>7 DEF Opened, Written
<1> HIDE DEF n, l, w, o
<1>9. w \in 0..Count(n) /\ w < Count(n) /\ w + 1 \in 0..Count(n) /\ o - (l - 1) = w + 1
  BY <1>3, <1>6, <1>7
<1>10. sink'.written = Begun(n, w + 1)
  <2>1. 1 \in 1..l
    BY <1>7
  <2>2. sink.feed[1] = Piece(n, w + 1)
    BY <1>6, <2>1
  <2>3. Begun(n, w) \o Piece(n, w + 1) = Begun(n, w + 1)
    BY <1>3, <1>9, BegunIs
  <2> QED BY <1>2, <1>6, <2>2, <2>3, Zenon
<1>11. HandedInv'
  BY <1>3, <1>9, <1>10 DEF HandedInv
<1>12. FeedInv'
  <2>1. ASSUME NEW j \in 1..l - 1 PROVE sink'.feed[j] = Piece(n, (w + 1) + j)
    <3>1. j + 1 \in 1..l /\ w + (j + 1) = (w + 1) + j
      BY <1>7, <1>9
    <3>2. sink'.feed[j] = Piece(n, w + (j + 1))
      BY <1>6, <1>7, <3>1
    <3> QED BY <3>1, <3>2, Zenon
  <2>2. Written' = w + 1
    BY <1>8, <1>9
  <2>3. Opened' <= Count(n) /\ Len(sink'.feed) <= Opened'
    BY <1>6, <1>7, <1>8
  <2>4. \A j \in 1..Len(sink'.feed) : sink'.feed[j] = Piece(n, Written' + j)
    BY <1>7, <2>1, <2>2
  <2> QED BY <1>3, <1>10, <2>2, <2>3, <2>4 DEF FeedInv
<1>13. EndInv'
  <2>1. up'.size = up.size /\ Opened' = Opened /\ lost \subseteq lost'
    BY <1>3, <1>8 DEF n, o, Standing
  <2> QED BY <1>1, <2>1 DEF DeliverInv, EndInv
<1> QED BY <1>4, <1>11, <1>12, <1>13 DEF DeliverInv

LEMMA DeliverBroken ==
    ASSUME RestTyped, DeliverInv, Standing, WriteFails \/ Drained
    PROVE  DeliverInv'
<1>1. CASE Stops
  <2>1. RestTyped /\ Stops
    BY <1>1
  <2> QED BY <2>1, StopsEnds, DeliverEnded
<1>2. CASE ~Stops
  <2>1. down \in Download /\ SinkTyped
    BY DEF RestTyped
  <2>2. /\ server' = server
        /\ down'.counter = down.counter /\ down'.last = down.last /\ down'.right = down.right
        /\ down'.pos = down.pos /\ down'.sealed = down.sealed
        /\ sink'.written = sink.written /\ sink'.feed = sink.feed
        /\ \/ sink.state = "open" /\ sink'.state = "broken" /\ down'.pc = down.pc
           \/ /\ down.pc = "drain" /\ down'.pc = "done"
              /\ sink.state = "open" /\ sink'.state = "closed" /\ sink.feed = <<>>
    <3>1. CASE WriteFails
      <4>1. /\ sink' = [sink EXCEPT !.state = "broken"] /\ sink.state = "open"
            /\ down' = down /\ server' = server
        BY <3>1 DEF WriteFails
      <4> QED BY <2>1, <4>1 DEF SinkTyped
    <3>2. CASE Drained
      <4>1. /\ down.pc = "drain" /\ sink.state = "open" /\ sink.feed = <<>>
            /\ down' = [down EXCEPT !.pc = "done"]
            /\ sink' = [sink EXCEPT !.state = "closed"] /\ server' = server
        BY <1>2, <3>2 DEF Drained
      <4> QED BY <2>1, <4>1 DEF SinkTyped, Download
    <3> QED BY <3>1, <3>2
  <2>3. PhaseInv' /\ HandedInv'
    BY <2>2 DEF DeliverInv, PhaseInv, HandedInv, Standing
  <2>4. Opened' = Opened /\ Written' = Written
    BY <2>2 DEF Opened, Written
  <2>5. FeedInv'
    BY <2>2, <2>4 DEF DeliverInv, FeedInv, Standing
  <2>6. EndInv'
    <3>1. down'.pc = "end" => down.pc = "end"
      BY <2>2
    <3> QED BY <2>2, <2>4, <3>1 DEF DeliverInv, EndInv, Standing
  <2> QED BY <2>3, <2>5, <2>6 DEF DeliverInv
<1> QED BY <1>1, <1>2

\* Every step keeps what was delivered a beginning of the file.
LEMMA DeliverStep == ExactInv /\ GenuineInv /\ DeliverInv /\ [Next]_vars => DeliverInv'
<1> SUFFICES ASSUME ExactInv, GenuineInv, DeliverInv, [Next]_vars PROVE DeliverInv'
  OBVIOUS
<1>1. UpTyped /\ RestTyped /\ ReadingOK /\ StreamInv /\ CommitInv
  BY TypesAre DEF ExactInv, UploadInv, FailureInv
<1>2. Standing
  BY StandingStep
<1>3. Kept \/ Ended \/ Moving
  BY <1>1, OthersKeep
<1>4. CASE Kept
  BY <1>2, <1>4, DeliverKept
<1>5. CASE Ended
  BY <1>2, <1>5, DeliverEnded
<1>6. CASE Starts \/ HeaderRead \/ MetaRead \/ Chosen
  BY <1>1, <1>2, <1>6, DeliverStarts, DeliverHeader, DeliverMeta, DeliverChosen
<1>7. CASE ChunkRead \/ ChunkOpened
  BY <1>1, <1>2, <1>7, DeliverChunk, DeliverOpened
<1>8. CASE Pushed \/ Writes
  BY <1>1, <1>2, <1>8, DeliverPushed, DeliverWrites
<1>9. CASE WriteFails \/ Drained
  BY <1>1, <1>2, <1>9, DeliverBroken
<1> QED BY <1>3, <1>4, <1>5, <1>6, <1>7, <1>8, <1>9 DEF Moving

\* What of the download a step that is not one of its ends leaves as it was.
LEMMA OthersStay ==
    ASSUME UpTyped, RestTyped, [Next]_vars, down'.pc # "failed", ~Starts, ~Settles, ~Cut, ~CutAtEnd
    PROVE  /\ down.pc # "failed"
           /\ server'.conn = server.conn /\ server'.counted = server.counted
           /\ \/ down'.eof = down.eof /\ down'.arrived = down.arrived
              \/ Arrives /\ server' = server
<1>0. down \in Download /\ server \in Record
  BY DEF RestTyped
<1>1. CASE Uploads \/ NotReserved \/ SourceFails \/ SenderCancels \/ SenderDeletes
             \/ ReceiverCancels \/ ServerDrops \/ UNCHANGED vars
  <2>1. UNCHANGED <<down, sink>>
        /\ (server' = server \/ (\E s : server' = [server EXCEPT !.slot = s]))
    BY <1>1 DEF Uploads, NotReserved, SourceFails, SenderCancels, SenderDeletes,
       ReceiverCancels, ServerDrops, vars, Reserved, Pushes, Seals, Reads, Fills, SourceEnds,
       Flushes, PartSent, PartAborted, PartAnswered, CommitSent, CommitAnswered, RevokeSent,
       RevokeAnswered, Up, Asks
  <2> QED BY <1>0, <2>1 DEF Record
<1>2. CASE Answered \/ Late
  <2>1. UNCHANGED <<down, sink>> /\ \E r \in net : server' = After(r)
    BY <1>2 DEF Answered, Late, Answers
  <2> QED BY <2>1, AfterTyped
<1>3. CASE Failed
  <2>1. down' = down
    BY <1>3 DEF Failed, RequestFails, LateFails
  <2>2. PICK r \in net : \E s \in {server, After(r)} :
                           server'.conn = s.conn /\ server'.counted = s.counted
    BY <1>3, FailsFields DEF Ruined
  <2> QED BY <2>1, <2>2, AfterTyped
<1>4. ~Stops /\ ~CloseFails /\ ~ReceiverAborted
  <2>1. Stops \/ CloseFails => down' = [down EXCEPT !.pc = "failed"]
    BY DEF Stops, CloseFails
  <2>2. ~Stops /\ ~CloseFails
    BY <1>0, <2>1 DEF Download
  <2> QED BY <2>2 DEF ReceiverAborted
<1>5. CASE Arrives
  <2>1. /\ (\E k : down' = [down EXCEPT !.arrived = @ + k]) \/ down' = [down EXCEPT !.eof = TRUE]
        /\ server' = server
    BY <1>5 DEF Arrives, Down
  <2>2. down'.pc = down.pc
    BY <1>0, <2>1 DEF Download
  <2> QED BY <1>5, <2>1, <2>2
<1>6. CASE HeaderRead
  <2>1. down.pc = "header" /\ server' = server /\ down' = [down EXCEPT !.pc = "meta", !.pos = @ + 1]
    BY <1>4, <1>6 DEF HeaderRead, Down
  <2> QED BY <1>0, <2>1 DEF Download
<1>7. CASE MetaRead
  <2>1. down.pc = "meta" /\ server' = server
        /\ down' = [down EXCEPT !.pc = "dest", !.pos = @ + SealedMeta, !.counter = 1]
    BY <1>4, <1>7 DEF MetaRead, Down
  <2> QED BY <1>0, <2>1 DEF Download
<1>8. CASE Chosen
  <2>1. "receiver" \notin aborted
    <3>1. "receiver" \in aborted => down' = [down EXCEPT !.pc = "failed"]
      BY <1>8 DEF Chosen
    <3> QED BY <1>0, <3>1 DEF Download
  <2>2. down.pc = "dest" /\ server' = server /\ down' = [down EXCEPT !.pc = "chunk"]
    BY <1>8, <2>1 DEF Chosen
  <2> QED BY <1>0, <2>2 DEF Download
<1>9. CASE ChunkRead
  <2>1. down.pc = "chunk" /\ server' = server
        /\ \E x, k : down' = [down EXCEPT !.pc = "end", !.sealed = x, !.pos = k]
    BY <1>4, <1>9 DEF ChunkRead, Down
  <2>2. PICK x, k : down' = [down EXCEPT !.pc = "end", !.sealed = x, !.pos = k]
    BY <2>1
  <2> QED BY <1>0, <2>1, <2>2 DEF Download
<1>10. CASE ChunkOpened
  <2>1. down.pc = "end" /\ server' = server
        /\ \E k, l : down' = [down EXCEPT !.pc = "push", !.counter = k, !.last = l,
                                          !.sealed = <<>>]
    BY <1>4, <1>10, ZenonT(40) DEF ChunkOpened
  <2>2. PICK k, l : down' = [down EXCEPT !.pc = "push", !.counter = k, !.last = l,
                                         !.sealed = <<>>]
    BY <2>1
  <2> QED BY <1>0, <2>1, <2>2 DEF Download
<1>11. CASE Pushed
  <2>1. down.pc = "push" /\ server' = server /\ \E pc : down' = [down EXCEPT !.pc = pc]
    BY <1>11 DEF Pushed, Down
  <2> QED BY <1>0, <2>1 DEF Download
<1>12. CASE Writes \/ WriteFails
  BY <1>12 DEF Writes, WriteFails
<1>13. CASE Drained
  <2>1. down.pc = "drain" /\ server' = server /\ down' = [down EXCEPT !.pc = "done"]
    BY <1>4, <1>13 DEF Drained
  <2> QED BY <1>0, <2>1 DEF Download
<1> QED BY <1>1, <1>2, <1>3, <1>4, <1>5, <1>6, <1>7, <1>8, <1>9, <1>10, <1>11, <1>12, <1>13
        DEF Next, Downloads, Users, Faulty, Failed

\* What the receiver has had whole is counted, unless it is lost in a way that
\* nobody can know.
LEMMA CountStep ==
    ASSUME UpTyped, RestTyped, StrayInv, CountInv, Standing, [Next]_vars
    PROVE  CountInv'
<1> SUFFICES ASSUME {"torn", "end"} \cap lost' = {}, down'.pc # "failed",
                    server'.conn = "cut"
                      \/ (server'.conn = "settled" /\ server'.counted = FALSE)
             PROVE  down'.eof = TRUE /\ down'.arrived < Len(server'.blob)
  BY DEF CountInv
<1>0. down \in Download /\ server \in Record
  BY DEF RestTyped
<1>1. /\ {"torn", "end"} \cap lost = {} /\ server.stray = 0
      /\ server.conn # "none" => server'.blob = server.blob
  BY DEF Standing, StrayInv
<1>2. ASSUME down.pc # "failed",
             server.conn = "cut" \/ (server.conn = "settled" /\ server.counted = FALSE)
      PROVE  down.eof = TRUE /\ down.arrived < Len(server'.blob)
  BY <1>1, <1>2 DEF CountInv
<1>3. CASE Starts
  <2>1. /\ (\E r : down' = [down EXCEPT !.pc = "header", !.right = r])
             /\ server' = [server EXCEPT !.conn = "open"]
        \/ down' = [down EXCEPT !.pc = "failed"]
    BY <1>3 DEF Starts
  <2>2. server' = [server EXCEPT !.conn = "open"]
    BY <1>0, <2>1 DEF Download
  <2> QED BY <1>0, <2>2 DEF Record
<1>4. CASE Settles
  <2>1. PICK ended \in BOOLEAN :
          /\ server.conn = "cut" \/ (server.conn = "open" /\ ended)
          /\ server' = [server EXCEPT !.conn = "settled", !.counted = SettlesWhole(ended),
                                      !.slot = IF SettlesWhole(ended) THEN "gone" ELSE @]
          /\ down' = down
    BY <1>4 DEF Settles
  <2> DEFINE whole == SettlesWhole(ended)
  <2> HIDE DEF whole
  <2>2. server'.conn = "settled" /\ server'.counted = whole
    BY <1>0, <2>1 DEF Record, whole
  <2>3. ended = TRUE => whole = TRUE
    BY <1>1 DEF SettlesWhole, whole
  <2>4. server.conn = "cut"
    BY <2>1, <2>2, <2>3
  <2> QED BY <1>2, <2>1, <2>4
<1>5. CASE Cut
  <2>1. /\ down.arrived < Promised
        /\ down' = [down EXCEPT !.eof = TRUE] \/ down' = [down EXCEPT !.pc = "failed"]
        /\ server' = [server EXCEPT !.conn = IF @ = "open" THEN "cut" ELSE @]
    BY <1>5 DEF Cut, Closed
  <2>2. down' = [down EXCEPT !.eof = TRUE]
    BY <1>0, <2>1 DEF Download
  <2>3. down'.eof = TRUE /\ down'.arrived = down.arrived
    BY <1>0, <2>2 DEF Download
  <2>4. server'.blob = server.blob
    BY <1>0, <2>1 DEF Record
  <2>5. Promised = Len(server.blob)
    <3>1. Len(server.blob) \in Nat
      BY RestFields
    <3> QED BY <1>1, <3>1 DEF Promised
  <2> QED BY <2>1, <2>3, <2>4, <2>5
<1>6. CASE CutAtEnd
  <2>1. "end" \in lost'
    BY <1>6 DEF CutAtEnd
  <2> QED BY <2>1
<1>7. CASE ~(Starts \/ Settles \/ Cut \/ CutAtEnd)
  <2>1. /\ down.pc # "failed"
        /\ server'.conn = server.conn /\ server'.counted = server.counted
        /\ \/ down'.eof = down.eof /\ down'.arrived = down.arrived
           \/ Arrives /\ server' = server
    BY <1>7, OthersStay
  <2>3. down.eof = TRUE /\ down.arrived < Len(server'.blob)
    BY <1>2, <2>1
  <2>4. ~Arrives
    BY <2>3 DEF Arrives, Fetching
  <2> QED BY <2>1, <2>3, <2>4
<1> QED BY <1>3, <1>4, <1>5, <1>6, <1>7

LEMMA DeliverInit == Init => DeliverInv
<1> SUFFICES ASSUME Init PROVE DeliverInv
  OBVIOUS
<1>1. /\ down.pc = "idle" /\ down.counter = 0 /\ down.last = FALSE
      /\ sink.state = "none" /\ sink.written = <<>> /\ sink.feed = <<>>
      /\ server.conn = "none" /\ up.size \in Sizes
  BY DEF Init
<1>2. HandedInv
  <2>1. Begun(up.size, 0) = <<>> /\ Count(up.size) \in Nat
    BY <1>1, BegunIs, SealedIs
  <2>2. 0 \in 0..Count(up.size)
    BY <2>1
  <2> QED BY <1>1, <2>1, <2>2 DEF HandedInv
<1> QED BY <1>1, <1>2 DEF DeliverInv, PhaseInv, FeedInv, EndInv

\* The receiver's file is whole and in order, and was sealed under the passphrase
\* that was typed (stored.ts:218-229), whatever became of the blob: the download
\* never closes its destination on less.  It costs the transfer one of its reads
\* (routes.js:215-219), unless the connection was lost just before its end or a
\* part was appended by halves.
THEOREM DeliveriesAreWhole == Spec => []DeliveredWhole
<1> DEFINE Inv == ExactInv /\ GenuineInv /\ DeliverInv /\ CountInv
<1>1. Init => Inv
  <2>1. Init => server.conn = "none"
    BY DEF Init
  <2> QED BY <2>1, ExactInit, GenuineInit, DeliverInit DEF CountInv
<1>2. Inv /\ [Next]_vars => Inv'
  <2> SUFFICES ASSUME Inv, [Next]_vars PROVE Inv'
    OBVIOUS
  <2>1. UpTyped /\ RestTyped /\ RechunkInv /\ StrayInv /\ Standing
    BY TypesAre, StandingStep DEF ExactInv, UploadInv, FailureInv
  <2> QED BY <2>1, ExactStep, GenuineStep, DeliverStep, CountStep
<1>3. Inv => DeliveredWhole
  <2> SUFFICES ASSUME Inv PROVE DeliveredWhole
    OBVIOUS
  <2>1. up.size \in Sizes /\ up.size \in Nat /\ ReadingOK /\ RestTyped /\ UpTyped
    BY TypesAre, UploadFields DEF ExactInv, UploadInv, FailureInv
  <2> DEFINE n == up.size
  <2>2. PhaseInv /\ HandedInv /\ FeedInv /\ EndInv
    BY DEF DeliverInv
  <2>3. ASSUME sink.state = "closed"
        PROVE  /\ down.right /\ sink.written = File
               /\ server.conn = "settled" /\ {"torn", "end"} \cap lost = {}
                    => server.counted
    <3>1. /\ down.counter >= 1 /\ down.right = TRUE /\ down.last = TRUE /\ sink.feed = <<>>
      BY <2>2, <2>3 DEF PhaseInv
    <3>2. Opened = Count(n) /\ ("torn" \notin lost => down.pos = Len(server.blob))
      BY <2>2, <3>1 DEF EndInv
    <3>3. Written = Count(n)
      <4>1. Count(n) \in Nat /\ Len(sink.feed) = 0
        BY <2>1, <3>1, SealedIs
      <4> QED BY <3>2, <4>1 DEF Written
    <3>4. sink.written = File
      <4>1. sink.written = Begun(n, Count(n))
        BY <2>2, <2>3, <3>3 DEF FeedInv
      <4>2. Begun(n, Count(n)) = [k \in 1..n |-> k]
        BY <2>1, BegunIs
      <4> QED BY <4>1, <4>2 DEF File
    <3>5. ASSUME server.conn = "settled", {"torn", "end"} \cap lost = {} PROVE server.counted
      <4>1. down.pc = "done" /\ down.pos = Len(server.blob)
        BY <2>2, <2>3, <3>2, <3>5 DEF PhaseInv
      <4>2. ~(down.arrived < Len(server.blob))
        <5>1. down.pos <= down.arrived /\ down.pos \in Nat /\ down.arrived \in Nat
          BY <2>1, RestFields DEF ReadingOK
        <5> QED BY <4>1, <5>1
      <4>3. server.counted # FALSE
        BY <3>5, <4>1, <4>2 DEF CountInv
      <4>4. server.counted \in BOOLEAN
        BY <2>1 DEF RestTyped, Record
      <4> QED BY <4>3, <4>4
    <3> QED BY <3>1, <3>4, <3>5
  <2>4. IsPrefix(sink.written, IF down.right THEN File ELSE <<>>)
    <3>1. CASE down.right
      <4>1. PICK m \in 0..Count(n) : sink.written = Begun(n, m)
        BY <2>2 DEF HandedInv
      <4>2. IsPrefix(Begun(n, m), [k \in 1..n |-> k])
        BY <2>1, BegunIs
      <4> QED BY <3>1, <4>1, <4>2 DEF File
    <3>2. CASE ~down.right
      <4>1. sink.written = <<>>
        BY <2>1, <2>2, <3>2 DEF PhaseInv
      <4>2. IsPrefix(<<>>, <<>>)
        BY DEF IsPrefix
      <4> QED BY <3>2, <4>1, <4>2
    <3> QED BY <3>1, <3>2
  <2> QED BY <2>3, <2>4 DEF DeliveredWhole
<1> QED BY <1>1, <1>2, <1>3, PTL DEF Spec
=============================================================================
