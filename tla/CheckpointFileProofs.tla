------------------------ MODULE CheckpointFileProofs ------------------------
(***************************************************************************)
(* What the readers make of the files of a checkpoint, for every size of a *)
(* byte, every variable and every point at which a write may stop: a file  *)
(* found valid can be read, and unless the text is ambiguous what is read  *)
(* is what was written.                                                    *)
(***************************************************************************)
EXTENDS CheckpointFile, Iteration, SequenceTheorems

Items == [is : {"word", "number", "byte"}, val : Nat]

\* t is the beginning of w, but for a last number that may have lost digits.
Begins(t, w) ==
  /\ t \in Seq(Items) /\ w \in Seq(Items) /\ Len(t) <= Len(w)
  /\ \A i \in 1 .. Len(t) :
       \/ t[i] = w[i]
       \/ /\ cutShort /\ i = Len(t) /\ Len(t) < Len(w)
          /\ t[i].is = "number" /\ w[i].is = "number" /\ t[i].val # 0

\* What each kind of variable holds.
Contents ==
  CASE shape.kind = "pointer" -> BytesOf(shape)
    [] shape.kind = "alias"   -> {<<r>> : r \in References}
    [] shape.kind = "info"    -> Labels \X NumVariables

Valid == IF shape.kind = "info" THEN InfoValid(text) ELSE FileValid(text)

\* What restart leaves in memory.
Restored ==
  CASE shape.kind = "pointer" ->
         \E old \in BytesOf(shape) :
           memory = [before |-> old, after |-> PointerData(text, shape.bits, shape.num, old)]
    [] shape.kind = "alias"   -> memory = <<AliasReference(text)>>
    [] shape.kind = "info"    -> memory = InfoStream(text).nums

\* What each phase says of the file and of what was read from it.
FileInv ==
  /\ phase \in {"none", "written", "torn", "valid", "rejected", "restored"}
  /\ shape \in Shapes /\ wsFails \in BOOLEAN /\ cutShort \in BOOLEAN
  /\ phase # "none" => content \in Contents /\ Begins(text, WholeText)
  /\ phase \in {"none", "written"} => ~cutShort
  /\ phase = "written" => text = WholeText
  /\ phase \in {"valid", "restored"} => Valid
  /\ phase = "rejected" => ~Valid
  /\ phase = "restored" => Restored

----------------------------------------------------------------------------
(* Numbers *)

\* f is the function that defines Power.
IsPower(f) == f = [n \in 0 .. ByteBits |-> IF n = 0 THEN 1 ELSE 2 * f[n - 1]]

\* The powers of 2 up to that of a byte are numbers, and none is 0.
LEMMA PowerIs == Power \in [0 .. ByteBits -> Nat \ {0}]
  <1> DEFINE D == Nat \ {0}
             go == [i \in 1 .. ByteBits |-> [x \in D |-> 2 * x]]
  <1>1. ByteBits \in Nat
    BY ByteAssumption
  <1>2. go \in [1 .. ByteBits -> [D -> D]] /\ 1 \in D
    OBVIOUS
  <1> HIDE DEF go, D
  <1>3. PICK f \in [0 .. ByteBits -> D] : IsIterated(f, 1, go, ByteBits)
    BY <1>1, <1>2, Iterated
  <1>4. ASSUME NEW n \in 0 .. ByteBits
        PROVE  f[n] = IF n = 0 THEN 1 ELSE 2 * f[n - 1]
    <2>1. n # 0 => n \in 1 .. ByteBits /\ f[n - 1] \in D
      BY <1>1
    <2>2. n # 0 => go[n][f[n - 1]] = 2 * f[n - 1]
      BY <2>1 DEF go
    <2> QED BY <1>3, <2>2 DEF IsIterated
  <1>5. f = [n \in 0 .. ByteBits |-> f[n]]
    OBVIOUS
  <1>6. IsPower(f)
    BY <1>4, <1>5 DEF IsPower
  <1>7. Power = CHOOSE g : IsPower(g)
    BY DEF Power, IsPower
  <1>8. IsPower(Power)
    BY <1>6, <1>7, Zenon
  <1> DEFINE T == {n \in 0 .. ByteBits : Power[n] \in D}
  <1>9. 0 \in T
    BY <1>1, <1>2, <1>8 DEF IsPower
  <1>10. ASSUME NEW n \in 0 .. ByteBits - 1, n \in T PROVE n + 1 \in T
    <2>1. n + 1 \in 0 .. ByteBits /\ n + 1 # 0 /\ (n + 1) - 1 = n
      BY <1>1
    <2>2. Power[n + 1] = IF n + 1 = 0 THEN 1 ELSE 2 * Power[(n + 1) - 1]
      BY <1>8, <2>1 DEF IsPower
    <2> QED BY <1>10, <2>1, <2>2 DEF D
  <1> HIDE DEF T
  <1>11. 0 .. ByteBits \subseteq T
    BY <1>1, <1>9, <1>10, UpTo
  <1>12. \A n \in 0 .. ByteBits : Power[n] \in D
    BY <1>11 DEF T
  <1>13. Power = [n \in 0 .. ByteBits |-> Power[n]]
    BY <1>8 DEF IsPower
  <1> QED BY <1>12, <1>13 DEF D

\* The bytes that hold so many bits: all are begun.
LEMMA BytesAre ==
  ASSUME NEW b \in Nat
  PROVE  /\ BytesFor(b) \in Nat /\ (BytesFor(b) = 0 <=> b = 0)
         /\ \A i \in 1 .. BytesFor(b) : (i - 1) * ByteBits < b
  <1>1. ByteBits \in Nat \ {0}
    BY ByteAssumption
  <1>2. BytesFor(b) = (b + ByteBits - 1) \div ByteBits
    BY DEF BytesFor
  <1> DEFINE q == BytesFor(b)
  <1>3. q \in Nat
    BY <1>1, <1>2
  <1>4. q * ByteBits <= b + ByteBits - 1 /\ b + ByteBits - 1 < q * ByteBits + ByteBits
    BY <1>1, <1>2
  <1> HIDE DEF q
  <1>5. ASSUME NEW i \in 1 .. q PROVE (i - 1) * ByteBits < b
    BY <1>1, <1>3, <1>4, SMTT(30)
  <1>6. q = 0 <=> b = 0
    <2>1. q = 0 => b = 0
      BY <1>1, <1>3, <1>4
    <2>2. q # 0 => b # 0
      <3>1. q # 0 => 1 \in 1 .. q
        BY <1>3
      <3>2. q # 0 => (1 - 1) * ByteBits < b
        BY <1>5, <3>1
      <3> QED BY <1>1, <3>2
    <2> QED BY <2>1, <2>2
  <1> QED BY <1>3, <1>5, <1>6 DEF q

\* The mask of the last byte takes the low bits of one and leaves the others.
LEMMA MergedIs ==
  ASSUME NEW old \in Nat, NEW new \in Nat, NEW n \in 0 .. ByteBits
  PROVE  /\ LowBits(Merged(old, new, n), n) = LowBits(new, n)
         /\ Merged(old, new, n) - LowBits(Merged(old, new, n), n) = old - LowBits(old, n)
  <1> DEFINE m == Power[n]
  <1>1. m \in Nat \ {0}
    BY PowerIs
  <1> HIDE DEF m
  <1>2. ((old - (old % m)) + (new % m)) % m = new % m
    BY <1>1, SMTT(30)
  <1>3. old % m \in Nat /\ new % m \in Nat
    BY <1>1
  <1>4. ((old - (old % m)) + (new % m)) - (new % m) = old - (old % m)
    BY <1>3
  <1> QED BY <1>2, <1>4 DEF Merged, LowBits, m

----------------------------------------------------------------------------
(* Reading *)

\* The next item that is no white space.
LEMMA BeyondIs ==
  ASSUME NEW t \in Seq(Items), NEW at \in 1 .. Len(t) + 1, NEW p \in at .. Len(t) + 1,
         p = Len(t) + 1 \/ ~IsSpace(t[p]), \A q \in at .. p - 1 : IsSpace(t[q])
  PROVE  Beyond(t, at) = p
  <1> DEFINE Is(r) == /\ r = Len(t) + 1 \/ ~IsSpace(t[r])
                      /\ \A q \in at .. r - 1 : IsSpace(t[q])
  <1>1. \A r \in at .. Len(t) + 1 : Is(r) => r = p
    <2> SUFFICES ASSUME NEW r \in at .. Len(t) + 1, Is(r) PROVE r = p
      OBVIOUS
    <2>1. Len(t) \in Nat
      OBVIOUS
    <2>2. ~(r < p)
      BY <2>1
    <2>3. ~(p < r)
      BY <2>1
    <2> QED BY <2>1, <2>2, <2>3
  <1>2. Beyond(t, at) = CHOOSE r \in at .. Len(t) + 1 : Is(r)
    BY DEF Beyond
  <1>3. Is(p)
    OBVIOUS
  <1> HIDE DEF Is
  <1> QED BY <1>1, <1>2, <1>3

\* There is such an item, or the text ends.
LEMMA BeyondExists ==
  ASSUME NEW t \in Seq(Items), NEW at \in 1 .. Len(t) + 1
  PROVE  /\ Beyond(t, at) \in at .. Len(t) + 1
         /\ Beyond(t, at) = Len(t) + 1 \/ ~IsSpace(t[Beyond(t, at)])
         /\ \A q \in at .. Beyond(t, at) - 1 : IsSpace(t[q])
  <1> DEFINE T == {r \in at .. Len(t) + 1 : r = Len(t) + 1 \/ ~IsSpace(t[r])}
  <1>1. Len(t) \in Nat
    OBVIOUS
  <1>2. T \in SUBSET Nat /\ Len(t) + 1 \in T
    BY <1>1
  <1> HIDE DEF T
  <1>3. PICK p \in T : \A q \in T : p <= q
    BY <1>2, Least
  <1> USE DEF T
  <1>4. p \in at .. Len(t) + 1 /\ (p = Len(t) + 1 \/ ~IsSpace(t[p]))
    OBVIOUS
  <1>5. ASSUME NEW q \in at .. p - 1 PROVE IsSpace(t[q])
    <2>1. q \in at .. Len(t) + 1 /\ ~(p <= q)
      BY <1>1, <1>4
    <2> QED BY <1>3, <2>1
  <1> HIDE DEF T
  <1>6. Beyond(t, at) = p
    BY <1>4, <1>5, BeyondIs
  <1> QED BY <1>4, <1>5, <1>6

\* A stream before the end and at it, a failed one, and where one is that has
\* read up to p.
IsStream(s)          == DOMAIN s = {"at", "end", "ok", "nums"}
Reading(s, at, nums) == IsStream(s) /\ s.ok /\ ~s.end /\ s.at = at /\ s.nums = nums
Ended(s, at, nums)   == IsStream(s) /\ s.ok /\ s.end /\ s.at = at /\ s.nums = nums
Broken(s)            == IsStream(s) /\ ~s.ok
Passed(t, s, p, nums) ==
  /\ p > Len(t) => Ended(s, p, nums)
  /\ ~(p > Len(t)) => Reading(s, p, nums)

\* A failed stream stays one, and no number is read of one at its end.
LEMMA FailedStays ==
  ASSUME NEW t, NEW s, IsStream(s)
  PROVE  /\ Broken(Failed(s))
         /\ ~s.ok => Broken(Ws(t, s)) /\ \A count : ~s.ok => ~ReadBytes(t, s, count).ok
         /\ ~s.ok \/ s.end => Broken(ReadNumber(t, s))
  <1>1. Broken(Failed(s))
    BY DEF Failed, IsStream, Broken
  <1>2. ~s.ok => Ws(t, s) = Failed(s)
    BY DEF Ws
  <1>3. ~s.ok \/ s.end => ReadNumber(t, s) = Failed(s)
    BY DEF ReadNumber, Formatted
  <1>4. \A count : ~s.ok => ReadBytes(t, s, count) \in {s, Failed(s)}
    BY DEF ReadBytes
  <1>5. ~Failed(s).ok
    BY <1>1 DEF Broken
  <1> QED BY <1>1, <1>2, <1>3, <1>4, <1>5

\* std::ws
LEMMA WsIs ==
  ASSUME NEW t \in Seq(Items), NEW at \in 1 .. Len(t) + 1, NEW nums, wsFails \in BOOLEAN,
         NEW s
  PROVE  /\ Reading(s, at, nums) => Passed(t, Ws(t, s), Beyond(t, at), nums)
         /\ ~wsFails /\ Ended(s, at, nums) => Passed(t, Ws(t, s), Beyond(t, at), nums)
         /\ wsFails /\ Ended(s, at, nums) => Broken(Ws(t, s))
  <1> DEFINE p == Beyond(t, at)
             r == [s EXCEPT !.at = p, !.end = p > Len(t)]
  <1>1. p \in Nat /\ Len(t) \in Nat
    BY BeyondExists
  <1>2. /\ Reading(s, at, nums) => Ws(t, s) = r
        /\ ~wsFails /\ Ended(s, at, nums) => Ws(t, s) = r
        /\ wsFails /\ Ended(s, at, nums) => Ws(t, s) = Failed(s)
    BY DEF Ws, Reading, Ended
  <1> HIDE DEF p
  <1>3. IsStream(s) => /\ IsStream(r) /\ r.ok = s.ok /\ r.at = p /\ r.nums = s.nums
                       /\ r.end <=> p > Len(t)
    BY DEF IsStream
  <1>4. IsStream(s) => Broken(Failed(s))
    BY FailedStays
  <1> HIDE DEF r
  <1>5. IsStream(s) /\ s.ok /\ s.nums = nums => Passed(t, r, p, nums)
    BY <1>1, <1>3 DEF Passed, Reading, Ended
  <1> QED BY <1>2, <1>4, <1>5 DEF p, Reading, Ended

\* The next number.
LEMMA NumberIs ==
  ASSUME NEW t \in Seq(Items), NEW at \in 1 .. Len(t), NEW nums, t[at].is = "number",
         NEW s, Reading(s, at, nums)
  PROVE  Passed(t, ReadNumber(t, s), at + 1, Append(nums, t[at].val))
  <1> DEFINE n == Append(nums, t[at].val)
             r == [s EXCEPT !.at = at + 1, !.end = at = Len(t), !.nums = n]
  <1>1. ~IsSpace(t[at])
    BY DEF IsSpace
  <1>2. Beyond(t, at) = at
    BY <1>1, BeyondIs
  <1>3. ~(at > Len(t)) /\ (at + 1 > Len(t) <=> at = Len(t)) /\ Len(t) \in Nat /\ at \in Nat
    OBVIOUS
  <1>4. IsStream(s) /\ s.ok /\ ~s.end /\ s.at = at /\ s.nums = nums
    BY DEF Reading
  <1>5. ReadNumber(t, s) = r
    BY <1>2, <1>3, <1>4 DEF ReadNumber, Formatted
  <1> HIDE DEF n
  <1>6. IsStream(r) /\ r.ok = s.ok /\ r.at = at + 1 /\ r.nums = n /\ (r.end <=> at = Len(t))
    BY <1>4 DEF IsStream
  <1> HIDE DEF r
  <1> QED BY <1>3, <1>4, <1>5, <1>6 DEF Passed, Reading, Ended, n

\* A number and the white space after it, as every header field is read.
LEMMA FieldIs ==
  ASSUME NEW t \in Seq(Items), NEW at \in 1 .. Len(t), NEW nums, t[at].is = "number",
         wsFails \in BOOLEAN, NEW s, Reading(s, at, nums)
  PROVE  LET r == Ws(t, ReadNumber(t, s))
         IN  /\ at = Len(t) /\ wsFails => Broken(r)
             /\ ~(at = Len(t) /\ wsFails) =>
                  Passed(t, r, Beyond(t, at + 1), Append(nums, t[at].val))
  <1> DEFINE n == Append(nums, t[at].val)
             r == ReadNumber(t, s)
  <1>1. Passed(t, r, at + 1, n)
    BY NumberIs
  <1>2. at + 1 \in 1 .. Len(t) + 1 /\ (at + 1 > Len(t) <=> at = Len(t))
    OBVIOUS
  <1> HIDE DEF n, r
  <1>3. /\ Reading(r, at + 1, n) => Passed(t, Ws(t, r), Beyond(t, at + 1), n)
        /\ ~wsFails /\ Ended(r, at + 1, n) => Passed(t, Ws(t, r), Beyond(t, at + 1), n)
        /\ wsFails /\ Ended(r, at + 1, n) => Broken(Ws(t, r))
    BY <1>2, WsIs
  <1>4. at = Len(t) => Ended(r, at + 1, n)
    BY <1>1, <1>2 DEF Passed
  <1>5. at # Len(t) => Reading(r, at + 1, n)
    BY <1>1, <1>2 DEF Passed
  <1> QED BY <1>3, <1>4, <1>5 DEF n, r

\* No number follows: the text has ended.
LEMMA NoField ==
  ASSUME NEW t, NEW s, IsStream(s), ~s.ok \/ s.end
  PROVE  Broken(Ws(t, ReadNumber(t, s)))
  <1>1. Broken(ReadNumber(t, s))
    BY FailedStays
  <1> QED BY <1>1, FailedStays DEF Broken

\* From the end of a line to what begins the next.
LEMMA NextLine ==
  ASSUME NEW t, NEW w, Begins(t, w), NEW k \in 1 .. Len(w) - 1, k <= Len(t) + 1,
         w[k] = EndLine, w[k + 1].is # "byte"
  PROVE  /\ Len(t) > k => Beyond(t, k) = k + 1 /\ k + 1 \in 1 .. Len(t)
         /\ Len(t) <= k => Beyond(t, k) = Len(t) + 1
  <1>1. t \in Seq(Items) /\ Len(t) \in Nat /\ Len(w) \in Nat
    BY DEF Begins
  <1>2. k <= Len(t) => IsSpace(t[k])
    <2>1. EndLine.is = "byte" /\ EndLine.val \in Space
      BY DEF EndLine, Byte, Space
    <2>2. k <= Len(t) => t[k] = EndLine
      BY <1>1, <2>1 DEF Begins
    <2> QED BY <2>1, <2>2 DEF IsSpace
  <1>3. Len(t) > k => ~IsSpace(t[k + 1])
    BY <1>1 DEF Begins, IsSpace
  <1>4. CASE Len(t) > k
    BY <1>1, <1>2, <1>3, <1>4, BeyondIs
  <1>5. CASE Len(t) <= k
    BY <1>1, <1>2, <1>5, BeyondIs
  <1> QED BY <1>1, <1>4, <1>5

----------------------------------------------------------------------------
(* The header *)

\* w begins as the files of variables do.
HasHeader(w) ==
  /\ w \in Seq(Items) /\ Len(w) >= 9
  /\ w[1] = Word /\ w[2].is = "number" /\ w[4].is = "number" /\ w[6].is = "number"
  /\ w[3] = EndLine /\ w[5] = EndLine /\ w[7] = EndLine /\ w[8] = EndLine

\* Where the data starts, as the readers see it, and what they have read by then.
DataAt(t)  == Beyond(t, 7)
Fields(t)  == <<t[2].val, t[4].val, t[6].val>>

\* The stream is at p, or it can read no number any more.
Reaches(t, s, p, nums) ==
  /\ IsStream(s)
  /\ Len(t) >= p => Reading(s, p, nums)
  /\ Len(t) < p => ~s.ok \/ s.end

\* A field in the middle of a text: nothing after it, or what begins the next line.
LEMMA LineIs ==
  ASSUME NEW t, NEW w, Begins(t, w), NEW at \in 1 .. Len(w) - 2, NEW nums,
         w[at].is = "number", w[at + 1] = EndLine, w[at + 2].is # "byte",
         wsFails \in BOOLEAN, NEW s, Reaches(t, s, at, nums)
  PROVE  Reaches(t, Ws(t, ReadNumber(t, s)), at + 2, Append(nums, t[at].val))
  <1> DEFINE r == Ws(t, ReadNumber(t, s))
             n == Append(nums, t[at].val)
  <1>1. t \in Seq(Items) /\ Len(t) \in Nat /\ Len(w) \in Nat
    BY DEF Begins
  <1>2. CASE Len(t) < at
    <2>1. Broken(r)
      BY <1>2, NoField DEF Reaches
    <2> HIDE DEF r
    <2> QED BY <1>1, <1>2, <2>1 DEF Reaches, Broken, r
  <1>3. CASE Len(t) >= at
    <2>1. at \in 1 .. Len(t) /\ Reading(s, at, nums)
      BY <1>1, <1>3 DEF Reaches
    <2>2. t[at].is = "number"
      BY <2>1 DEF Begins
    <2>3. /\ at = Len(t) /\ wsFails => Broken(r)
          /\ ~(at = Len(t) /\ wsFails) => Passed(t, r, Beyond(t, at + 1), n)
      BY <1>1, <2>1, <2>2, FieldIs
    <2>4. at + 1 \in 1 .. Len(w) - 1 /\ at + 1 <= Len(t) + 1 /\ (at + 1) + 1 = at + 2
      BY <1>1, <2>1
    <2>5. w[(at + 1) + 1].is # "byte"
      BY <2>4
    <2>6. /\ Len(t) > at + 1 => Beyond(t, at + 1) = (at + 1) + 1
          /\ Len(t) <= at + 1 => Beyond(t, at + 1) = Len(t) + 1
      BY <2>4, <2>5, NextLine
    <2> HIDE DEF r, n
    <2>7. CASE Len(t) >= at + 2
      <3>1. Beyond(t, at + 1) = at + 2 /\ ~(at + 2 > Len(t)) /\ at # Len(t)
        BY <1>1, <2>4, <2>6, <2>7
      <3>2. Reading(r, at + 2, n)
        BY <2>3, <3>1 DEF Passed
      <3> QED BY <1>1, <2>7, <3>2 DEF Reaches, Reading, r, n
    <2>8. CASE Len(t) < at + 2
      <3>1. Beyond(t, at + 1) > Len(t)
        BY <1>1, <2>4, <2>6, <2>8
      <3>2. Ended(r, Beyond(t, at + 1), n) \/ Broken(r)
        BY <2>3, <3>1 DEF Passed
      <3>3. IsStream(r) /\ (~r.ok \/ r.end)
        BY <3>2 DEF Ended, Broken
      <3> QED BY <1>1, <2>8, <3>3 DEF Reaches, r, n
    <2> QED BY <1>1, <2>7, <2>8
  <1> QED BY <1>1, <1>2, <1>3

\* The word is read, or the text is empty.
LEMMA WordIs ==
  ASSUME NEW t \in Seq(Items), Len(t) >= 1 => t[1] = Word
  PROVE  Reaches(t, ReadWord(t, Opened), 2, << >>)
  <1> DEFINE r == ReadWord(t, Opened)
  <1>1. Opened.ok /\ ~Opened.end /\ Opened.at = 1 /\ Opened.nums = << >> /\ IsStream(Opened)
    BY DEF Opened, IsStream
  <1>2. Len(t) \in Nat
    OBVIOUS
  <1>3. CASE Len(t) = 0
    <2>1. Beyond(t, 1) > Len(t)
      <3>1. 1 \in 1 .. Len(t) + 1
        BY <1>2
      <3>2. Beyond(t, 1) \in 1 .. Len(t) + 1
        BY <3>1, BeyondExists
      <3> QED BY <1>2, <1>3, <3>2
    <2>2. r = Failed(Opened)
      BY <1>1, <2>1 DEF ReadWord, Formatted
    <2>3. Broken(r)
      BY <1>1, <2>2, FailedStays
    <2> HIDE DEF r
    <2> QED BY <1>2, <1>3, <2>3 DEF Reaches, Broken, r
  <1>4. CASE Len(t) >= 1
    <2> DEFINE s == Opened
               n == Opened.nums
               at == 1
               e == [s EXCEPT !.at = at + 1, !.end = at = Len(t), !.nums = n]
    <2>1. ~IsSpace(t[1]) /\ t[1].is = "word"
      BY <1>4 DEF IsSpace, Word
    <2>2. Beyond(t, 1) = 1
      BY <1>2, <1>4, <2>1, BeyondIs
    <2>3. ~(1 > Len(t))
      BY <1>2, <1>4
    <2>4. r = e
      BY <1>1, <2>1, <2>2, <2>3 DEF ReadWord, Formatted
    <2>5. IsStream(s) /\ s.ok /\ n = << >> /\ at \in 1 .. Len(t) /\ at + 1 = 2
      BY <1>1, <1>2, <1>4
    <2>6. (at = Len(t) <=> Len(t) < 2) /\ (at # Len(t) <=> Len(t) >= 2)
      BY <1>2, <1>4
    <2> HIDE DEF s, n, at
    <2>7. IsStream(e) /\ e.ok = s.ok /\ e.at = at + 1 /\ e.nums = n /\ (e.end <=> at = Len(t))
      BY <2>5 DEF IsStream
    <2> HIDE DEF e, r
    <2>8. Len(t) >= 2 => Reading(r, 2, << >>)
      BY <2>4, <2>5, <2>6, <2>7 DEF Reading
    <2> QED BY <2>4, <2>6, <2>7, <2>8 DEF Reaches, r
  <1> QED BY <1>2, <1>3, <1>4

\* Append on the short sequences of numbers read.
LEMMA Appended ==
  ASSUME NEW a, NEW b, NEW c
  PROVE  Append(<<a>>, b) = <<a, b>> /\ Append(<<a, b>>, c) = <<a, b, c>>
  <1> DEFINE S == {a, b, c}
             one == Append(<<a>>, b)
             two == Append(<<a, b>>, c)
  <1>1. <<a>> \in Seq(S) /\ <<a, b>> \in Seq(S) /\ <<a, b, c>> \in Seq(S) /\ b \in S /\ c \in S
    OBVIOUS
  <1>2. one \in Seq(S) /\ Len(one) = 2 /\ one[1] = a /\ one[2] = b
    BY <1>1, AppendProperties
  <1>3. two \in Seq(S) /\ Len(two) = 3 /\ two[1] = a /\ two[2] = b /\ two[3] = c
    BY <1>1, AppendProperties
  <1> HIDE DEF S, one, two
  <1>4. one = <<a, b>>
    BY <1>1, <1>2, SeqEqual
  <1>5. two = <<a, b, c>>
    BY <1>1, <1>3, SeqEqual
  <1> QED BY <1>4, <1>5 DEF one, two

\* Either the header is there, and the readers are at what follows it, or they
\* have failed.
LEMMA HeaderIs ==
  ASSUME NEW t, NEW w, Begins(t, w), HasHeader(w), wsFails \in BOOLEAN
  PROVE  /\ Len(t) >= 6 /\ (DataAt(t) <= Len(t) \/ ~wsFails) =>
              Passed(t, Header(t), DataAt(t), Fields(t))
         /\ ~(Len(t) >= 6 /\ (DataAt(t) <= Len(t) \/ ~wsFails)) => Broken(Header(t))
         /\ Len(t) >= 6 => DataAt(t) \in 7 .. Len(t) + 1
  <1> DEFINE word == ReadWord(t, Opened)
             flag == Ws(t, ReadNumber(t, word))
             bits == Ws(t, ReadNumber(t, flag))
             num  == Ws(t, ReadNumber(t, bits))
             p    == DataAt(t)
             h    == Header(t)
  <1>1. h = Ws(t, num)
    BY DEF Header
  <1>2. t \in Seq(Items) /\ Len(t) \in Nat /\ Len(w) \in Nat /\ Len(w) >= 9
    BY DEF Begins, HasHeader
  <1>3. Len(t) >= 6 => 6 \in 1 .. Len(t) /\ t[6].is = "number"
    BY <1>2 DEF Begins, HasHeader
  <1>4. Len(t) >= 1 => t[1] = Word
    BY <1>2 DEF Begins, HasHeader, Word
  <1>5. Reaches(t, word, 2, << >>)
    BY <1>2, <1>4, WordIs
  <1> HIDE DEF word, h
  <1>6. Reaches(t, flag, 4, <<t[2].val>>)
    <2>1. 2 \in 1 .. Len(w) - 2 /\ w[2].is = "number" /\ w[2 + 1] = EndLine
          /\ w[2 + 2].is # "byte"
      BY <1>2 DEF HasHeader
    <2>2. Reaches(t, flag, 2 + 2, Append(<< >>, t[2].val))
      BY <1>5, <2>1, LineIs
    <2> QED BY <2>2
  <1> HIDE DEF flag
  <1>7. Reaches(t, bits, 6, <<t[2].val, t[4].val>>)
    <2>1. 4 \in 1 .. Len(w) - 2 /\ w[4].is = "number" /\ w[4 + 1] = EndLine
          /\ w[4 + 2].is # "byte"
      BY <1>2 DEF HasHeader
    <2>2. Reaches(t, bits, 4 + 2, Append(<<t[2].val>>, t[4].val))
      BY <1>6, <2>1, LineIs
    <2>3. Append(<<t[2].val>>, t[4].val) = <<t[2].val, t[4].val>>
      BY Appended, Zenon
    <2>4. 4 + 2 = 6
      OBVIOUS
    <2> QED BY <2>2, <2>3, <2>4, Zenon
  <1> HIDE DEF bits
  <1>8. CASE Len(t) < 6
    <2>1. Broken(num)
      BY <1>7, <1>8, NoField DEF Reaches
    <2>2. Broken(h)
      BY <1>1, <2>1, FailedStays DEF Broken
    <2> QED BY <1>2, <1>8, <2>2 DEF h
  <1>9. CASE Len(t) >= 6
    <2>1. Reading(bits, 6, <<t[2].val, t[4].val>>)
      BY <1>7, <1>9 DEF Reaches
    <2>2. Append(<<t[2].val, t[4].val>>, t[6].val) = Fields(t)
      BY Appended, Zenon DEF Fields
    <2>3. /\ 6 = Len(t) /\ wsFails => Broken(num)
          /\ ~(6 = Len(t) /\ wsFails) =>
               Passed(t, num, Beyond(t, 6 + 1), Append(<<t[2].val, t[4].val>>, t[6].val))
      BY <1>2, <1>3, <1>9, <2>1, FieldIs
    <2>4. ~(6 = Len(t) /\ wsFails) => Passed(t, num, p, Fields(t))
      <3>1. 6 + 1 = 7
        OBVIOUS
      <3> QED BY <2>2, <2>3, <3>1, Zenon DEF DataAt
    <2>5. p \in 7 .. Len(t) + 1 /\ (p = Len(t) + 1 \/ ~IsSpace(t[p]))
      <3>1. 7 \in 1 .. Len(t) + 1
        BY <1>2, <1>9
      <3> QED BY <1>2, <3>1, BeyondExists DEF DataAt
    <2> HIDE DEF num, p
    <2>6. Beyond(t, p) = p
      <3>1. p \in 1 .. Len(t) + 1 /\ p \in p .. Len(t) + 1 /\ \A q \in p .. p - 1 : IsSpace(t[q])
        BY <1>2, <2>5
      <3> QED BY <1>2, <2>5, <3>1, BeyondIs
    <2>7. p \in 1 .. Len(t) + 1
      BY <1>2, <2>5
    <2>8. /\ Reading(num, p, Fields(t)) => Passed(t, h, p, Fields(t))
          /\ ~wsFails /\ Ended(num, p, Fields(t)) => Passed(t, h, p, Fields(t))
          /\ wsFails /\ Ended(num, p, Fields(t)) => Broken(h)
      BY <1>1, <1>2, <2>6, <2>7, WsIs
    <2>9. CASE 6 = Len(t) /\ wsFails
      <3>1. Broken(h)
        BY <1>1, <2>3, <2>9, FailedStays DEF Broken
      <3>2. Len(t) = 6
        BY <2>9, Zenon
      <3>3. ~(p <= Len(t))
        BY <1>2, <2>5, <3>2
      <3> QED BY <2>5, <2>9, <3>1, <3>3 DEF p, h
    <2>10. CASE ~(6 = Len(t) /\ wsFails) /\ p > Len(t)
      <3>1. Ended(num, p, Fields(t))
        BY <2>4, <2>10 DEF Passed
      <3>2. ~(p <= Len(t))
        BY <1>2, <2>5, <2>10
      <3> QED BY <1>9, <2>5, <2>8, <3>1, <3>2 DEF p, h
    <2>11. CASE ~(6 = Len(t) /\ wsFails) /\ ~(p > Len(t))
      <3>1. Reading(num, p, Fields(t))
        BY <2>4, <2>11 DEF Passed
      <3>2. p <= Len(t)
        BY <1>2, <2>5, <2>11
      <3> QED BY <1>9, <2>5, <2>8, <3>1, <3>2 DEF p, h
    <2> QED BY <2>9, <2>10, <2>11
  <1> QED BY <1>2, <1>8, <1>9

----------------------------------------------------------------------------
(* What the writers put in a file, item by item *)

\* All that is ever written is an item.
LEMMA ItemsAre ==
  /\ ByteValues \subseteq Nat /\ EndLine \in Items /\ Word \in Items
  /\ \A b \in ByteValues : Byte(b) \in Items
  /\ \A n \in Nat : Number(n) \in Items
  /\ EndLine.is = "byte" /\ IsSpace(EndLine)
  <1>1. ByteBits \in 0 .. ByteBits
    BY ByteAssumption
  <1>2. Power[ByteBits] \in Nat
    BY <1>1, PowerIs
  <1>3. ByteValues \subseteq Nat
    BY <1>2 DEF ByteValues
  <1>4. LineBreak \in Nat /\ LineBreak \in Space
    BY <1>3, ByteAssumption DEF Space
  <1> QED BY <1>3, <1>4 DEF Items, EndLine, Byte, Number, Word, IsSpace

\* w is the text of a file of a variable, with such a header and body.
VariableFile(w, a, b, n, body) ==
  /\ HasHeader(w) /\ Len(w) = 8 + Len(body)
  /\ w[2].val = a /\ w[4].val = b /\ w[6].val = n
  /\ \A i \in 1 .. Len(body) : w[8 + i] = body[i]

\* What a header and a body make together.
LEMMA HeaderTextIs ==
  ASSUME NEW a \in Nat, NEW b \in Nat, NEW n \in Nat, NEW body \in Seq(Items),
         Len(body) >= 1
  PROVE  VariableFile(HeaderText(a, b, n) \o body, a, b, n, body)
  <1> DEFINE hd == HeaderText(a, b, n)
             w  == hd \o body
  <1>1. /\ Word \in Items /\ EndLine \in Items
        /\ Number(a) \in Items /\ Number(b) \in Items /\ Number(n) \in Items
    BY ItemsAre
  <1>2. hd \in Seq(Items) /\ Len(hd) = 8
    BY <1>1 DEF HeaderText
  <1>3. /\ hd[1] = Word /\ hd[2] = Number(a) /\ hd[3] = EndLine /\ hd[4] = Number(b)
        /\ hd[5] = EndLine /\ hd[6] = Number(n) /\ hd[7] = EndLine /\ hd[8] = EndLine
    BY DEF HeaderText
  <1> HIDE DEF hd
  <1>4. /\ w \in Seq(Items) /\ Len(w) = 8 + Len(body)
        /\ \A i \in 1 .. 8 + Len(body) : w[i] = IF i <= 8 THEN hd[i] ELSE body[i - 8]
    <2>1. /\ w \in Seq(Items) /\ Len(w) = Len(hd) + Len(body)
          /\ \A i \in 1 .. Len(hd) + Len(body) :
               w[i] = IF i <= Len(hd) THEN hd[i] ELSE body[i - Len(hd)]
      BY <1>2, ConcatProperties
    <2> HIDE DEF w
    <2> QED BY <1>2, <2>1
  <1> HIDE DEF w
  <1>5. Len(body) \in Nat
    OBVIOUS
  <1>6. \A i \in 1 .. 8 : w[i] = hd[i]
    BY <1>4, <1>5
  <1>7. \A i \in 1 .. Len(body) : w[8 + i] = body[i]
    <2> SUFFICES ASSUME NEW i \in 1 .. Len(body) PROVE w[8 + i] = body[i]
      OBVIOUS
    <2>1. 8 + i \in 1 .. 8 + Len(body) /\ ~(8 + i <= 8) /\ (8 + i) - 8 = i
      BY <1>5
    <2> QED BY <1>4, <2>1
  <1>8. /\ w[1] = Word /\ w[2] = Number(a) /\ w[3] = EndLine /\ w[4] = Number(b)
        /\ w[5] = EndLine /\ w[6] = Number(n) /\ w[7] = EndLine /\ w[8] = EndLine
    BY <1>3, <1>6
  <1>9. /\ Number(a).is = "number" /\ Number(b).is = "number" /\ Number(n).is = "number"
        /\ Number(a).val = a /\ Number(b).val = b /\ Number(n).val = n
    BY DEF Number
  <1>10. HasHeader(w)
    BY <1>4, <1>5, <1>8, <1>9 DEF HasHeader
  <1>11. w[2].val = a /\ w[4].val = b /\ w[6].val = n
    BY <1>8, <1>9
  <1> QED BY <1>4, <1>7, <1>10, <1>11 DEF VariableFile, w, hd

\* w is the file of a variable of that size, of an alias, and the info file.
PointerFile(w, bits, num, data) ==
  LET c == BytesFor(bits * num)
  IN  /\ HasHeader(w) /\ Len(w) = 9 + c
      /\ w[2].val = 0 /\ w[4].val = bits /\ w[6].val = num
      /\ \A i \in 1 .. c : w[8 + i] = Byte(data[i])
      /\ w[9 + c] = EndLine
AliasFile(w, reference) ==
  /\ HasHeader(w) /\ Len(w) = 10 /\ w[2].val = 1
  /\ w[9] = Number(reference) /\ w[10] = EndLine
InfoFile(w, label, num) ==
  /\ w \in Seq(Items) /\ Len(w) = 4
  /\ w[1] = Number(label) /\ w[2] = EndLine /\ w[3] = Number(num) /\ w[4] = EndLine

\* What __acriilCheckpointPointer writes,
LEMMA PointerTextIs ==
  ASSUME NEW bits \in Nat, NEW num \in Nat,
         NEW data \in [1 .. BytesFor(bits * num) -> ByteValues]
  PROVE  PointerFile(PointerText(bits, num, data), bits, num, data)
  <1> DEFINE c     == BytesFor(bits * num)
             hd    == HeaderText(0, bits, num)
             bytes == [i \in 1 .. c |-> Byte(data[i])]
             body  == bytes \o <<EndLine>>
             w     == hd \o body
  <1>1. c \in Nat
    BY BytesAre
  <1>2. \A i \in 1 .. c : Byte(data[i]) \in Items
    BY ItemsAre
  <1> HIDE DEF c
  <1>3. bytes \in Seq(Items) /\ Len(bytes) = c /\ \A i \in 1 .. c : bytes[i] = Byte(data[i])
    BY <1>1, <1>2
  <1> HIDE DEF bytes
  <1>4. <<EndLine>> \in Seq(Items) /\ Len(<<EndLine>>) = 1 /\ <<EndLine>>[1] = EndLine
    BY ItemsAre
  <1>5. /\ body \in Seq(Items) /\ Len(body) = c + 1
        /\ \A i \in 1 .. c + 1 : body[i] = IF i <= c THEN bytes[i] ELSE <<EndLine>>[i - c]
    BY <1>3, <1>4, ConcatProperties
  <1>6. \A i \in 1 .. c : body[i] = Byte(data[i])
    BY <1>1, <1>3, <1>5
  <1>7. body[c + 1] = EndLine
    <2>1. c + 1 \in 1 .. c + 1 /\ ~(c + 1 <= c) /\ (c + 1) - c = 1
      BY <1>1
    <2> QED BY <1>4, <1>5, <2>1
  <1> HIDE DEF body
  <1>8. /\ HasHeader(w) /\ Len(w) = 8 + Len(body)
        /\ w[2].val = 0 /\ w[4].val = bits /\ w[6].val = num
        /\ \A i \in 1 .. Len(body) : w[8 + i] = body[i]
    <2>1. Len(body) >= 1 /\ 0 \in Nat
      BY <1>1, <1>5
    <2>2. VariableFile(w, 0, bits, num, body)
      BY <1>5, <2>1, HeaderTextIs
    <2> HIDE DEF w
    <2> QED BY <2>2 DEF VariableFile
  <1>9. PointerText(bits, num, data) = w
    <2>1. hd \in Seq(Items)
      BY ItemsAre DEF HeaderText
    <2>2. PointerText(bits, num, data) = (hd \o bytes) \o <<EndLine>>
      BY DEF PointerText, bytes, c
    <2> HIDE DEF hd
    <2>3. (hd \o bytes) \o <<EndLine>> = hd \o (bytes \o <<EndLine>>)
      BY <1>3, <1>4, <2>1, ConcatAssociative
    <2> QED BY <2>2, <2>3, Zenon DEF body
  <1> HIDE DEF w
  <1>10. Len(w) = 9 + c
    BY <1>1, <1>5, <1>8
  <1>11. \A i \in 1 .. c : w[8 + i] = Byte(data[i])
    BY <1>1, <1>5, <1>6, <1>8
  <1>12. w[9 + c] = EndLine
    <2>1. c + 1 \in 1 .. Len(body) /\ 8 + (c + 1) = 9 + c
      BY <1>1, <1>5
    <2> QED BY <1>7, <1>8, <2>1
  <1> QED BY <1>8, <1>9, <1>10, <1>11, <1>12 DEF PointerFile, c

\* what __acriilCheckpointAlias writes,
LEMMA AliasTextIs ==
  ASSUME NEW bits \in Nat, NEW num \in Nat, NEW reference \in Nat
  PROVE  AliasFile(AliasText(bits, num, reference), reference)
  <1> DEFINE body == <<Number(reference), EndLine>>
             w    == HeaderText(1, bits, num) \o body
  <1>1. body \in Seq(Items) /\ Len(body) = 2
    BY ItemsAre
  <1>2. body[1] = Number(reference) /\ body[2] = EndLine
    OBVIOUS
  <1>3. AliasText(bits, num, reference) = w
    BY DEF AliasText
  <1> HIDE DEF body
  <1>4. /\ HasHeader(w) /\ Len(w) = 8 + Len(body) /\ w[2].val = 1
        /\ \A i \in 1 .. Len(body) : w[8 + i] = body[i]
    <2>1. Len(body) >= 1 /\ 1 \in Nat
      BY <1>1
    <2>2. VariableFile(w, 1, bits, num, body)
      BY <1>1, <2>1, HeaderTextIs
    <2> HIDE DEF w
    <2> QED BY <2>2 DEF VariableFile
  <1> HIDE DEF w
  <1>5. Len(w) = 10 /\ w[8 + 1] = body[1] /\ w[8 + 2] = body[2]
    BY <1>1, <1>4
  <1>6. w[9] = Number(reference) /\ w[10] = EndLine
    BY <1>2, <1>5
  <1> QED BY <1>3, <1>4, <1>5, <1>6 DEF AliasFile

\* and the info file of __acriilCheckpointStart.
LEMMA InfoTextIs ==
  ASSUME NEW label \in Nat, NEW num \in Nat
  PROVE  InfoFile(InfoText(label, num), label, num)
  BY ItemsAre DEF InfoText, InfoFile

----------------------------------------------------------------------------
(* What validation has made sure of *)

\* A header that is there has the fields of the text that was written, but
\* that the last may have lost digits when nothing follows it.
LEMMA HeaderRead ==
  ASSUME NEW t, NEW w, Begins(t, w), HasHeader(w), wsFails \in BOOLEAN, Header(t).ok
  PROVE  LET h == Header(t)
         IN  /\ Len(t) >= 6 /\ DataAt(t) \in 7 .. Len(t) + 1
             /\ IsStream(h) /\ h.at = DataAt(t) /\ h.nums = Fields(t)
             /\ h.end <=> DataAt(t) > Len(t)
             /\ wsFails => ~h.end
             /\ h.nums[1] = w[2].val /\ h.nums[2] = w[4].val /\ h.nums[3] = t[6].val
             /\ t[6].val \in Nat
             /\ t[6].val = w[6].val \/ (Len(t) = 6 /\ cutShort /\ t[6].val # 0)
  <1> DEFINE h == Header(t)
             p == DataAt(t)
             n == Fields(t)
  <1>1. t \in Seq(Items) /\ w \in Seq(Items) /\ Len(t) \in Nat
    BY DEF Begins
  <1>2. Len(t) >= 6 /\ (p <= Len(t) \/ ~wsFails) /\ Passed(t, h, p, n) /\ p \in 7 .. Len(t) + 1
    BY HeaderIs DEF Broken
  <1> HIDE DEF h, p
  <1>3. IsStream(h) /\ h.at = p /\ h.nums = n /\ (h.end <=> p > Len(t))
    BY <1>2 DEF Passed, Ended, Reading
  <1>4. wsFails => ~h.end
    <2>1. p \in Nat
      BY <1>1, <1>2
    <2> QED BY <1>1, <1>2, <1>3, <2>1
  <1>5. t[2] = w[2] /\ t[4] = w[4] /\ t[6] \in Items
        /\ (t[6] = w[6] \/ (Len(t) = 6 /\ cutShort /\ t[6].val # 0))
    <2>1. 2 \in 1 .. Len(t) /\ 4 \in 1 .. Len(t) /\ 6 \in 1 .. Len(t)
      BY <1>1, <1>2
    <2>2. t[2] = w[2] /\ t[4] = w[4]
      BY <1>1, <1>2, <2>1 DEF Begins
    <2>3. t[6] \in Items
      BY <1>1, <2>1
    <2>4. t[6] = w[6] \/ (6 = Len(t) /\ cutShort /\ t[6].val # 0)
      BY <2>1, Zenon DEF Begins
    <2> QED BY <2>2, <2>3, <2>4, Zenon
  <1>6. n[1] = t[2].val /\ n[2] = t[4].val /\ n[3] = t[6].val
    BY DEF Fields
  <1>7. t[6].val \in Nat
    BY <1>5 DEF Items
  <1> HIDE DEF n
  <1>8. h.nums[1] = w[2].val /\ h.nums[2] = w[4].val /\ h.nums[3] = t[6].val
    BY <1>3, <1>5, <1>6
  <1> QED BY <1>2, <1>3, <1>4, <1>5, <1>7, <1>8 DEF h, p, n

\* The data starts after the separator, unless white space is taken for it.
LEMMA SeparatorIs ==
  ASSUME NEW t, NEW w, Begins(t, w), HasHeader(w), Len(t) >= 6
  PROVE  /\ DataAt(t) <= Len(t) => DataAt(t) >= 9
         /\ Len(t) >= 9 /\ ~IsSpace(t[9]) => DataAt(t) = 9
  <1> DEFINE p == DataAt(t)
  <1>1. t \in Seq(Items) /\ w \in Seq(Items) /\ Len(t) \in Nat
    BY DEF Begins
  <1>2. /\ p \in 7 .. Len(t) + 1 /\ (p = Len(t) + 1 \/ ~IsSpace(t[p]))
        /\ \A q \in 7 .. p - 1 : IsSpace(t[q])
    <2>1. 7 \in 1 .. Len(t) + 1
      BY <1>1
    <2> QED BY <1>1, <2>1, BeyondExists DEF DataAt
  <1>3. (7 <= Len(t) => IsSpace(t[7])) /\ (8 <= Len(t) => IsSpace(t[8]))
    <2>1. \A i \in 1 .. Len(t) : w[i] = EndLine => t[i] = EndLine
      BY ItemsAre DEF Begins
    <2>2. w[7] = EndLine /\ w[8] = EndLine
      BY DEF HasHeader
    <2> QED BY <1>1, <2>1, <2>2, ItemsAre
  <1> HIDE DEF p
  <1>4. p <= Len(t) => p >= 9
    <2>1. p <= Len(t) => p # 7 /\ p # 8
      BY <1>1, <1>2, <1>3
    <2> QED BY <1>1, <1>2, <2>1
  <1>5. Len(t) >= 9 /\ ~IsSpace(t[9]) => p = 9
    <2> SUFFICES ASSUME Len(t) >= 9, ~IsSpace(t[9]) PROVE p = 9
      OBVIOUS
    <2>1. ~(p > 9)
      BY <1>1, <1>2
    <2>2. p <= Len(t)
      BY <1>1, <1>2, <2>1
    <2> QED BY <1>1, <1>2, <1>4, <2>1, <2>2
  <1> QED BY <1>4, <1>5 DEF p

\* Bytes are there or reading them fails.
LEMMA BytesRead ==
  ASSUME NEW t, NEW s, IsStream(s), NEW n
  PROVE  LET r == ReadBytes(t, s, n)
         IN  /\ IsStream(r)
             /\ n = 0 => r = s
             /\ n # 0 /\ r.ok => s.ok /\ ~s.end /\ ~(s.at + n - 1 > Len(t))
             /\ n # 0 /\ s.ok /\ ~s.end /\ ~(s.at + n - 1 > Len(t)) =>
                  Reading(r, s.at + n, s.nums)
  <1> DEFINE r == ReadBytes(t, s, n)
             e == [s EXCEPT !.at = s.at + n]
  <1>1. Broken(Failed(s))
    BY FailedStays
  <1>2. IsStream(e) /\ e.ok = s.ok /\ e.end = s.end /\ e.nums = s.nums /\ e.at = s.at + n
    BY DEF IsStream
  <1>3. CASE n = 0
    <2>1. r = s
      BY <1>3 DEF ReadBytes
    <2> HIDE DEF r
    <2> QED BY <1>3, <2>1 DEF r
  <1>4. CASE n # 0 /\ (~s.ok \/ s.end \/ s.at + n - 1 > Len(t))
    <2>1. r = Failed(s)
      BY <1>4 DEF ReadBytes
    <2> HIDE DEF r
    <2> QED BY <1>1, <1>4, <2>1 DEF Broken, r
  <1>5. CASE n # 0 /\ s.ok /\ ~s.end /\ ~(s.at + n - 1 > Len(t))
    <2>1. r = e
      BY <1>5 DEF ReadBytes
    <2> HIDE DEF r, e
    <2> QED BY <1>2, <1>5, <2>1 DEF Reading, r
  <1> QED BY <1>3, <1>4, <1>5

\* A valid file of a variable can be read, and it has all of the data.
LEMMA PointerValid ==
  ASSUME NEW t, NEW w, Begins(t, w), wsFails \in BOOLEAN, NEW bits \in Nat, NEW num \in Nat,
         NEW data, PointerFile(w, bits, num, data), FileValid(t)
  PROVE  /\ PointerRead(t, bits, num)
         /\ BytesFor(bits * num) # 0 =>
              /\ Len(t) >= 9 /\ Header(t).at = DataAt(t)
              /\ DataAt(t) + BytesFor(bits * num) - 1 <= Len(t)
  <1> DEFINE h    == Header(t)
             p    == DataAt(t)
             c    == BytesFor(bits * num)
             c2   == BytesFor(bits * t[6].val)
             body == ReadBytes(t, h, c2)
  <1>1. Len(t) \in Nat
    BY DEF Begins
  <1>2. HasHeader(w) /\ w[2].val = 0 /\ w[4].val = bits /\ w[6].val = num
    BY DEF PointerFile
  <1>3. h.ok
    BY DEF FileValid
  <1>4. /\ Len(t) >= 6 /\ p \in 7 .. Len(t) + 1 /\ IsStream(h) /\ h.at = p
        /\ (h.end <=> p > Len(t))
        /\ h.nums[1] = 0 /\ h.nums[2] = bits /\ h.nums[3] = t[6].val /\ t[6].val \in Nat
        /\ (t[6].val = num \/ (Len(t) = 6 /\ t[6].val # 0))
    BY <1>2, <1>3, HeaderRead
  <1>5. Ws(t, body).ok
    BY <1>4 DEF FileValid
  <1>6. body.ok
    <2>1. IsStream(body)
      BY <1>4, BytesRead
    <2> HIDE DEF body
    <2> QED BY <1>5, <2>1, FailedStays DEF Broken
  <1>7. c2 # 0 => h.ok /\ ~h.end /\ ~(h.at + c2 - 1 > Len(t))
    <2> HIDE DEF h, c2
    <2>1. body.ok /\ IsStream(h)
      BY <1>4, <1>6
    <2> QED BY <2>1, BytesRead, Zenon
  <1>8. c2 = c
    <2>1. CASE t[6].val = num
      BY <2>1
    <2>2. CASE Len(t) = 6 /\ t[6].val # 0
      <3>1. p > Len(t)
        BY <1>4, <2>2
      <3>2. c2 = 0
        BY <1>4, <1>7, <3>1
      <3>3. bits * t[6].val \in Nat /\ bits * num \in Nat
        BY <1>4
      <3>4. bits * t[6].val = 0
        BY <3>2, <3>3, BytesAre
      <3>5. bits = 0
        BY <1>4, <2>2, <3>4
      <3>6. bits * num = 0
        BY <3>5
      <3> QED BY <3>2, <3>3, <3>6, BytesAre
    <2> QED BY <1>4, <2>1, <2>2
  <1>9. PointerRead(t, bits, num)
    BY <1>3, <1>4, <1>5, <1>8 DEF PointerRead
  <1>10. c \in Nat
    <2>1. bits * num \in Nat
      OBVIOUS
    <2> QED BY <2>1, BytesAre
  <1> HIDE DEF h, p, c, c2
  <1>11. c # 0 => p <= Len(t) /\ p + c - 1 <= Len(t)
    BY <1>1, <1>4, <1>7, <1>8, <1>10
  <1>12. p <= Len(t) => p >= 9
    BY <1>2, <1>4, SeparatorIs DEF p
  <1>13. c # 0 => Len(t) >= 9
    BY <1>1, <1>4, <1>11, <1>12
  <1> QED BY <1>4, <1>9, <1>11, <1>13 DEF h, p, c

\* A file of a variable that was written to its end is valid.
LEMMA PointerWhole ==
  ASSUME NEW w, Begins(w, w), wsFails \in BOOLEAN, NEW bits \in Nat, NEW num \in Nat,
         NEW data, PointerFile(w, bits, num, data),
         IF BytesFor(bits * num) = 0 THEN ~wsFails ELSE ~IsSpace(w[9])
  PROVE  FileValid(w)
  <1> DEFINE h    == Header(w)
             p    == DataAt(w)
             c    == BytesFor(bits * num)
             n    == Fields(w)
             body == ReadBytes(w, h, c)
  <1>1. w \in Seq(Items) /\ HasHeader(w) /\ Len(w) = 9 + c /\ w[2].val = 0 /\ w[4].val = bits
        /\ w[6].val = num /\ w[9 + c] = EndLine
    BY DEF PointerFile, Begins
  <1>2. c \in Nat
    <2>1. bits * num \in Nat
      OBVIOUS
    <2> QED BY <2>1, BytesAre
  <1> HIDE DEF c
  <1>3. Len(w) \in Nat /\ Len(w) >= 9
    BY <1>1, <1>2
  <1>4. p \in 7 .. Len(w) + 1 /\ (c # 0 => p = 9)
    BY <1>1, <1>3, HeaderIs, SeparatorIs DEF c
  <1>5. p <= Len(w) \/ ~wsFails
    BY <1>3, <1>4 DEF c
  <1>6. Passed(w, h, p, n)
    BY <1>1, <1>3, <1>5, HeaderIs
  <1>7. h.ok
    BY <1>6 DEF Passed, Reading, Ended
  <1>8. h.nums[1] = 0 /\ h.nums[2] = bits /\ h.nums[3] = num
    <2>1. h.nums[1] = w[2].val /\ h.nums[2] = w[4].val /\ h.nums[3] = w[6].val
      BY <1>1, <1>7, HeaderRead
    <2> QED BY <1>1, <2>1
  <1> HIDE DEF h, p, n
  <1>9. \E at \in 1 .. Len(w) + 1 :
          \/ Reading(body, at, n) /\ Beyond(w, at) > Len(w)
          \/ ~wsFails /\ Ended(body, at, n) /\ Beyond(w, at) > Len(w)
    <2>1. Beyond(w, Len(w)) > Len(w)
      <3>1. Len(w) \in 1 .. Len(w) + 1 /\ Len(w) + 1 \in Len(w) .. Len(w) + 1
        BY <1>3
      <3>2. \A q \in Len(w) .. (Len(w) + 1) - 1 : IsSpace(w[q])
        BY <1>1, <1>2, <1>3, ItemsAre
      <3>3. Beyond(w, Len(w)) = Len(w) + 1
        BY <1>1, <3>1, <3>2, BeyondIs
      <3> QED BY <1>3, <3>3
    <2>2. CASE c # 0
      <3>1. Reading(h, 9, n) /\ IsStream(h) /\ h.ok /\ ~h.end /\ h.at = 9 /\ h.nums = n
        BY <1>3, <1>4, <1>6, <2>2 DEF Passed, Reading
      <3>2. ~(9 + c - 1 > Len(w))
        BY <1>1, <1>2
      <3>3. Reading(body, h.at + c, h.nums)
        BY <2>2, <3>1, <3>2, BytesRead
      <3>4. Reading(body, Len(w), n)
        BY <1>1, <3>1, <3>3
      <3>5. Len(w) \in 1 .. Len(w) + 1
        BY <1>3
      <3> QED BY <2>1, <3>4, <3>5
    <2>3. CASE c = 0
      <3>1. IsStream(h)
        BY <1>6 DEF Passed, Reading, Ended
      <3>2. body = h
        BY <2>3, <3>1, BytesRead
      <3>3. p > Len(w)
        <4>1. Len(w) = 9 /\ (p <= Len(w) => p >= 9)
          <5>1. Len(w) = 9 /\ Len(w) >= 6
            BY <1>1, <2>3
          <5>2. p <= Len(w) => p >= 9
            BY <1>1, <5>1, SeparatorIs DEF p
          <5> QED BY <5>1, <5>2
        <4>2. IsSpace(w[9])
          BY <1>1, <2>3, <4>1, ItemsAre
        <4>3. p = Len(w) + 1 \/ ~IsSpace(w[p])
          <5>1. 7 \in 1 .. Len(w) + 1
            BY <1>3
          <5> QED BY <1>1, <5>1, BeyondExists DEF p, DataAt
        <4> QED BY <1>4, <4>1, <4>2, <4>3
      <3>4. Ended(body, p, n) /\ ~wsFails
        BY <1>6, <2>3, <3>2, <3>3 DEF Passed, c
      <3>5. p \in 1 .. Len(w) + 1
        BY <1>3, <1>4
      <3>6. Beyond(w, p) > Len(w)
        <4>1. Beyond(w, p) \in p .. Len(w) + 1
          BY <1>1, <3>5, BeyondExists
        <4> QED BY <1>3, <3>3, <3>5, <4>1
      <3> QED BY <3>4, <3>5, <3>6
    <2> QED BY <2>2, <2>3
  <1> HIDE DEF body
  <1>10. Ws(w, body).ok /\ Ws(w, body).end
    <2>1. PICK at \in 1 .. Len(w) + 1 :
            \/ Reading(body, at, n) /\ Beyond(w, at) > Len(w)
            \/ ~wsFails /\ Ended(body, at, n) /\ Beyond(w, at) > Len(w)
      BY <1>9
    <2>2. Passed(w, Ws(w, body), Beyond(w, at), n)
      BY <1>1, <2>1, WsIs
    <2> QED BY <2>1, <2>2 DEF Passed, Ended
  <1> QED BY <1>7, <1>8, <1>10 DEF FileValid, body, h, c

\* A valid file of an alias can be read, and gives the number it ends with.
LEMMA AliasValid ==
  ASSUME NEW t, NEW w, Begins(t, w), wsFails \in BOOLEAN, NEW reference,
         AliasFile(w, reference), FileValid(t)
  PROVE  /\ AliasRead(t) /\ AliasReference(t) = t[9].val
         /\ t[9].val = reference \/ (cutShort /\ ~wsFails)
  <1> DEFINE h    == Header(t)
             p    == DataAt(t)
             n    == Fields(t)
             body == ReadNumber(t, h)
  <1>1. t \in Seq(Items) /\ Len(t) \in Nat
    BY DEF Begins
  <1>2. HasHeader(w) /\ w[2].val = 1 /\ w[9] = Number(reference)
    BY DEF AliasFile
  <1>3. h.ok
    BY DEF FileValid
  <1>4. /\ Len(t) >= 6 /\ p \in 7 .. Len(t) + 1 /\ IsStream(h) /\ h.at = p /\ h.nums = n
        /\ (h.end <=> p > Len(t)) /\ h.nums[1] = 1
    BY <1>2, <1>3, HeaderRead
  <1>5. Ws(t, body).ok
    BY <1>4 DEF FileValid
  <1>6. ~h.end
    <2>1. h.end => Broken(body)
      BY <1>4, FailedStays
    <2>2. h.end => Broken(Ws(t, body))
      BY <2>1, FailedStays DEF Broken
    <2> QED BY <1>5, <2>2 DEF Broken
  <1>7. Len(t) >= 9
    <2>1. p <= Len(t) => p >= 9
      BY <1>2, <1>4, SeparatorIs
    <2> HIDE DEF p
    <2> QED BY <1>1, <1>4, <1>6, <2>1
  <1>8. 9 \in 1 .. Len(t) /\ w[9].is = "number" /\ w[9].val = reference
    BY <1>1, <1>2, <1>7 DEF Number
  <1>9. /\ t[9].is = "number"
        /\ t[9] = w[9] \/ (cutShort /\ 9 = Len(t))
    BY <1>8 DEF Begins
  <1>10. p = 9
    BY <1>2, <1>4, <1>7, <1>9, SeparatorIs DEF IsSpace
  <1>11. Reading(h, 9, n)
    BY <1>3, <1>4, <1>6, <1>10 DEF Reading
  <1> HIDE DEF h, p, n
  <1>12. Passed(t, body, 9 + 1, Append(n, t[9].val))
    BY <1>1, <1>8, <1>9, <1>11, NumberIs
  <1>13. body.nums = Append(n, t[9].val)
    BY <1>12 DEF Passed, Reading, Ended
  <1>14. Append(n, t[9].val)[4] = t[9].val
    BY Appended DEF n, Fields
  <1>15. AliasReference(t) = t[9].val
    BY <1>13, <1>14 DEF AliasReference, AliasStream, h
  <1>16. 9 = Len(t) => ~wsFails
    <2> DEFINE at == 9 + 1
    <2>1. at \in 1 .. Len(t) + 1 /\ (Len(t) = 9 => at > Len(t))
      <3> DEFINE l == Len(t)
      <3>1. l \in Nat /\ l >= 9
        BY <1>1, <1>7, Zenon
      <3> HIDE DEF l
      <3>2. at \in 1 .. l + 1 /\ (l = 9 => at > l)
        BY <3>1
      <3> QED BY <3>2, Zenon DEF l
    <2> HIDE DEF body, at
    <2>2. Len(t) = 9 => Ended(body, at, Append(n, t[9].val))
      BY <1>12, <2>1 DEF Passed, at
    <2>3. wsFails /\ Ended(body, at, Append(n, t[9].val)) => Broken(Ws(t, body))
      BY <1>1, <2>1, WsIs
    <2> QED BY <1>5, <2>2, <2>3, Zenon DEF Broken
  <1>17. t[9].val = reference \/ (cutShort /\ ~wsFails)
    BY <1>8, <1>9, <1>16, Zenon
  <1>18. AliasRead(t)
    BY <1>3, <1>4, <1>5 DEF AliasRead, AliasStream, h
  <1> QED BY <1>15, <1>17, <1>18

\* A file of an alias that was written to its end is valid.
LEMMA AliasWhole ==
  ASSUME NEW w, Begins(w, w), wsFails \in BOOLEAN, NEW reference, AliasFile(w, reference)
  PROVE  FileValid(w)
  <1> DEFINE h    == Header(w)
             p    == DataAt(w)
             n    == Fields(w)
             body == ReadNumber(w, h)
             m    == Append(n, w[9].val)
  <1>1. /\ w \in Seq(Items) /\ HasHeader(w) /\ Len(w) = 10 /\ w[2].val = 1
        /\ w[9].is = "number" /\ w[10] = EndLine
    BY DEF AliasFile, Begins, Number
  <1>2. p = 9
    <2>1. Len(w) >= 6 /\ Len(w) >= 9 /\ ~IsSpace(w[9])
      BY <1>1 DEF IsSpace
    <2> QED BY <1>1, <2>1, SeparatorIs, Zenon
  <1>3. Passed(w, h, 9, n)
    <2>1. Len(w) >= 6 /\ p <= Len(w)
      BY <1>1, <1>2
    <2>2. Passed(w, h, p, n)
      BY <1>1, <2>1, HeaderIs, Zenon
    <2> HIDE DEF p
    <2> QED BY <1>2, <2>2
  <1>4. Reading(h, 9, n)
    BY <1>1, <1>3 DEF Passed
  <1>5. h.ok
    BY <1>4 DEF Reading
  <1>6. h.nums[1] = 1
    BY <1>1, <1>5, HeaderRead
  <1> HIDE DEF h, n, p
  <1> DEFINE at == 9 + 1
  <1>7. 9 \in 1 .. Len(w) /\ at = 10 /\ ~(at > Len(w)) /\ at \in 1 .. Len(w) + 1
    BY <1>1
  <1>8. Passed(w, body, at, m)
    BY <1>1, <1>4, <1>7, NumberIs
  <1> HIDE DEF at
  <1>9. Reading(body, at, m)
    BY <1>7, <1>8 DEF Passed
  <1>10. Beyond(w, at) = 11
    <2>1. 11 \in at .. Len(w) + 1 /\ 11 = Len(w) + 1 /\ \A q \in at .. 11 - 1 : IsSpace(w[q])
      BY <1>1, <1>7, ItemsAre
    <2> QED BY <1>1, <1>7, <2>1, BeyondIs
  <1> HIDE DEF body, m
  <1>11. Passed(w, Ws(w, body), Beyond(w, at), m)
    <2>1. w \in Seq(Items)
      BY <1>1, Zenon
    <2>2. at \in 1 .. Len(w) + 1
      BY <1>7, Zenon
    <2>3. Reading(body, at, m) => Passed(w, Ws(w, body), Beyond(w, at), m)
      BY <2>1, <2>2, WsIs
    <2> QED BY <1>9, <2>3, Zenon
  <1>12. Ended(Ws(w, body), 11, m)
    BY <1>1, <1>10, <1>11 DEF Passed
  <1>13. Ws(w, body).ok /\ Ws(w, body).end
    BY <1>12 DEF Ended
  <1> QED BY <1>5, <1>6, <1>13 DEF FileValid, body, h

\* What is read of the info file.
LEMMA InfoRead ==
  ASSUME NEW t, NEW w, Begins(t, w), wsFails \in BOOLEAN, NEW label, NEW num,
         InfoFile(w, label, num)
  PROVE  LET s == InfoStream(t)
         IN  /\ s.ok => /\ s.nums = <<label, t[3].val>>
                        /\ t[3].val = num \/ (cutShort /\ ~wsFails)
             /\ Len(t) = 4 => s.ok /\ s.nums = <<label, t[3].val>>
  <1> DEFINE first == Ws(t, ReadNumber(t, Opened))
             s     == Ws(t, ReadNumber(t, first))
             ns    == <<t[1].val, t[3].val>>
  <1>1. /\ t \in Seq(Items) /\ Len(t) \in Nat /\ Len(t) <= 4 /\ Len(w) = 4
        /\ w[1].is = "number" /\ w[1].val = label /\ w[2] = EndLine
        /\ w[3].is = "number" /\ w[3].val = num /\ w[4] = EndLine
    BY DEF Begins, InfoFile, Number
  <1>2. Reading(Opened, 1, << >>) /\ IsStream(Opened)
    BY DEF Opened, Reading, IsStream
  <1>3. Reaches(t, first, 3, <<t[1].val>>)
    <2>1. 1 \in 1 .. Len(w) - 2 /\ w[1 + 1] = EndLine /\ w[1 + 2].is # "byte"
      BY <1>1
    <2>2. CASE Len(t) >= 1
      <3>1. Reaches(t, Opened, 1, << >>)
        BY <1>1, <1>2, <2>2 DEF Reaches
      <3>2. Reaches(t, first, 1 + 2, Append(<< >>, t[1].val))
        BY <1>1, <2>1, <3>1, LineIs
      <3>3. 1 + 2 = 3 /\ Append(<< >>, t[1].val) = <<t[1].val>>
        OBVIOUS
      <3> HIDE DEF first
      <3> QED BY <3>2, <3>3
    <2>3. CASE Len(t) = 0
      <3>1. Beyond(t, 1) > Len(t)
        <4>1. 1 \in 1 .. Len(t) + 1
          BY <1>1
        <4>2. Beyond(t, 1) \in 1 .. Len(t) + 1
          BY <1>1, <4>1, BeyondExists
        <4> QED BY <1>1, <2>3, <4>2
      <3>2. Opened.at = 1
        BY <1>2 DEF Reading
      <3>3. ReadNumber(t, Opened) = Failed(Opened)
        BY <3>1, <3>2 DEF ReadNumber, Formatted
      <3>4. Broken(Failed(Opened))
        BY <1>2, FailedStays
      <3>5. Broken(first)
        BY <3>3, <3>4, FailedStays DEF Broken
      <3> HIDE DEF first
      <3> QED BY <1>1, <2>3, <3>5 DEF Reaches, Broken
    <2> QED BY <1>1, <2>2, <2>3
  <1>4. InfoStream(t) = s
    BY DEF InfoStream
  <1> HIDE DEF first
  <1>5. CASE Len(t) < 3
    <2>1. Broken(s)
      BY <1>3, <1>5, NoField DEF Reaches
    <2> HIDE DEF s
    <2>2. Len(t) # 4
      BY <1>5
    <2>3. ~s.ok
      BY <2>1, Zenon DEF Broken
    <2> QED BY <1>4, <2>2, <2>3, Zenon
  <1>6. CASE Len(t) >= 3
    <2>1. Reading(first, 3, <<t[1].val>>)
      BY <1>3, <1>6 DEF Reaches
    <2>2. 3 \in 1 .. Len(t) /\ 1 \in 1 .. Len(t) /\ Len(t) # 1
      <3> DEFINE len == Len(t)
      <3>1. len \in Nat /\ len >= 3
        BY <1>1, <1>6, Zenon
      <3> HIDE DEF len
      <3>2. 3 \in 1 .. len /\ 1 \in 1 .. len /\ len # 1
        BY <3>1
      <3> QED BY <3>2, Zenon DEF len
    <2>3. t[1] = w[1] /\ t[3].is = "number" /\ (t[3] = w[3] \/ (cutShort /\ 3 = Len(t)))
      <3>1. t[3] = w[3] \/ (cutShort /\ 3 = Len(t) /\ t[3].is = "number")
        BY <2>2, Zenon DEF Begins
      <3>2. t[1] = w[1]
        BY <2>2 DEF Begins
      <3> QED BY <1>1, <3>1, <3>2, Zenon
    <2>4. Append(<<t[1].val>>, t[3].val) = ns
      BY Appended, Zenon
    <2>5. /\ 3 = Len(t) /\ wsFails => Broken(s)
          /\ ~(3 = Len(t) /\ wsFails) =>
               Passed(t, s, Beyond(t, 3 + 1), Append(<<t[1].val>>, t[3].val))
      BY <1>1, <2>1, <2>2, <2>3, FieldIs
    <2> HIDE DEF s
    <2>6. ~(3 = Len(t) /\ wsFails) => s.ok /\ s.nums = ns
      BY <2>4, <2>5 DEF Passed, Reading, Ended
    <2>7. 3 = Len(t) /\ wsFails => ~s.ok
      BY <2>5 DEF Broken
    <2>8. ns = <<label, t[3].val>>
      BY <1>1, <2>3
    <2>9. t[3].val = num \/ (cutShort /\ 3 = Len(t))
      BY <1>1, <2>3
    <2> HIDE DEF ns
    <2>10. s.ok => s.nums = <<label, t[3].val>> /\ (t[3].val = num \/ (cutShort /\ ~wsFails))
      BY <2>6, <2>7, <2>8, <2>9, Zenon
    <2>11. Len(t) = 4 => 3 # Len(t)
      OBVIOUS
    <2>12. Len(t) = 4 => s.ok /\ s.nums = <<label, t[3].val>>
      BY <2>6, <2>8, <2>11, Zenon
    <2> QED BY <1>4, <2>10, <2>12, Zenon
  <1> QED BY <1>1, <1>5, <1>6

----------------------------------------------------------------------------
(* The bits of the variable *)

\* A restored byte: the low bits that belong to the variable are the file's,
\* the others are memory's.
LEMMA ByteIs ==
  ASSUME NEW old \in ByteValues, NEW new \in ByteValues, NEW left \in Nat \ {0}
  PROVE  LET n    == IF left > ByteBits THEN ByteBits ELSE left
             byte == IF left >= ByteBits THEN new ELSE Merged(old, new, left)
         IN  /\ LowBits(byte, n) = LowBits(new, n)
             /\ byte - LowBits(byte, n) = old - LowBits(old, n)
  <1>1. ByteBits \in Nat /\ old \in Nat /\ new \in Nat
    BY ItemsAre, ByteAssumption
  <1>2. CASE left >= ByteBits
    <2>1. (IF left > ByteBits THEN ByteBits ELSE left) = ByteBits
      BY <1>1, <1>2
    <2> DEFINE m == Power[ByteBits]
    <2>2. m \in Nat \ {0} /\ old < m /\ new < m
      <3>1. ByteBits \in 0 .. ByteBits
        BY <1>1
      <3>2. m \in Nat \ {0}
        BY <3>1, PowerIs
      <3> QED BY <1>1, <3>2 DEF ByteValues
    <2> HIDE DEF m
    <2>3. new % m = new /\ old % m = old
      BY <1>1, <2>2
    <2>4. LowBits(new, ByteBits) = new /\ LowBits(old, ByteBits) = old
      BY <2>3 DEF LowBits, m
    <2> QED BY <1>1, <1>2, <2>1, <2>4
  <1>3. CASE ~(left >= ByteBits)
    <2>1. left \in 0 .. ByteBits /\ ~(left > ByteBits)
      BY <1>1, <1>3
    <2>2. /\ LowBits(Merged(old, new, left), left) = LowBits(new, left)
          /\ Merged(old, new, left) - LowBits(Merged(old, new, left), left)
               = old - LowBits(old, left)
      BY <1>1, <2>1, MergedIs
    <2> QED BY <1>3, <2>1, <2>2
  <1> QED BY <1>2, <1>3

\* The content of a variable and what restart made of it.
SameBits(bits, num, data, old, new) ==
  \A i \in 1 .. BytesFor(bits * num) :
    LET left == bits * num - (i - 1) * ByteBits
        n    == IF left > ByteBits THEN ByteBits ELSE left
    IN  /\ LowBits(new[i], n) = LowBits(data[i], n)
        /\ new[i] - LowBits(new[i], n) = old[i] - LowBits(old[i], n)

\* A valid file's data is read from its first byte to its last bit.
LEMMA DataIs ==
  ASSUME NEW t, NEW w, Begins(t, w), wsFails \in BOOLEAN, NEW bits \in Nat, NEW num \in Nat,
         NEW data \in [1 .. BytesFor(bits * num) -> ByteValues],
         NEW old \in [1 .. BytesFor(bits * num) -> ByteValues],
         PointerFile(w, bits, num, data), FileValid(t),
         BytesFor(bits * num) = 0 \/ data[1] \notin Space
  PROVE  SameBits(bits, num, data, old, PointerData(t, bits, num, old))
  <1> DEFINE c     == BytesFor(bits * num)
             first == Header(t).at
             new   == PointerData(t, bits, num, old)
  <1>1. c \in Nat /\ bits * num \in Nat /\ ByteBits \in Nat
    <2>1. bits * num \in Nat
      OBVIOUS
    <2> QED BY <2>1, BytesAre, ByteAssumption
  <1>2. HasHeader(w) /\ Len(w) = 9 + c /\ \A i \in 1 .. c : w[8 + i] = Byte(data[i])
    BY DEF PointerFile
  <1>3. c # 0 => Len(t) >= 9 /\ first = DataAt(t) /\ DataAt(t) + c - 1 <= Len(t)
    BY PointerValid
  <1>4. ASSUME NEW i \in 1 .. c, 8 + i <= Len(t) PROVE t[8 + i] = Byte(data[i])
    <2>1. Len(t) \in Nat
      BY DEF Begins
    <2>2. 8 + i \in 1 .. Len(t)
      BY <1>1, <1>4, <2>1
    <2>3. w[8 + i] = Byte(data[i]) /\ w[8 + i].is # "number"
      BY <1>2 DEF Byte
    <2> HIDE DEF c
    <2> QED BY <2>2, <2>3 DEF Begins
  <1>5. c # 0 => first = 9 /\ 8 + c <= Len(t)
    <2> SUFFICES ASSUME c # 0 PROVE first = 9 /\ 8 + c <= Len(t)
      OBVIOUS
    <2>1. Len(t) \in Nat
      BY DEF Begins
    <2>2. 1 \in 1 .. c /\ 8 + 1 = 9
      BY <1>1
    <2>3. t[9] = Byte(data[1])
      BY <1>3, <1>4, <2>2
    <2>4. ~IsSpace(t[9])
      BY <2>3 DEF IsSpace, Byte
    <2>5. Len(t) >= 6
      BY <1>3, <2>1
    <2>6. DataAt(t) = 9
      BY <1>2, <1>3, <2>4, <2>5, SeparatorIs
    <2> HIDE DEF c, first
    <2> QED BY <1>1, <1>3, <2>1, <2>6
  <1>6. ASSUME NEW i \in 1 .. c
        PROVE  LET left == bits * num - (i - 1) * ByteBits
                   n    == IF left > ByteBits THEN ByteBits ELSE left
               IN  /\ LowBits(new[i], n) = LowBits(data[i], n)
                   /\ new[i] - LowBits(new[i], n) = old[i] - LowBits(old[i], n)
    <2> DEFINE left == bits * num - (i - 1) * ByteBits
               n    == IF left > ByteBits THEN ByteBits ELSE left
               byte == IF left >= ByteBits THEN data[i] ELSE Merged(old[i], data[i], left)
    <2>1. (i - 1) * ByteBits < bits * num
      BY <1>1, BytesAre
    <2>2. left \in Nat \ {0}
      <3>1. (i - 1) * ByteBits \in Int
        BY <1>1
      <3> QED BY <1>1, <2>1, <3>1
    <2>3. t[first + i - 1].val = data[i]
      <3>1. Len(t) \in Nat
        BY DEF Begins
      <3> HIDE DEF c, first
      <3>2. first + i - 1 = 8 + i /\ 8 + i <= Len(t)
        BY <1>1, <1>5, <3>1
      <3>3. t[8 + i] = Byte(data[i])
        BY <1>4, <3>2
      <3> QED BY <3>2, <3>3 DEF Byte
    <2>4. new[i] = IF left >= ByteBits THEN t[first + i - 1].val
                   ELSE IF left > 0 THEN Merged(old[i], t[first + i - 1].val, left)
                   ELSE old[i]
      BY DEF PointerData
    <2> HIDE DEF new, first, left
    <2>5. new[i] = byte
      BY <2>2, <2>3, <2>4
    <2>6. old[i] \in ByteValues /\ data[i] \in ByteValues
      OBVIOUS
    <2>7. /\ LowBits(byte, n) = LowBits(data[i], n)
          /\ byte - LowBits(byte, n) = old[i] - LowBits(old[i], n)
      BY <2>2, <2>6, ByteIs
    <2> HIDE DEF n, byte
    <2>8. /\ LowBits(new[i], n) = LowBits(data[i], n)
          /\ new[i] - LowBits(new[i], n) = old[i] - LowBits(old[i], n)
      BY <2>5, <2>7
    <2> QED BY <2>8 DEF n, left
  <1> HIDE DEF new
  <1> QED BY <1>6 DEF SameBits, new

----------------------------------------------------------------------------
(* One file *)

\* The kinds and sizes of a variable.
LEMMA ShapeIs ==
  ASSUME shape \in Shapes
  PROVE  /\ shape.kind \in {"pointer", "alias", "info"}
         /\ shape.bits \in Nat /\ shape.num \in Nat
  <1>1. CASE shape \in [kind : {"pointer", "alias"}, bits : ElementBits, num : NumElements]
    BY <1>1, ShapeAssumption
  <1>2. CASE shape \in [kind : {"info"}, bits : {0}, num : {0}]
    BY <1>2
  <1> QED BY <1>1, <1>2 DEF Shapes

\* The whole text, as the lemmas about reading have it.
LEMMA WholeIs ==
  ASSUME shape \in Shapes, content \in Contents
  PROVE  /\ WholeText \in Seq(Items)
         /\ shape.kind = "pointer" => PointerFile(WholeText, shape.bits, shape.num, content)
         /\ shape.kind = "alias" => AliasFile(WholeText, content[1])
         /\ shape.kind = "info" => InfoFile(WholeText, content[1], content[2])
  <1>1. CASE shape.kind = "pointer"
    <2>1. content \in [1 .. BytesFor(shape.bits * shape.num) -> ByteValues]
      BY <1>1 DEF Contents, BytesOf, ByteCount
    <2>2. WholeText = PointerText(shape.bits, shape.num, content)
      BY <1>1 DEF WholeText
    <2>3. PointerFile(WholeText, shape.bits, shape.num, content)
      BY <2>1, <2>2, ShapeIs, PointerTextIs
    <2> QED BY <1>1, <2>3 DEF PointerFile, HasHeader
  <1>2. CASE shape.kind = "alias"
    <2>1. PICK r \in References : content = <<r>>
      BY <1>2 DEF Contents
    <2>2. content[1] \in Nat
      BY <2>1, ShapeAssumption
    <2>3. WholeText = AliasText(shape.bits, shape.num, content[1])
      BY <1>2 DEF WholeText
    <2>4. AliasFile(WholeText, content[1])
      BY <2>2, <2>3, ShapeIs, AliasTextIs
    <2> QED BY <1>2, <2>4 DEF AliasFile, HasHeader
  <1>3. CASE shape.kind = "info"
    <2>1. content \in Labels \X NumVariables
      BY <1>3 DEF Contents
    <2>2. content[1] \in Nat /\ content[2] \in Nat
      BY <2>1, ShapeAssumption
    <2>3. WholeText = InfoText(content[1], content[2])
      BY <1>3 DEF WholeText
    <2>4. InfoFile(WholeText, content[1], content[2])
      BY <2>2, <2>3, InfoTextIs
    <2> QED BY <1>3, <2>4 DEF InfoFile
  <1> QED BY <1>1, <1>2, <1>3, ShapeIs

\* A file as it is left by a death is the beginning of the whole.
LEMMA TearLeaves ==
  ASSUME FileInv, Tear
  PROVE  cutShort' \in BOOLEAN /\ Begins(text, WholeText)'
  <1> DEFINE w == WholeText
  <1>1. text = w /\ phase = "written" /\ shape \in Shapes /\ content \in Contents
        /\ shape' = shape /\ content' = content /\ cutShort \in BOOLEAN
    BY DEF FileInv, Tear
  <1>2. w \in Seq(Items) /\ w' = w
    BY <1>1, WholeIs DEF WholeText
  <1> HIDE DEF w
  <1>3. PICK cut \in 0 .. Len(text) - 1 :
          \/ text' = Prefix(cut) /\ UNCHANGED cutShort
          \/ /\ cut > 0 /\ text[cut].is = "number" /\ text[cut].val > 9
             /\ text' = Shortened(cut) /\ cutShort' = TRUE
    BY DEF Tear
  <1> DEFINE s == Prefix(cut)
  <1>4. cut \in Nat /\ cut < Len(w) /\ Len(w) \in Nat
    BY <1>1, <1>2
  <1>5. /\ s \in Seq(Items) /\ Len(s) = cut
        /\ \A i \in 1 .. cut : s[i] = w[i] /\ w[i] \in Items
    <2>1. s = SubSeq(w, 1, cut)
      BY <1>1 DEF Prefix
    <2>2. \A i \in 1 .. cut : w[i] \in Items
      BY <1>2, <1>4
    <2> HIDE DEF s
    <2> QED BY <1>2, <1>4, <2>1, <2>2
  <1> HIDE DEF s
  <1>6. CASE text' = s /\ cutShort' = cutShort
    BY <1>1, <1>2, <1>4, <1>5, <1>6 DEF Begins, w
  <1>7. CASE /\ cut > 0 /\ text[cut].is = "number" /\ text[cut].val > 9
             /\ text' = Shortened(cut) /\ cutShort' = TRUE
    <2> DEFINE item == s[cut]
               v    == item.val \div 10
               e    == [item EXCEPT !.val = v]
    <2>1. cut \in 1 .. cut /\ item = w[cut] /\ item \in Items /\ item.is = "number" /\ item.val > 9
      BY <1>1, <1>4, <1>5, <1>7
    <2>2. item.val \in Nat
      BY <2>1 DEF Items
    <2>3. v \in Nat /\ v # 0
      BY <2>1, <2>2
    <2>4. text' = [s EXCEPT ![cut] = e]
      BY <1>7 DEF Shortened, s
    <2> HIDE DEF item, v
    <2>5. e \in Items /\ e.is = "number" /\ e.val = v
      BY <2>1, <2>3 DEF Items
    <2> HIDE DEF e
    <2>6. /\ text' \in Seq(Items) /\ Len(text') = cut
          /\ \A i \in 1 .. cut : text'[i] = IF i = cut THEN e ELSE s[i]
      <3>1. cut \in 1 .. Len(s)
        BY <1>5, <2>1
      <3>2. /\ [s EXCEPT ![cut] = e] \in Seq(Items) /\ Len([s EXCEPT ![cut] = e]) = Len(s)
            /\ \A i \in 1 .. Len(s) : [s EXCEPT ![cut] = e][i] = IF i = cut THEN e ELSE s[i]
        BY <1>5, <2>5, <3>1, ExceptSeq
      <3> QED BY <1>5, <2>4, <3>2
    <2>7. \A i \in 1 .. cut : i # cut => text'[i] = w[i]
      BY <1>5, <2>6
    <2>8. text'[cut].is = "number" /\ w[cut].is = "number" /\ text'[cut].val # 0
      BY <2>1, <2>3, <2>5, <2>6
    <2> QED BY <1>2, <1>4, <1>7, <2>6, <2>7, <2>8 DEF Begins, w
  <1> QED BY <1>3, <1>6, <1>7 DEF s

\* What is found valid is restored, not aborted.
LEMMA ReadersFinish ==
  ASSUME FileInv, phase = "valid"
  PROVE  /\ shape.kind = "pointer" => PointerRead(text, shape.bits, shape.num)
         /\ shape.kind = "alias" => AliasRead(text)
  <1>1. /\ shape \in Shapes /\ content \in Contents /\ Begins(text, WholeText)
        /\ wsFails \in BOOLEAN /\ Valid
    BY DEF FileInv
  <1>2. CASE shape.kind = "pointer"
    <2>1. FileValid(text) /\ PointerFile(WholeText, shape.bits, shape.num, content)
      BY <1>1, <1>2, WholeIs DEF Valid
    <2>2. PointerRead(text, shape.bits, shape.num)
      BY <1>1, <2>1, ShapeIs, PointerValid
    <2> QED BY <1>2, <2>2
  <1>3. CASE shape.kind = "alias"
    <2>1. FileValid(text) /\ AliasFile(WholeText, content[1])
      BY <1>1, <1>3, WholeIs DEF Valid
    <2>2. AliasRead(text)
      BY <1>1, <2>1, AliasValid
    <2> QED BY <1>3, <2>2
  <1> QED BY <1>1, <1>2, <1>3, ShapeIs

\* The readers depend on the text and on the library alone.
LEMMA WsSame ==
  ASSUME wsFails' = wsFails PROVE \A t, s : Ws(t, s)' = Ws(t, s)
  BY DEF Ws

\* So does where the header ends,
LEMMA HeaderSame ==
  ASSUME wsFails' = wsFails PROVE \A t : Header(t)' = Header(t)
  BY WsSame DEF Header

\* what is read of an info file,
LEMMA InfoStreamSame ==
  ASSUME wsFails' = wsFails PROVE \A t : InfoStream(t)' = InfoStream(t)
  BY WsSame DEF InfoStream

\* and what each reader makes of a file.
LEMMA ReadersSame ==
  ASSUME wsFails' = wsFails
  PROVE  \A t : /\ FileValid(t)' <=> FileValid(t)
                /\ InfoValid(t)' <=> InfoValid(t)
                /\ AliasReference(t)' = AliasReference(t)
                /\ \A bits, num, old : PointerData(t, bits, num, old)' = PointerData(t, bits, num, old)
  <1>1. \A t : FileValid(t)' <=> FileValid(t)
    BY WsSame, HeaderSame DEF FileValid
  <1>2. \A t : InfoValid(t)' <=> InfoValid(t)
    BY InfoStreamSame DEF InfoValid
  <1>3. \A t : AliasReference(t)' = AliasReference(t)
    BY HeaderSame DEF AliasReference, AliasStream
  <1>4. \A t, bits, num, old : PointerData(t, bits, num, old)' = PointerData(t, bits, num, old)
    BY HeaderSame DEF PointerData
  <1> QED BY <1>1, <1>2, <1>3, <1>4

\* What is on disk begins the whole text, and the phase is what the readers say.
LEMMA FileInvHolds == Spec => []FileInv
  <1>1. Init => FileInv
    BY ShapeAssumption DEF Init, FileInv
  <1>2. FileInv /\ [Next]_vars => FileInv'
    <2> SUFFICES ASSUME FileInv, [Next]_vars PROVE FileInv'
      OBVIOUS
    <2>1. shape \in Shapes /\ wsFails \in BOOLEAN /\ cutShort \in BOOLEAN
      BY DEF FileInv
    <2>2. ASSUME phase = "none", phase' = "written", shape' = shape, wsFails' = wsFails,
                 cutShort' = cutShort, content' \in Contents', text' = WholeText',
                 text' \in Seq(Items)
          PROVE  FileInv'
      <3>1. (shape \in Shapes)'
        BY <2>1, <2>2 DEF Shapes
      <3>2. Begins(text, WholeText)'
        BY <2>2 DEF Begins
      <3>3. ~cutShort
        BY <2>2 DEF FileInv
      <3> QED BY <2>1, <2>2, <3>1, <3>2, <3>3 DEF FileInv
    <2>3. CASE CheckpointPointer
      <3>1. PICK data \in BytesOf(shape) :
              content' = data /\ text' = PointerText(shape.bits, shape.num, data)
        BY <2>3 DEF CheckpointPointer
      <3>2. /\ phase = "none" /\ phase' = "written" /\ shape.kind = "pointer" /\ shape' = shape
            /\ wsFails' = wsFails /\ cutShort' = cutShort
        BY <2>3 DEF CheckpointPointer
      <3>3. content' \in Contents'
        BY <3>1, <3>2 DEF Contents, BytesOf, ByteCount
      <3>4. text' = WholeText'
        BY <3>1, <3>2 DEF WholeText
      <3>5. text' \in Seq(Items)
        <4>1. data \in [1 .. BytesFor(shape.bits * shape.num) -> ByteValues]
          BY DEF BytesOf, ByteCount
        <4>2. PointerFile(text', shape.bits, shape.num, data)
          BY <2>1, <3>1, <4>1, ShapeIs, PointerTextIs
        <4> QED BY <4>2 DEF PointerFile, HasHeader
      <3> QED BY <2>2, <3>2, <3>3, <3>4, <3>5
    <2>4. CASE CheckpointAlias
      <3>1. PICK r \in References :
              content' = <<r>> /\ text' = AliasText(shape.bits, shape.num, r)
        BY <2>4 DEF CheckpointAlias
      <3>2. /\ phase = "none" /\ phase' = "written" /\ shape.kind = "alias" /\ shape' = shape
            /\ wsFails' = wsFails /\ cutShort' = cutShort
        BY <2>4 DEF CheckpointAlias
      <3>3. content' \in Contents'
        BY <3>1, <3>2 DEF Contents
      <3>4. text' = WholeText'
        BY <3>1, <3>2 DEF WholeText
      <3>5. text' \in Seq(Items)
        <4>1. AliasFile(text', r)
          BY <2>1, <3>1, ShapeIs, ShapeAssumption, AliasTextIs
        <4> QED BY <4>1 DEF AliasFile, HasHeader
      <3> QED BY <2>2, <3>2, <3>3, <3>4, <3>5
    <2>5. CASE WriteInfo
      <3>1. PICK label \in Labels, num \in NumVariables :
              content' = <<label, num>> /\ text' = InfoText(label, num)
        BY <2>5 DEF WriteInfo
      <3>2. /\ phase = "none" /\ phase' = "written" /\ shape.kind = "info" /\ shape' = shape
            /\ wsFails' = wsFails /\ cutShort' = cutShort
        BY <2>5 DEF WriteInfo
      <3>3. content' \in Contents'
        BY <3>1, <3>2 DEF Contents
      <3>4. text' = WholeText'
        BY <3>1, <3>2 DEF WholeText
      <3>5. text' \in Seq(Items)
        <4>1. InfoFile(text', label, num)
          BY <3>1, ShapeAssumption, InfoTextIs
        <4> QED BY <4>1 DEF InfoFile
      <3> QED BY <2>2, <3>2, <3>3, <3>4, <3>5
    <2>6. CASE Tear
      <3>1. cutShort' \in BOOLEAN /\ Begins(text, WholeText)'
        BY <2>6, TearLeaves
      <3>2. /\ phase' = "torn" /\ shape' = shape /\ wsFails' = wsFails /\ content' = content
            /\ phase = "written"
        BY <2>6 DEF Tear
      <3>3. content' \in Contents'
        BY <3>2 DEF FileInv, Contents, BytesOf, ByteCount
      <3>4. (shape \in Shapes)'
        BY <2>1, <3>2 DEF Shapes
      <3> QED BY <2>1, <3>1, <3>2, <3>3, <3>4 DEF FileInv
    <2>7. ASSUME phase # "none", content' = content, shape' = shape, text' = text,
                 wsFails' = wsFails, cutShort' = cutShort
          PROVE  /\ (shape \in Shapes /\ wsFails \in BOOLEAN /\ cutShort \in BOOLEAN)'
                 /\ (content \in Contents /\ Begins(text, WholeText))'
                 /\ Valid' <=> Valid
      <3>1. content \in Contents /\ Begins(text, WholeText)
        BY <2>7 DEF FileInv
      <3>2. Contents' = Contents /\ WholeText' = WholeText
        BY <2>7 DEF Contents, BytesOf, ByteCount, WholeText
      <3>3. Begins(text, WholeText)'
        BY <2>7, <3>1, <3>2 DEF Begins
      <3>4. Valid' <=> Valid
        BY <2>7, ReadersSame DEF Valid
      <3> QED BY <2>1, <2>7, <3>1, <3>2, <3>3, <3>4 DEF Shapes
    <2>8. CASE Validate
      <3>1. /\ phase # "none" /\ content' = content /\ shape' = shape /\ text' = text
            /\ wsFails' = wsFails /\ cutShort' = cutShort
            /\ phase' = IF Valid THEN "valid" ELSE "rejected"
        BY <2>8 DEF Validate, Valid
      <3> QED BY <2>7, <3>1 DEF FileInv
    <2>9. CASE RestartReadPointer
      <3>1. /\ phase = "valid" /\ shape.kind = "pointer" /\ content' = content /\ shape' = shape
            /\ text' = text /\ wsFails' = wsFails /\ cutShort' = cutShort
        BY <2>9 DEF RestartReadPointer
      <3>2. PointerRead(text, shape.bits, shape.num)
        BY <3>1, ReadersFinish
      <3>3. PICK old \in BytesOf(shape) :
              /\ phase' = "restored"
              /\ memory' = [before |-> old,
                            after |-> PointerData(text, shape.bits, shape.num, old)]
        BY <2>9, <3>2 DEF RestartReadPointer
      <3>4. Restored'
        BY <3>1, <3>3, ReadersSame DEF Restored, BytesOf, ByteCount
      <3>5. Valid
        BY <3>1 DEF FileInv
      <3> QED BY <2>7, <3>1, <3>3, <3>4, <3>5 DEF FileInv
    <2>10. CASE RestartReadAlias
      <3>1. /\ phase = "valid" /\ shape.kind = "alias" /\ content' = content /\ shape' = shape
            /\ text' = text /\ wsFails' = wsFails /\ cutShort' = cutShort
        BY <2>10 DEF RestartReadAlias
      <3>2. phase' = "restored" /\ memory' = <<AliasReference(text)>>
        BY <2>10, <3>1, ReadersFinish DEF RestartReadAlias
      <3>3. Restored'
        BY <3>1, <3>2, ReadersSame DEF Restored
      <3>4. Valid
        BY <3>1 DEF FileInv
      <3> QED BY <2>7, <3>1, <3>2, <3>3, <3>4 DEF FileInv
    <2>11. CASE ReadInfo
      <3>1. /\ phase = "valid" /\ shape.kind = "info" /\ content' = content /\ shape' = shape
            /\ text' = text /\ wsFails' = wsFails /\ cutShort' = cutShort
            /\ phase' = "restored" /\ memory' = InfoStream(text).nums
        BY <2>11 DEF ReadInfo
      <3>2. Restored'
        BY <3>1, InfoStreamSame DEF Restored
      <3>3. Valid
        BY <3>1 DEF FileInv
      <3> QED BY <2>7, <3>1, <3>2, <3>3 DEF FileInv
    <2>12. CASE UNCHANGED vars
      <3>1. /\ phase' = phase /\ content' = content /\ shape' = shape /\ text' = text
            /\ wsFails' = wsFails /\ cutShort' = cutShort /\ memory' = memory
        BY <2>12 DEF vars
      <3>2. CASE phase = "none"
        BY <2>1, <3>1, <3>2 DEF FileInv, Shapes
      <3>3. CASE phase # "none"
        <4>1. (Restored' <=> Restored) /\ WholeText' = WholeText
          BY <3>1, ReadersSame, InfoStreamSame DEF Restored, WholeText, BytesOf, ByteCount
        <4> QED BY <2>7, <3>1, <3>3, <4>1 DEF FileInv
      <3> QED BY <3>2, <3>3
    <2> QED BY <2>3, <2>4, <2>5, <2>6, <2>8, <2>9, <2>10, <2>11, <2>12 DEF Next
  <1> QED BY <1>1, <1>2, PTL DEF Spec

----------------------------------------------------------------------------
(* Theorems *)

\* A file found valid, torn or not, is read to its end by the function the
\* restart block calls for it: __acriilCheckpointValid never lets through what
\* ReadPointer or ReadAlias would stop the program for.
THEOREM ValidFilesReadable == Spec => []ValidIsReadable
  <1>1. FileInv => ValidIsReadable
    BY DEF FileInv, ValidIsReadable
  <1> QED BY <1>1, FileInvHolds, PTL

\* Unless the text is ambiguous, what restart reads is bit by bit what was
\* written, wherever the write stopped, and a whole file is never turned down.
THEOREM FilesRoundTrip == Spec => []RoundTripUnlessAmbiguous
  <1>1. FileInv => RoundTripUnlessAmbiguous
    <2> SUFFICES ASSUME FileInv, ~Ambiguous PROVE RoundTrip
      BY DEF RoundTripUnlessAmbiguous
    <2> DEFINE w == WholeText
               c == BytesFor(shape.bits * shape.num)
    <2>1. /\ shape \in Shapes /\ wsFails \in BOOLEAN
          /\ shape.kind \in {"pointer", "alias", "info"}
          /\ shape.bits \in Nat /\ shape.num \in Nat
      BY ShapeIs DEF FileInv
    <2>2. phase # "none" => content \in Contents /\ Begins(text, w)
      BY DEF FileInv
    <2>3. c \in Nat
      <3>1. shape.bits * shape.num \in Nat
        BY <2>1
      <3> QED BY <3>1, BytesAre
    <2>4. ~(cutShort /\ ~wsFails)
      BY DEF Ambiguous
    <2>5. ASSUME shape.kind = "pointer", phase # "none"
          PROVE  /\ content \in [1 .. c -> ByteValues] /\ DOMAIN content = 1 .. c
                 /\ c = 0 \/ content[1] \notin Space
                 /\ c = 0 => ~wsFails
      <3>1. content \in [1 .. c -> ByteValues]
        BY <2>2, <2>5 DEF Contents, BytesOf, ByteCount
      <3> HIDE DEF c
      <3>2. Len(content) = c
        BY <2>3, <3>1
      <3>3. c = 0 \/ content[1] \notin Space
        BY <2>3, <2>5, <3>2 DEF Ambiguous, LeadingSpace
      <3>4. c = 0 => ~wsFails
        BY <2>5 DEF Ambiguous, NoData, ByteCount, c
      <3> QED BY <3>1, <3>3, <3>4
    <2>6. ASSUME phase = "restored" PROVE SameContent
      <3>1. Valid /\ Restored /\ phase # "none"
        BY <2>6 DEF FileInv
      <3>2. CASE shape.kind = "pointer"
        <4>1. PointerFile(w, shape.bits, shape.num, content)
          BY <2>1, <2>2, <3>1, <3>2, WholeIs
        <4>2. PICK old \in BytesOf(shape) :
                memory = [before |-> old,
                          after |-> PointerData(text, shape.bits, shape.num, old)]
          BY <3>1, <3>2 DEF Restored
        <4>3. old \in [1 .. c -> ByteValues]
          BY DEF BytesOf, ByteCount
        <4>4. FileValid(text)
          BY <3>1, <3>2 DEF Valid
        <4>5. SameBits(shape.bits, shape.num, content, old,
                       PointerData(text, shape.bits, shape.num, old))
          BY <2>1, <2>2, <2>5, <3>1, <3>2, <4>1, <4>3, <4>4, DataIs
        <4>6. /\ memory.before = old
              /\ memory.after = PointerData(text, shape.bits, shape.num, old)
          BY <4>2
        <4>7. SameBits(shape.bits, shape.num, content, memory.before, memory.after)
          BY <4>5, <4>6
        <4>8. DOMAIN content = 1 .. BytesFor(shape.bits * shape.num)
          BY <2>5, <3>1, <3>2
        <4>9. RestoredBits
          BY <4>7, <4>8 DEF RestoredBits, SameBits
        <4> QED BY <3>2, <4>9 DEF SameContent
      <3>3. CASE shape.kind = "alias"
        <4>1. FileValid(text) /\ memory = <<AliasReference(text)>>
          BY <3>1, <3>3 DEF Valid, Restored
        <4>2. AliasFile(w, content[1])
          BY <2>1, <2>2, <3>1, <3>3, WholeIs
        <4>3. AliasReference(text) = content[1]
          BY <2>1, <2>2, <2>4, <3>1, <4>1, <4>2, AliasValid
        <4>4. content = <<content[1]>>
          BY <2>2, <3>1, <3>3 DEF Contents
        <4> QED BY <3>3, <4>1, <4>3, <4>4 DEF SameContent
      <3>4. CASE shape.kind = "info"
        <4>1. InfoStream(text).ok /\ memory = InfoStream(text).nums
          BY <3>1, <3>4 DEF Valid, InfoValid, Restored
        <4>2. InfoFile(w, content[1], content[2])
          BY <2>1, <2>2, <3>1, <3>4, WholeIs
        <4>3. InfoStream(text).nums = <<content[1], content[2]>>
          BY <2>1, <2>2, <2>4, <3>1, <4>1, <4>2, InfoRead
        <4>4. content = <<content[1], content[2]>>
          BY <2>2, <3>1, <3>4 DEF Contents
        <4> QED BY <3>4, <4>1, <4>3, <4>4 DEF SameContent
      <3> QED BY <2>1, <3>2, <3>3, <3>4
    <2>7. ASSUME phase = "rejected" PROVE text # w
      <3> SUFFICES ASSUME text = w PROVE FALSE
        OBVIOUS
      <3>1. ~Valid /\ phase # "none"
        BY <2>7 DEF FileInv
      <3>2. Begins(w, w)
        BY <2>2, <3>1
      <3>3. CASE shape.kind = "pointer"
        <4>1. PointerFile(w, shape.bits, shape.num, content)
          BY <2>1, <2>2, <3>1, <3>3, WholeIs
        <4>2. c # 0 => ~IsSpace(w[9])
          <5>1. c # 0 => 1 \in 1 .. c /\ 8 + 1 = 9
            BY <2>3
          <5>2. c # 0 => w[9] = Byte(content[1])
            BY <4>1, <5>1 DEF PointerFile
          <5> QED BY <2>5, <3>1, <3>3, <5>2 DEF IsSpace, Byte
        <4>3. IF c = 0 THEN ~wsFails ELSE ~IsSpace(w[9])
          BY <2>5, <3>1, <3>3, <4>2
        <4>4. FileValid(w)
          BY <2>1, <3>2, <4>1, <4>3, PointerWhole
        <4> QED BY <3>1, <3>3, <4>4 DEF Valid
      <3>4. CASE shape.kind = "alias"
        <4>1. AliasFile(w, content[1])
          BY <2>1, <2>2, <3>1, <3>4, WholeIs
        <4>2. FileValid(w)
          BY <2>1, <3>2, <4>1, AliasWhole
        <4> QED BY <3>1, <3>4, <4>2 DEF Valid
      <3>5. CASE shape.kind = "info"
        <4>1. InfoFile(w, content[1], content[2])
          BY <2>1, <2>2, <3>1, <3>5, WholeIs
        <4>2. Len(w) = 4
          BY <4>1 DEF InfoFile
        <4>3. InfoStream(w).ok /\ InfoStream(w).nums = <<content[1], w[3].val>>
          BY <2>1, <3>2, <4>1, <4>2, InfoRead
        <4>4. content[1] \in Nat
          BY <2>2, <3>1, <3>5, ShapeAssumption DEF Contents
        <4>5. InfoStream(w).nums[1] >= 0
          BY <4>3, <4>4
        <4> QED BY <3>1, <3>5, <4>3, <4>5 DEF Valid, InfoValid
      <3> QED BY <2>1, <3>3, <3>4, <3>5
    <2> QED BY <2>6, <2>7 DEF RoundTrip
  <1> QED BY <1>1, FileInvHolds, PTL
=============================================================================
