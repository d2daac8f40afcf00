---------------------------- MODULE DetectionProofs ----------------------------
(***************************************************************************)
(* Detection.tla reports what it should for every number of cells and      *)
(* classes, every outcome of the network and every relation of overlaps;   *)
(* Overlay.tla draws each detection inside its picture.                    *)
(***************************************************************************)
EXTENDS Detection, Overlay, SequenceTheorems, TLAPS

Box == DOMAIN boxes
Scores == [n \in Box |-> Score(n)]
Conflicts == {c \in Box \X Box : Overlaps(c[1], c[2])}

TypeOK ==
    /\ cells \in [1 .. Cells -> CellKind]
    /\ next \in Nat \ {0}
    /\ boxes \in Seq([cell : 1 .. Cells, class : 1 .. Classes])
    /\ rank \in Seq([prob : Int, box : Nat]) /\ Len(rank) = Len(boxes)
    /\ calls \in Seq([left : Nat, right : Nat])
    /\ low \in Nat /\ high \in Nat /\ key \in [prob : Int, box : Nat]
    /\ results \in Seq([box : Nat, prop : Int])

-----------------------------------------------------------------------------
(* The invariant of the sort *)

Partitioning == phase \in {"down", "up", "place"}
Sorting == phase = "call" \/ Partitioning

\* The array with the key in its hole.
Filled ==
    CASE phase \in {"down", "place"} -> [rank EXCEPT ![low] = key]
      [] phase = "up" -> [rank EXCEPT ![high] = key]
      [] OTHER -> rank

\* Every box is in the array once, with its own score.
Whole(a, scores) ==
    /\ DOMAIN a = DOMAIN scores
    /\ \A i \in DOMAIN a : a[i].box \in DOMAIN scores /\ a[i].prob = scores[a[i].box]
    /\ \A i, j \in DOMAIN a : a[i].box = a[j].box => i = j
    /\ \A n \in DOMAIN scores : \E i \in DOMAIN a : a[i].box = n

In(i, call) == call.left <= i /\ i <= call.right
Together(i, j, cs) == \E k \in DOMAIN cs : In(i, cs[k]) /\ In(j, cs[k])

\* What is out of order is in one range that is still to be sorted.
Ordered(a, cs) ==
    \A i, j \in DOMAIN a : i < j => a[i].prob >= a[j].prob \/ Together(i, j, cs)

\* The ranges still to be sorted are apart and within the array of n entries.
Apart(cs, n) ==
    /\ \A k, l \in DOMAIN cs : \A i \in 1 .. n : In(i, cs[k]) /\ In(i, cs[l]) => k = l
    /\ \A k \in DOMAIN cs : cs[k].left >= 1 /\ cs[k].right <= n

Partitioned ==
    /\ calls # <<>>
    /\ Call.left <= low /\ low <= high /\ high <= Call.right
    /\ \A i \in Call.left .. low - 1 : rank[i].prob >= key.prob
    /\ \A i \in high + 1 .. Call.right : rank[i].prob <= key.prob
    /\ phase = "down" => low < high
    /\ phase = "place" => low = high

SortInv ==
    /\ phase = "process" => Whole(rank, Scores)
    /\ Sorting => /\ Whole(Filled, Scores)
                  /\ Ordered(Filled, calls)
                  /\ Apart(calls, Len(rank))
    /\ Partitioning => Partitioned

-----------------------------------------------------------------------------
(* The invariant of the suppression and of the results *)

\* The entries that are left are boxes in descending order.
Kept(a, scores) ==
    /\ \A i \in DOMAIN a : a[i].box # 0 =>
         a[i].box \in DOMAIN scores /\ a[i].prob = scores[a[i].box]
    /\ \A i, j \in DOMAIN a : a[i].box # 0 /\ a[i].box = a[j].box => i = j
    /\ \A i, j \in DOMAIN a : i < j => a[i].prob >= a[j].prob

\* The entries below done have suppressed what they overlap, and nothing else
\* is missing.
Greedy(a, scores, conflicts, done) ==
    /\ \A p, q \in DOMAIN a :
         p < q /\ p < done /\ a[p].box # 0 /\ a[q].box # 0 =>
           <<a[p].box, a[q].box>> \notin conflicts
    /\ \A n \in DOMAIN scores :
         \/ \E i \in DOMAIN a : a[i].box = n
         \/ \E p \in DOMAIN a : /\ p < done /\ a[p].box # 0
                                /\ a[p].prob >= scores[n]
                                /\ <<a[p].box, n>> \in conflicts

OneClass == \A n, m \in Box : boxes[n].class = boxes[m].class

NmsInv ==
    /\ phase \in {"call", "down", "up", "place", "nms"} =>
         classes # {} /\ \A c \in classes : \E n \in Box : boxes[n].class = c
    /\ phase \in {"nms", "collect", "done"} => Kept(rank, Scores)
    /\ OneClass =>
         /\ phase = "nms" => Greedy(rank, Scores, Conflicts, next)
         /\ phase \in {"collect", "done"} =>
              Greedy(rank, Scores, Conflicts, Len(rank) + 1)

Entry(a, i) == [box |-> a[i].box, prop |-> a[i].prob]

\* The results are the first entries left, below done, in their order.
Reported(res, a, done) ==
    /\ \A k \in DOMAIN res :
         \E i \in DOMAIN a : i < done /\ a[i].box # 0 /\ res[k] = Entry(a, i)
    /\ \A k, l \in DOMAIN res : k < l =>
         \E i, j \in DOMAIN a : i < j /\ res[k] = Entry(a, i) /\ res[l] = Entry(a, j)
    /\ Len(res) < MaxResults =>
         \A i \in DOMAIN a : i < done /\ a[i].box # 0 =>
           \E k \in DOMAIN res : res[k] = Entry(a, i)

CollectInv ==
    /\ phase \notin {"collect", "done"} => results = <<>>
    /\ phase = "collect" => Reported(results, rank, next)
    /\ phase = "done" => Reported(results, rank, Len(rank) + 1)

Inv == TypeOK /\ SortInv /\ NmsInv /\ CollectInv

\* With any number of classes: the first entry is the best candidate and is not
\* suppressed, and what is missing overlaps another that is as probable.
Explained(a, scores, conflicts) ==
    \A n \in DOMAIN scores :
      /\ a[1].box # 0 /\ a[1].prob >= scores[n]
      /\ \/ \E i \in DOMAIN a : a[i].box = n
         \/ \E m \in DOMAIN scores : /\ m # n /\ scores[m] >= scores[n]
                                     /\ <<m, n>> \in conflicts

\* An entry below done is reported, or the results are full of better ones.
Capped(res, a, done) ==
    \A i \in DOMAIN a : i < done /\ a[i].box # 0 =>
      \/ \E k \in DOMAIN res : res[k] = Entry(a, i)
      \/ Len(res) = MaxResults /\ \A k \in DOMAIN res : res[k].prop >= a[i].prob

AnyClassInv ==
    /\ Len(results) <= MaxResults
    /\ phase \in {"nms", "collect", "done"} => Explained(rank, Scores, Conflicts)
    /\ phase = "collect" => Capped(results, rank, next)
    /\ phase = "done" => Capped(results, rank, Len(rank) + 1)

-----------------------------------------------------------------------------
(* Sequences, and arrays of which two entries have changed places *)

LEMMA Replaced ==
    ASSUME NEW S, NEW q \in Seq(S), NEW i \in 1 .. Len(q), NEW x \in S
    PROVE  /\ [q EXCEPT ![i] = x] \in Seq(S)
           /\ Len([q EXCEPT ![i] = x]) = Len(q)
           /\ DOMAIN [q EXCEPT ![i] = x] = 1 .. Len(q)
           /\ [q EXCEPT ![i] = x][i] = x
           /\ \A j \in 1 .. Len(q) : j # i => [q EXCEPT ![i] = x][j] = q[j]
BY ExceptSeq

LEMMA Listed ==
    ASSUME NEW S, NEW n \in Nat, NEW q \in [1 .. n -> S]
    PROVE  q \in Seq(S) /\ Len(q) = n
OBVIOUS

LEMMA Added ==
    ASSUME NEW S, NEW q \in Seq(S), NEW x \in S
    PROVE  /\ Append(q, x) \in Seq(S) /\ Len(q) \in Nat
           /\ Len(Append(q, x)) = Len(q) + 1
           /\ DOMAIN q = 1 .. Len(q) /\ DOMAIN Append(q, x) = 1 .. Len(q) + 1
           /\ Append(q, x)[Len(q) + 1] = x
           /\ \A j \in 1 .. Len(q) : Append(q, x)[j] = q[j]
OBVIOUS

LEMMA Rest ==
    ASSUME NEW S, NEW q \in Seq(S), q # <<>>
    PROVE  /\ Len(q) \in Nat /\ Len(q) >= 1 /\ DOMAIN q = 1 .. Len(q)
           /\ Head(q) = q[1] /\ Head(q) \in S
           /\ Tail(q) \in Seq(S) /\ Len(Tail(q)) = Len(q) - 1
           /\ DOMAIN Tail(q) = 1 .. Len(q) - 1
           /\ \A j \in 1 .. Len(q) - 1 : Tail(q)[j] = q[j + 1]
OBVIOUS

\* The head gives way to two entries.
LEMMA Split ==
    ASSUME NEW S, NEW q \in Seq(S), q # <<>>, NEW x \in S, NEW y \in S,
           NEW r, r = <<x, y>> \o Tail(q)
    PROVE  /\ r \in Seq(S) /\ Len(r) = Len(q) + 1 /\ DOMAIN r = 1 .. Len(q) + 1
           /\ r[1] = x /\ r[2] = y
           /\ \A j \in 3 .. Len(q) + 1 : r[j] = q[j - 1]
           /\ \A j \in 2 .. Len(q) : r[j + 1] = q[j]
<1>1. <<x, y>> \in Seq(S) /\ Len(<<x, y>>) = 2
  OBVIOUS
<1>2. /\ Tail(q) \in Seq(S) /\ Len(Tail(q)) = Len(q) - 1 /\ Len(q) \in Nat
      /\ \A j \in 1 .. Len(q) - 1 : Tail(q)[j] = q[j + 1]
  BY Rest
<1>3. r \in Seq(S) /\ Len(r) = Len(q) + 1
  BY <1>1, <1>2
<1>4. r[1] = x /\ r[2] = y
  BY <1>1, <1>2
<1>5. ASSUME NEW j \in 3 .. Len(q) + 1 PROVE r[j] = q[j - 1]
  <2>1. j - 2 \in 1 .. Len(q) - 1
    BY <1>2
  <2>2. r[j] = Tail(q)[j - 2]
    BY <1>1, <1>2, <2>1
  <2>3. QED BY <1>2, <2>1, <2>2
<1>6. ASSUME NEW j \in 2 .. Len(q) PROVE r[j + 1] = q[j]
  <2>1. j + 1 \in 3 .. Len(q) + 1 /\ j + 1 - 1 = j
    BY <1>2
  <2>2. r[j + 1] = q[j + 1 - 1]
    BY <1>5, <2>1
  <2>3. QED BY <2>1, <2>2
<1>7. QED BY <1>3, <1>4, <1>5, <1>6

Swapped(a, b, i, j) ==
    /\ DOMAIN b = DOMAIN a
    /\ i \in DOMAIN a /\ j \in DOMAIN a
    /\ b[i] = a[j] /\ b[j] = a[i]
    /\ \A k \in DOMAIN a : k # i /\ k # j => b[k] = a[k]

LEMMA SwapWhole ==
    ASSUME NEW a, NEW b, NEW scores, NEW i, NEW j,
           Swapped(a, b, i, j), Whole(a, scores)
    PROVE  Whole(b, scores)
<1> DEFINE s(k) == IF k = i THEN j ELSE IF k = j THEN i ELSE k
<1>1. \A k \in DOMAIN a : s(k) \in DOMAIN a /\ b[k] = a[s(k)] /\ b[s(k)] = a[k]
  BY DEF Swapped
<1>2. \A k, l \in DOMAIN a : s(k) = s(l) => k = l
  BY DEF Swapped
<1>3. DOMAIN b = DOMAIN a
  BY DEF Swapped
<1> HIDE DEF s
<1>4. ASSUME NEW k \in DOMAIN b
      PROVE  b[k].box \in DOMAIN scores /\ b[k].prob = scores[b[k].box]
  <2>1. s(k) \in DOMAIN a /\ b[k] = a[s(k)]
    BY <1>1, <1>3
  <2>2. a[s(k)].box \in DOMAIN scores /\ a[s(k)].prob = scores[a[s(k)].box]
    BY <2>1 DEF Whole
  <2>3. QED BY <2>1, <2>2
<1>5. ASSUME NEW k \in DOMAIN b, NEW l \in DOMAIN b, b[k].box = b[l].box PROVE k = l
  <2>1. /\ s(k) \in DOMAIN a /\ b[k] = a[s(k)]
        /\ s(l) \in DOMAIN a /\ b[l] = a[s(l)]
    BY <1>1, <1>3
  <2>2. a[s(k)].box = a[s(l)].box
    BY <1>5, <2>1
  <2>3. s(k) = s(l)
    BY <2>1, <2>2 DEF Whole
  <2>4. QED BY <1>2, <1>3, <2>3
<1>6. ASSUME NEW n \in DOMAIN scores PROVE \E k \in DOMAIN b : b[k].box = n
  <2>1. PICK k \in DOMAIN a : a[k].box = n
    BY DEF Whole
  <2>2. QED BY <1>1, <1>3, <2>1
<1>7. QED BY <1>3, <1>4, <1>5, <1>6 DEF Whole

\* Two entries of one range may change places.
LEMMA SwapOrdered ==
    ASSUME NEW a, NEW b, NEW cs, NEW n \in Nat, NEW c \in DOMAIN cs,
           NEW i \in Nat, NEW j \in Nat, Swapped(a, b, i, j),
           DOMAIN a = 1 .. n, Ordered(a, cs), Apart(cs, n),
           cs[c].left \in Nat, cs[c].right \in Nat,
           In(i, cs[c]), In(j, cs[c])
    PROVE  Ordered(b, cs)
<1> DEFINE s(k) == IF k = i THEN j ELSE IF k = j THEN i ELSE k
<1>1. \A k \in 1 .. n : s(k) \in 1 .. n /\ b[k] = a[s(k)]
  BY DEF Swapped
<1>2. \A k \in 1 .. n : In(k, cs[c]) \/ s(k) = k
  OBVIOUS
<1>3. \A k \in 1 .. n : In(k, cs[c]) => In(s(k), cs[c])
  OBVIOUS
<1> HIDE DEF s
<1> SUFFICES ASSUME NEW k \in 1 .. n, NEW l \in 1 .. n, k < l, ~ Together(k, l, cs)
             PROVE  b[k].prob >= b[l].prob
  BY DEF Ordered, Swapped
<1>4. ~ (In(k, cs[c]) /\ In(l, cs[c]))
  BY DEF Together
<1>5. CASE ~ In(k, cs[c]) /\ ~ In(l, cs[c])
  <2>1. s(k) = k /\ s(l) = l
    BY <1>2, <1>5
  <2>2. QED BY <1>1, <2>1 DEF Ordered
<1>6. CASE In(k, cs[c]) /\ ~ In(l, cs[c])
  <2>1. s(l) = l /\ In(s(k), cs[c]) /\ s(k) \in 1 .. n
    BY <1>1, <1>2, <1>3, <1>6
  <2>2. s(k) < l
    BY <1>6, <2>1 DEF In
  <2>3. ~ Together(s(k), l, cs)
    BY <1>6, <2>1 DEF Together, Apart
  <2>4. QED BY <1>1, <2>1, <2>2, <2>3 DEF Ordered
<1>7. CASE ~ In(k, cs[c]) /\ In(l, cs[c])
  <2>1. s(k) = k /\ In(s(l), cs[c]) /\ s(l) \in 1 .. n
    BY <1>1, <1>2, <1>3, <1>7
  <2>2. k < s(l)
    BY <1>7, <2>1 DEF In
  <2>3. ~ Together(k, s(l), cs)
    BY <1>7, <2>1 DEF Together, Apart
  <2>4. QED BY <1>1, <2>1, <2>2, <2>3 DEF Ordered
<1>8. QED BY <1>4, <1>5, <1>6, <1>7

-----------------------------------------------------------------------------
(* Steps of the sort *)

\* The boxes and their scores do not change after process.
LEMMA Unmoved ==
    ASSUME UNCHANGED <<input, boxes>>
    PROVE  Scores' = Scores /\ Conflicts' = Conflicts /\ Box' = Box /\ OneClass' = OneClass
<1>1. cells' = cells /\ overlap' = overlap /\ boxes' = boxes
  BY DEF input
<1>2. QED BY <1>1 DEF Scores, Conflicts, Box, OneClass, Score, Probability, Overlaps

LEMMA Shape ==
    ASSUME TypeOK
    PROVE  /\ Len(rank) \in Nat /\ DOMAIN rank = 1 .. Len(rank)
           /\ Box = 1 .. Len(rank) /\ DOMAIN Scores = 1 .. Len(rank)
           /\ \A i \in 1 .. Len(rank) : rank[i] \in [prob : Int, box : Nat]
<1>1. /\ Len(rank) \in Nat /\ DOMAIN rank = 1 .. Len(rank)
  BY DEF TypeOK
<1>4. ASSUME NEW i \in 1 .. Len(rank) PROVE rank[i] \in [prob : Int, box : Nat]
  <2>1. rank \in Seq([prob : Int, box : Nat])
    BY DEF TypeOK
  <2>2. QED BY <2>1, ElementOfSeq
<1>2. DOMAIN boxes = 1 .. Len(rank)
  BY DEF TypeOK
<1>3. QED BY <1>1, <1>2, <1>4 DEF Box, Scores

\* The range being partitioned.
LEMMA Active ==
    ASSUME TypeOK, calls # <<>>, Apart(calls, Len(rank))
    PROVE  /\ 1 \in DOMAIN calls /\ Call = calls[1]
           /\ Call \in [left : Nat, right : Nat]
           /\ Call.left >= 1 /\ Call.right <= Len(rank)
<1>1. /\ Len(calls) \in Nat /\ Len(calls) >= 1 /\ DOMAIN calls = 1 .. Len(calls)
      /\ Head(calls) = calls[1] /\ Head(calls) \in [left : Nat, right : Nat]
  BY Rest DEF TypeOK
<1>2. QED BY <1>1 DEF Call, Apart

\* A step between two classes, or before or after the suppression, leaves the
\* other parts of the invariant as they are.
LEMMA SortFrame ==
    ASSUME NmsInv, CollectInv, Sorting, Sorting',
           UNCHANGED <<input, boxes, classes, results>>
    PROVE  NmsInv' /\ CollectInv'
<1>1. Box' = Box /\ boxes' = boxes /\ classes' = classes /\ results' = results
  BY Unmoved
<1>2. NmsInv'
  BY <1>1 DEF NmsInv, Sorting, Partitioning
<1>3. CollectInv'
  BY <1>1 DEF CollectInv, Sorting, Partitioning
<1>4. QED BY <1>2, <1>3

LEMMA ShortStep == Inv /\ ShortCall => Inv'
<1> SUFFICES ASSUME Inv, ShortCall PROVE Inv'
  OBVIOUS
<1> DEFINE n == Len(rank)
<1>1. /\ phase = "call" /\ phase' = "call" /\ Call.left >= Call.right
      /\ calls # <<>> /\ calls' = Tail(calls) /\ rank' = rank
      /\ UNCHANGED <<input, next, boxes, low, high, key, classes, results>>
  BY DEF ShortCall
<1>2. Sorting /\ Sorting' /\ Filled = rank /\ Filled' = rank
  BY <1>1 DEF Sorting, Filled
<1>3. TypeOK /\ Whole(rank, Scores) /\ Ordered(rank, calls) /\ Apart(calls, n)
  BY <1>2 DEF Inv, SortInv
<1>4. /\ calls' \in Seq([left : Nat, right : Nat])
      /\ DOMAIN calls = 1 .. Len(calls) /\ Len(calls) \in Nat
      /\ DOMAIN calls' = 1 .. Len(calls) - 1
      /\ \A k \in 1 .. Len(calls) - 1 : calls'[k] = calls[k + 1]
      /\ Call = calls[1] /\ Call \in [left : Nat, right : Nat]
  BY <1>1, <1>3, Rest DEF TypeOK, Call
<1>5. TypeOK'
  BY <1>1, <1>3, <1>4 DEF TypeOK, input
<1>6. Apart(calls', n)
  <2>1. \A k \in DOMAIN calls' : k + 1 \in DOMAIN calls /\ calls'[k] = calls[k + 1]
    BY <1>4
  <2>2. \A k, l \in DOMAIN calls' : k + 1 = l + 1 => k = l
    BY <1>4
  <2>3. QED BY <1>3, <2>1, <2>2 DEF Apart
<1>7. Ordered(rank, calls')
  <2>1. SUFFICES ASSUME NEW i \in 1 .. n, NEW j \in 1 .. n, i < j, Together(i, j, calls)
                 PROVE  Together(i, j, calls')
    BY <1>3, Shape DEF Ordered
  <2>2. PICK k \in DOMAIN calls : In(i, calls[k]) /\ In(j, calls[k])
    BY <2>1 DEF Together
  <2>3. k # 1
    BY <1>1, <1>3, <1>4, <2>1, <2>2, Shape DEF In
  <2>4. k - 1 \in DOMAIN calls' /\ calls'[k - 1] = calls[k]
    BY <1>4, <2>2, <2>3
  <2>5. QED BY <2>2, <2>4 DEF Together
<1>8. SortInv'
  BY <1>1, <1>2, <1>3, <1>6, <1>7, Unmoved DEF SortInv, Sorting, Partitioning
<1>9. QED BY <1>1, <1>2, <1>5, <1>8, SortFrame DEF Inv

LEMMA StartStep == Inv /\ StartCall => Inv'
<1> SUFFICES ASSUME Inv, StartCall PROVE Inv'
  OBVIOUS
<1>1. /\ phase = "call" /\ phase' = "down" /\ Call.left < Call.right /\ calls # <<>>
      /\ low' = Call.left /\ high' = Call.right /\ key' = rank[Call.left]
      /\ UNCHANGED <<input, next, boxes, rank, calls, classes, results>>
  BY DEF StartCall
<1>2. Sorting /\ Sorting' /\ Filled = rank
  BY <1>1 DEF Sorting, Partitioning, Filled
<1>3. TypeOK /\ Whole(rank, Scores) /\ Ordered(rank, calls) /\ Apart(calls, Len(rank))
  BY <1>2 DEF Inv, SortInv
<1>4. /\ Call \in [left : Nat, right : Nat] /\ Call.left >= 1
      /\ Call.right <= Len(rank)
  BY <1>1, <1>3, Active
<1>5. Call.left \in 1 .. Len(rank) /\ rank[Call.left] \in [prob : Int, box : Nat]
  BY <1>1, <1>3, <1>4, Shape
<1>6. Filled' = rank
  <2>1. Filled' = [rank EXCEPT ![Call.left] = rank[Call.left]]
    BY <1>1 DEF Filled
  <2>2. QED BY <1>3, <1>5, <2>1, Shape DEF TypeOK
<1>7. TypeOK'
  BY <1>1, <1>3, <1>4, <1>5 DEF TypeOK, input
<1>8. Partitioned'
  BY <1>1, <1>4 DEF Partitioned, Call
<1>9. SortInv'
  BY <1>1, <1>2, <1>3, <1>6, <1>8, Unmoved DEF SortInv
<1>10. QED BY <1>1, <1>2, <1>7, <1>9, SortFrame DEF Inv

\* Where the ends of the range, the hole and the key are.
LEMMA Ends ==
    ASSUME TypeOK, Partitioned, Apart(calls, Len(rank)), NEW n, n = Len(rank)
    PROVE  /\ n \in Nat /\ low \in 1 .. n /\ high \in 1 .. n
           /\ 1 \in DOMAIN calls /\ Call = calls[1] /\ calls # <<>>
           /\ Call.left \in Nat /\ Call.right \in Nat /\ Call.left >= 1 /\ Call.right <= n
           /\ Call.left <= low /\ low <= high /\ high <= Call.right
           /\ key \in [prob : Int, box : Nat] /\ rank \in Seq([prob : Int, box : Nat])
           /\ DOMAIN rank = 1 .. n
           /\ \A i \in 1 .. n : rank[i] \in [prob : Int, box : Nat]
<1>1. calls # <<>> /\ Call.left <= low /\ low <= high /\ high <= Call.right
  BY DEF Partitioned
<1>2. /\ 1 \in DOMAIN calls /\ Call = calls[1] /\ Call \in [left : Nat, right : Nat]
      /\ Call.left >= 1 /\ Call.right <= n
  BY <1>1, Active
<1>3. /\ low \in Nat /\ high \in Nat /\ key \in [prob : Int, box : Nat]
      /\ rank \in Seq([prob : Int, box : Nat])
  BY DEF TypeOK
<1>4. /\ n \in Nat /\ DOMAIN rank = 1 .. n
      /\ \A i \in 1 .. n : rank[i] \in [prob : Int, box : Nat]
  BY Shape
<1>5. low \in 1 .. n /\ high \in 1 .. n
  BY <1>1, <1>2, <1>3, <1>4
<1>6. QED BY <1>1, <1>2, <1>3, <1>4, <1>5

\* The hole goes from i to j.
LEMMA HoleMoves ==
    ASSUME Inv, Partitioning, Partitioning', NEW n, n = Len(rank),
           NEW i \in low .. high, NEW j \in low .. high,
           Filled = [rank EXCEPT ![i] = key], Filled' = [rank' EXCEPT ![j] = key],
           rank' = [rank EXCEPT ![i] = rank[j]],
           low' \in low .. high, high' \in low .. high,
           UNCHANGED <<input, next, boxes, calls, key, classes, results>>
    PROVE  /\ TypeOK' /\ NmsInv' /\ CollectInv'
           /\ Partitioned' => SortInv'
           /\ \A k \in 1 .. n : k # i => rank'[k] = rank[k]
<1>1. Sorting /\ Sorting' /\ phase' # "process"
  BY DEF Sorting, Partitioning
<1>2. /\ TypeOK /\ Whole(Filled, Scores) /\ Ordered(Filled, calls)
      /\ Apart(calls, n) /\ Partitioned
  BY <1>1 DEF Inv, SortInv
<1>3. /\ n \in Nat /\ low \in 1 .. n /\ high \in 1 .. n
      /\ 1 \in DOMAIN calls /\ Call = calls[1]
      /\ Call.left \in Nat /\ Call.right \in Nat
      /\ Call.left <= low /\ low <= high /\ high <= Call.right
  BY <1>2, Ends
<1>4. i \in 1 .. n /\ j \in 1 .. n /\ low' \in Nat /\ high' \in Nat
  BY <1>3
<1>14. /\ key \in [prob : Int, box : Nat] /\ rank \in Seq([prob : Int, box : Nat])
       /\ rank[j] \in [prob : Int, box : Nat]
  BY <1>2, <1>4, Ends
<1>5. In(i, Call) /\ In(j, Call)
  BY <1>3 DEF In
<1>6. /\ rank' \in Seq([prob : Int, box : Nat]) /\ Len(rank') = n /\ DOMAIN rank' = 1 .. n
      /\ rank'[i] = rank[j] /\ \A k \in 1 .. n : k # i => rank'[k] = rank[k]
  BY <1>4, <1>14, Replaced
<1>7. TypeOK'
  BY <1>2, <1>4, <1>6 DEF TypeOK, input
<1>8. Swapped(Filled, Filled', i, j) /\ DOMAIN Filled = 1 .. n
  <2>1. /\ DOMAIN Filled = 1 .. n /\ Filled[i] = key
        /\ \A k \in 1 .. n : k # i => Filled[k] = rank[k]
    BY <1>4, <1>14, Replaced
  <2>2. /\ DOMAIN Filled' = 1 .. n /\ Filled'[j] = key
        /\ \A k \in 1 .. n : k # j => Filled'[k] = rank'[k]
    BY <1>4, <1>6, <1>14, Replaced
  <2>3. QED BY <1>4, <1>6, <2>1, <2>2 DEF Swapped
<1>9. Whole(Filled', Scores')
  BY <1>2, <1>8, SwapWhole, Unmoved
<1>10. Ordered(Filled', calls')
  <2>1. Ordered(Filled', calls)
    <3>1. i \in Nat /\ j \in Nat
      BY <1>4
    <3>2. /\ 1 \in DOMAIN calls /\ calls[1].left \in Nat /\ calls[1].right \in Nat
          /\ In(i, calls[1]) /\ In(j, calls[1])
      BY <1>3, <1>5
    <3>3. QED BY <1>2, <1>3, <1>8, <3>1, <3>2, SwapOrdered
  <2>2. QED BY <2>1
<1>11. Partitioned' => SortInv'
  BY <1>1, <1>2, <1>6, <1>9, <1>10 DEF SortInv
<1>12. NmsInv' /\ CollectInv'
  BY <1>1, SortFrame DEF Inv
<1>13. QED BY <1>6, <1>7, <1>11, <1>12

LEMMA DownStep == Inv /\ Down => Inv'
<1> SUFFICES ASSUME Inv, Down PROVE Inv'
  OBVIOUS
<1>1. PICK h \in low .. high :
        /\ \A k \in h + 1 .. high : rank[k].prob <= key.prob
        /\ high' = h /\ rank' = [rank EXCEPT ![low] = rank[h]]
  BY DEF Down
<1>2. /\ phase = "down" /\ phase' = "up" /\ low' = low /\ key' = key /\ calls' = calls
      /\ UNCHANGED <<input, next, boxes, calls, key, classes, results>>
  BY DEF Down
<1>3. Partitioning /\ Partitioning' /\ Sorting
  BY <1>2 DEF Sorting, Partitioning
<1>4. TypeOK /\ Apart(calls, Len(rank)) /\ Partitioned
  BY <1>3 DEF Inv, SortInv
<1>5. PICK n : n = Len(rank)
  OBVIOUS
<1>6. /\ n \in Nat /\ low \in 1 .. n /\ high \in 1 .. n /\ calls # <<>>
      /\ Call.left \in Nat /\ Call.right \in Nat /\ Call.left >= 1 /\ Call.right <= n
      /\ Call.left <= low /\ low <= high /\ high <= Call.right
  BY <1>4, <1>5, Ends
<1>7. low \in low .. high /\ low' \in low .. high /\ high' \in low .. high
  BY <1>1, <1>2, <1>6
<1>8. Filled = [rank EXCEPT ![low] = key] /\ Filled' = [rank' EXCEPT ![h] = key]
  BY <1>1, <1>2 DEF Filled
<1>9. /\ TypeOK' /\ NmsInv' /\ CollectInv'
      /\ Partitioned' => SortInv'
      /\ \A k \in 1 .. n : k # low => rank'[k] = rank[k]
  BY <1>1, <1>2, <1>3, <1>5, <1>7, <1>8, HoleMoves
<1>10. Partitioned'
  <2>1. Call' = Call /\ calls' # <<>>
    BY <1>2, <1>6 DEF Call
  <2>2. \A i \in Call.left .. low - 1 : i \in 1 .. n /\ i # low
    BY <1>6
  <2>3. \A i \in Call.left .. low - 1 : rank'[i].prob >= key.prob
    BY <1>4, <1>9, <2>2 DEF Partitioned
  <2>4. \A i \in h + 1 .. Call.right : /\ i \in 1 .. n /\ i # low
                                        /\ (i \in h + 1 .. high \/ i \in high + 1 .. Call.right)
    BY <1>6
  <2>5. \A i \in h + 1 .. Call.right : rank'[i].prob <= key.prob
    BY <1>1, <1>4, <1>9, <2>4 DEF Partitioned
  <2>6. low <= h /\ h <= Call.right
    BY <1>6
  <2>7. /\ \A i \in Call'.left .. low' - 1 : rank'[i].prob >= key'.prob
        /\ \A i \in high' + 1 .. Call'.right : rank'[i].prob <= key'.prob
    BY <1>1, <1>2, <2>1, <2>3, <2>5
  <2>8. Call'.left <= low' /\ low' <= high' /\ high' <= Call'.right
    BY <1>1, <1>2, <1>6, <2>1, <2>6
  <2>9. QED BY <1>2, <2>1, <2>7, <2>8 DEF Partitioned
<1>11. QED BY <1>9, <1>10 DEF Inv

LEMMA UpStep == Inv /\ Up => Inv'
<1> SUFFICES ASSUME Inv, Up PROVE Inv'
  OBVIOUS
<1>1. PICK l \in low .. high :
        /\ \A k \in low .. l - 1 : rank[k].prob >= key.prob
        /\ low' = l /\ rank' = [rank EXCEPT ![high] = rank[l]]
        /\ phase' = IF l < high THEN "down" ELSE "place"
  BY DEF Up
<1>2. /\ phase = "up" /\ high' = high /\ key' = key /\ calls' = calls
      /\ UNCHANGED <<input, next, boxes, calls, key, classes, results>>
  BY DEF Up
<1>3. Partitioning /\ Partitioning' /\ Sorting
  BY <1>1, <1>2 DEF Sorting, Partitioning
<1>4. TypeOK /\ Apart(calls, Len(rank)) /\ Partitioned
  BY <1>3 DEF Inv, SortInv
<1>5. PICK n : n = Len(rank)
  OBVIOUS
<1>6. /\ n \in Nat /\ low \in 1 .. n /\ high \in 1 .. n /\ calls # <<>>
      /\ Call.left \in Nat /\ Call.right \in Nat /\ Call.left >= 1 /\ Call.right <= n
      /\ Call.left <= low /\ low <= high /\ high <= Call.right
  BY <1>4, <1>5, Ends
<1>7. high \in low .. high /\ low' \in low .. high /\ high' \in low .. high
  BY <1>1, <1>2, <1>6
<1>8. Filled = [rank EXCEPT ![high] = key] /\ Filled' = [rank' EXCEPT ![l] = key]
  BY <1>1, <1>2 DEF Filled
<1>9. /\ TypeOK' /\ NmsInv' /\ CollectInv'
      /\ Partitioned' => SortInv'
      /\ \A k \in 1 .. n : k # high => rank'[k] = rank[k]
  BY <1>1, <1>2, <1>3, <1>5, <1>7, <1>8, HoleMoves
<1>10. Partitioned'
  <2>1. Call' = Call /\ calls' # <<>>
    BY <1>2, <1>6 DEF Call
  <2>2. \A i \in Call.left .. l - 1 : /\ i \in 1 .. n /\ i # high
                                       /\ (i \in Call.left .. low - 1 \/ i \in low .. l - 1)
    BY <1>6
  <2>3. \A i \in Call.left .. l - 1 : rank'[i].prob >= key.prob
    BY <1>1, <1>4, <1>9, <2>2 DEF Partitioned
  <2>4. \A i \in high + 1 .. Call.right : i \in 1 .. n /\ i # high
    BY <1>6
  <2>5. \A i \in high + 1 .. Call.right : rank'[i].prob <= key.prob
    BY <1>4, <1>9, <2>4 DEF Partitioned
  <2>6. Call.left <= l /\ l <= high
    BY <1>6
  <2>7. (phase' = "down" => l < high) /\ (phase' = "place" => l = high)
    BY <1>1, <1>6
  <2>8. /\ \A i \in Call'.left .. low' - 1 : rank'[i].prob >= key'.prob
        /\ \A i \in high' + 1 .. Call'.right : rank'[i].prob <= key'.prob
    BY <1>1, <1>2, <2>1, <2>3, <2>5
  <2>9. Call'.left <= low' /\ low' <= high' /\ high' <= Call'.right
    BY <1>1, <1>2, <1>6, <2>1, <2>6
  <2>10. (phase' = "down" => low' < high') /\ (phase' = "place" => low' = high')
    BY <1>1, <1>2, <2>7
  <2>11. QED BY <2>1, <2>8, <2>9, <2>10 DEF Partitioned
<1>11. QED BY <1>9, <1>10 DEF Inv

\* Where an entry comes from after the first entry was replaced by two.
LEMMA Shifted ==
    ASSUME NEW length \in Nat, NEW m \in 3 .. length + 1
    PROVE  m \in Int /\ m >= 3 /\ m - 1 \in 1 .. length
OBVIOUS

\* The range cs[1] gives way to the ranges ds[1] and ds[2] on either side of the
\* key at p, the other ranges remain.
Around(a, n, cs, ds, length, p) ==
    /\ DOMAIN a = 1 .. n
    /\ \A i \in 1 .. n : a[i].prob \in Int
    /\ DOMAIN cs = 1 .. length /\ 1 \in DOMAIN ds /\ 2 \in DOMAIN ds
    /\ \A k \in 2 .. length : k + 1 \in DOMAIN ds /\ ds[k + 1] = cs[k]
    /\ \A i \in 1 .. n : In(i, cs[1]) => In(i, ds[1]) \/ i = p \/ In(i, ds[2])
    /\ \A i \in 1 .. n : In(i, ds[1]) => i < p /\ a[i].prob >= a[p].prob
    /\ \A i \in 1 .. n : In(i, ds[2]) => i > p /\ a[i].prob <= a[p].prob

\* What is out of order in the array is still in one range ...
LEMMA OrderedAround ==
    ASSUME NEW a, NEW n \in Nat, NEW cs, NEW ds, NEW length \in Nat,
           NEW p \in 1 .. n, Around(a, n, cs, ds, length, p), Ordered(a, cs)
    PROVE  Ordered(a, ds)
<1>1. SUFFICES ASSUME NEW i \in 1 .. n, NEW j \in 1 .. n, i < j,
                      ~ Together(i, j, ds), Together(i, j, cs)
               PROVE  a[i].prob >= a[j].prob
  BY DEF Ordered, Around
<1>2. PICK k \in DOMAIN cs : In(i, cs[k]) /\ In(j, cs[k])
  BY <1>1 DEF Together
<1>3. k = 1
  <2>1. k = 1 \/ k \in 2 .. length
    BY DEF Around
  <2>2. k \notin 2 .. length
    BY <1>1, <1>2 DEF Together, Around
  <2>3. QED BY <2>1, <2>2
<1>4. ~ (In(i, ds[1]) /\ In(j, ds[1])) /\ ~ (In(i, ds[2]) /\ In(j, ds[2]))
  BY <1>1 DEF Together, Around
<1>5. /\ In(i, ds[1]) \/ i = p \/ In(i, ds[2])
      /\ In(j, ds[1]) \/ j = p \/ In(j, ds[2])
  BY <1>2, <1>3 DEF Around
<1>6. /\ In(i, ds[1]) => i < p /\ a[i].prob >= a[p].prob
      /\ In(j, ds[1]) => j < p
      /\ In(i, ds[2]) => i > p
      /\ In(j, ds[2]) => j > p /\ a[j].prob <= a[p].prob
  BY DEF Around
<1>7. (i = p \/ In(i, ds[1])) /\ (j = p \/ In(j, ds[2]))
  BY <1>1, <1>4, <1>5, <1>6
<1>8. a[i].prob \in Int /\ a[p].prob \in Int /\ a[j].prob \in Int
  BY DEF Around
<1>9. a[i].prob >= a[p].prob /\ a[p].prob >= a[j].prob
  BY <1>6, <1>7, <1>8
<1>10. \A u, v, w \in Int : u >= v /\ v >= w => u >= w
  OBVIOUS
<1>11. QED BY <1>8, <1>9, <1>10

\* ... and the ranges are still apart.
LEMMA ApartAround ==
    ASSUME NEW n \in Nat, NEW cs, NEW ds, NEW length \in Nat, length >= 1,
           DOMAIN cs = 1 .. length, DOMAIN ds = 1 .. length + 1,
           \A k \in 3 .. length + 1 : ds[k] = cs[k - 1],
           ds[1].left >= 1, ds[1].right <= n, ds[2].left >= 1, ds[2].right <= n,
           NEW p \in Nat,
           \A i \in 1 .. n : In(i, ds[1]) => In(i, cs[1]) /\ i < p,
           \A i \in 1 .. n : In(i, ds[2]) => In(i, cs[1]) /\ i > p,
           Apart(cs, n)
    PROVE  Apart(ds, n)
<1> DEFINE o(m) == IF m <= 2 THEN 1 ELSE m - 1
<1>1. \A k \in DOMAIN ds : k = 1 \/ k = 2 \/ k \in 3 .. length + 1
  OBVIOUS
<1>2. 1 \in DOMAIN cs
  OBVIOUS
<1>3. \A k \in 3 .. length + 1 : k - 1 \in DOMAIN cs /\ o(k) = k - 1
  BY Shifted
<1>4. o(1) = 1 /\ o(2) = 1
  OBVIOUS
<1>5. \A k, l \in DOMAIN ds :
        o(k) = o(l) => k = l \/ (k = 1 /\ l = 2) \/ (k = 2 /\ l = 1)
  OBVIOUS
<1> HIDE DEF o
<1>6. ASSUME NEW k \in DOMAIN ds PROVE ds[k].left >= 1 /\ ds[k].right <= n
  <2>1. CASE k \in 3 .. length + 1
    BY <1>3, <2>1 DEF Apart
  <2>2. QED BY <1>1, <2>1
<1>7. ASSUME NEW m \in DOMAIN ds, NEW i \in 1 .. n, In(i, ds[m])
      PROVE  o(m) \in DOMAIN cs /\ In(i, cs[o(m)])
  <2>1. CASE m = 1 \/ m = 2
    BY <1>2, <1>4, <1>7, <2>1
  <2>2. CASE m \in 3 .. length + 1
    BY <1>3, <1>7, <2>2
  <2>3. QED BY <1>1, <2>1, <2>2
<1>8. ASSUME NEW k \in DOMAIN ds, NEW l \in DOMAIN ds, NEW i \in 1 .. n,
             In(i, ds[k]), In(i, ds[l])
      PROVE  k = l
  <2>1. /\ o(k) \in DOMAIN cs /\ In(i, cs[o(k)])
        /\ o(l) \in DOMAIN cs /\ In(i, cs[o(l)])
    BY <1>7, <1>8
  <2>2. o(k) = o(l)
    BY <2>1 DEF Apart
  <2>3. k = l \/ (k = 1 /\ l = 2) \/ (k = 2 /\ l = 1)
    BY <1>5, <2>2
  <2>4. ~ (In(i, ds[1]) /\ In(i, ds[2]))
    <3>1. (In(i, ds[1]) => i < p) /\ (In(i, ds[2]) => i > p)
      OBVIOUS
    <3>2. ~ (i < p /\ i > p)
      OBVIOUS
    <3>3. QED BY <3>1, <3>2
  <2>5. QED BY <1>8, <2>3, <2>4
<1>9. QED BY <1>6, <1>8 DEF Apart

\* What is on either side of the key is in order with it and with the other
\* side, so that each side can be sorted for itself.
LEMMA PlaceOrdered ==
    ASSUME NEW a, NEW n \in Nat, DOMAIN a = 1 .. n,
           \A i \in 1 .. n : a[i].prob \in Int,
           NEW cs \in Seq([left : Nat, right : Nat]), cs # <<>>, NEW p \in Nat,
           cs[1].left <= p, p <= cs[1].right,
           \A i \in cs[1].left .. p - 1 : a[i].prob >= a[p].prob,
           \A i \in p + 1 .. cs[1].right : a[i].prob <= a[p].prob,
           Ordered(a, cs), Apart(cs, n),
           NEW ds, ds = <<[left |-> cs[1].left, right |-> p - 1],
                          [left |-> p + 1, right |-> cs[1].right]>> \o Tail(cs)
    PROVE  ds \in Seq([left : Nat, right : Nat]) /\ Ordered(a, ds) /\ Apart(ds, n)
<1> DEFINE x == [left |-> cs[1].left, right |-> p - 1]
           y == [left |-> p + 1, right |-> cs[1].right]
<1>1. /\ Len(cs) \in Nat /\ Len(cs) >= 1 /\ DOMAIN cs = 1 .. Len(cs)
      /\ cs[1] \in [left : Nat, right : Nat]
  BY Rest
<1>2. cs[1].left >= 1 /\ cs[1].right <= n
  <2>1. 1 \in DOMAIN cs
    BY <1>1
  <2>2. QED BY <2>1 DEF Apart
<1>3. x \in [left : Nat, right : Nat] /\ y \in [left : Nat, right : Nat]
  BY <1>1, <1>2
<1>4. /\ ds \in Seq([left : Nat, right : Nat])
      /\ DOMAIN ds = 1 .. Len(cs) + 1
      /\ ds[1] = x /\ ds[2] = y
      /\ \A k \in 3 .. Len(cs) + 1 : ds[k] = cs[k - 1]
      /\ \A k \in 2 .. Len(cs) : ds[k + 1] = cs[k]
  BY <1>3, Split
<1>5. ASSUME NEW i \in 1 .. n
      PROVE  /\ In(i, x) => In(i, cs[1]) /\ i < p /\ i \in cs[1].left .. p - 1
             /\ In(i, y) => In(i, cs[1]) /\ i > p /\ i \in p + 1 .. cs[1].right
             /\ In(i, cs[1]) => In(i, x) \/ i = p \/ In(i, y)
  BY <1>1 DEF In
<1>6. p \in 1 .. n /\ cs[1].left \in Nat /\ cs[1].right \in Nat
  BY <1>1, <1>2
<1>7. x.left >= 1 /\ x.right <= n /\ y.left >= 1 /\ y.right <= n
  <2>1. /\ x.left = cs[1].left /\ x.right = p - 1
        /\ y.left = p + 1 /\ y.right = cs[1].right
    OBVIOUS
  <2>2. p - 1 <= n /\ p + 1 >= 1
    BY <1>6
  <2>3. QED BY <1>2, <2>1, <2>2
<1> HIDE DEF x, y
<1>8. Ordered(a, ds)
  <2>1. /\ \A k \in 2 .. Len(cs) : k + 1 \in DOMAIN ds /\ ds[k + 1] = cs[k]
        /\ 1 \in DOMAIN ds /\ 2 \in DOMAIN ds
    BY <1>1, <1>4
  <2>2. /\ \A i \in 1 .. n : In(i, cs[1]) => In(i, ds[1]) \/ i = p \/ In(i, ds[2])
        /\ \A i \in 1 .. n : In(i, ds[1]) => i < p /\ a[i].prob >= a[p].prob
        /\ \A i \in 1 .. n : In(i, ds[2]) => i > p /\ a[i].prob <= a[p].prob
    BY <1>4, <1>5
  <2>3. Around(a, n, cs, ds, Len(cs), p)
    BY <1>1, <2>1, <2>2 DEF Around
  <2>4. QED BY <1>1, <1>6, <2>3, OrderedAround
<1>9. Apart(ds, n)
  <2>1. /\ \A i \in 1 .. n : In(i, ds[1]) => In(i, cs[1]) /\ i < p
        /\ \A i \in 1 .. n : In(i, ds[2]) => In(i, cs[1]) /\ i > p
    BY <1>4, <1>5
  <2>2. ds[1].left >= 1 /\ ds[1].right <= n /\ ds[2].left >= 1 /\ ds[2].right <= n
    BY <1>4, <1>7
  <2>3. QED BY <1>1, <1>4, <2>1, <2>2, ApartAround
<1>10. QED BY <1>4, <1>8, <1>9

LEMMA PlaceStep == Inv /\ Place => Inv'
<1> SUFFICES ASSUME Inv, Place PROVE Inv'
  OBVIOUS
<1>14. PICK n : n = Len(rank)
  OBVIOUS
<1>1. /\ phase = "place" /\ phase' = "call"
      /\ rank' = [rank EXCEPT ![low] = key]
      /\ calls' = <<[left |-> Call.left, right |-> low - 1],
                    [left |-> low + 1, right |-> Call.right]>> \o Tail(calls)
      /\ UNCHANGED <<input, next, boxes, low, high, key, classes, results>>
  BY DEF Place
<1>2. Sorting /\ Sorting' /\ Partitioning /\ ~ Partitioning'
  BY <1>1 DEF Sorting, Partitioning
<1>3. /\ TypeOK /\ Whole(Filled, Scores) /\ Ordered(Filled, calls)
      /\ Apart(calls, n) /\ Partitioned
  BY <1>2, <1>14 DEF Inv, SortInv
<1>4. Filled = rank' /\ Filled' = rank'
  BY <1>1 DEF Filled
<1>5. /\ n \in Nat /\ low \in 1 .. n /\ calls # <<>>
      /\ Call = calls[1] /\ Call.left \in Nat /\ Call.right \in Nat
      /\ Call.left >= 1 /\ Call.right <= n
      /\ Call.left <= low /\ low <= high /\ high <= Call.right
      /\ key \in [prob : Int, box : Nat] /\ rank \in Seq([prob : Int, box : Nat])
  BY <1>3, <1>14, Ends
<1>6. low = high
  BY <1>1, <1>3 DEF Partitioned
<1>7. /\ rank' \in Seq([prob : Int, box : Nat]) /\ Len(rank') = n /\ DOMAIN rank' = 1 .. n
      /\ rank'[low] = key /\ \A j \in 1 .. n : j # low => rank'[j] = rank[j]
  BY <1>1, <1>5, <1>14, Replaced
<1>8. /\ \A i \in Call.left .. low - 1 : rank'[i].prob >= rank'[low].prob
      /\ \A i \in low + 1 .. Call.right : rank'[i].prob <= rank'[low].prob
  <2>1. \A i \in Call.left .. low - 1 : i \in 1 .. n /\ i # low
    BY <1>5
  <2>2. \A i \in low + 1 .. Call.right : i \in 1 .. n /\ i # low
    BY <1>5
  <2>3. QED BY <1>3, <1>6, <1>7, <2>1, <2>2 DEF Partitioned
<1>9. ASSUME NEW i \in 1 .. n PROVE rank'[i].prob \in Int
  <2>1. rank'[i] \in [prob : Int, box : Nat]
    BY <1>7, ElementOfSeq
  <2>2. QED BY <2>1
<1>10. /\ calls' \in Seq([left : Nat, right : Nat])
       /\ Ordered(rank', calls') /\ Apart(calls', n)
  <2>1. calls \in Seq([left : Nat, right : Nat]) /\ low \in Nat
    BY <1>3 DEF TypeOK
  <2>2. Ordered(rank', calls)
    BY <1>3, <1>4
  <2>3. QED BY <1>1, <1>3, <1>5, <1>6, <1>7, <1>8, <1>9, <2>1, <2>2, PlaceOrdered
<1>11. TypeOK'
  BY <1>1, <1>3, <1>7, <1>10 DEF TypeOK, input
<1>12. SortInv'
  BY <1>1, <1>2, <1>3, <1>4, <1>7, <1>10, Unmoved DEF SortInv
<1>13. QED BY <1>1, <1>2, <1>11, <1>12, SortFrame DEF Inv

\* Nothing is left to be sorted: the array is in order.
LEMMA SortedStep == Inv /\ Sorted => Inv'
<1> SUFFICES ASSUME Inv, Sorted PROVE Inv'
  OBVIOUS
<1>1. /\ phase = "call" /\ phase' = "nms" /\ next' = 1 /\ calls = <<>>
      /\ UNCHANGED <<input, boxes, rank, calls, low, high, key, classes, results>>
  BY DEF Sorted, sorting
<1>2. Sorting /\ ~ Sorting' /\ ~ Partitioning' /\ Filled = rank
  BY <1>1 DEF Sorting, Partitioning, Filled
<1>3. TypeOK /\ Whole(rank, Scores) /\ Ordered(rank, calls)
  BY <1>2 DEF Inv, SortInv
<1>4. /\ Scores' = Scores /\ Conflicts' = Conflicts /\ Box' = Box
      /\ rank' = rank /\ boxes' = boxes /\ classes' = classes /\ results' = results
  BY <1>1, Unmoved
<1>5. TypeOK'
  BY <1>1, <1>3 DEF TypeOK, input
<1>6. SortInv'
  BY <1>1, <1>2 DEF SortInv
<1>7. \A i, j \in DOMAIN rank : i < j => rank[i].prob >= rank[j].prob
  BY <1>1, <1>3 DEF Ordered, Together
<1>8. Kept(rank, Scores)
  BY <1>3, <1>7 DEF Kept, Whole
<1>9. Greedy(rank, Scores, Conflicts, 1)
  <2>1. \A p \in DOMAIN rank : ~ (p < 1)
    BY <1>3, Shape
  <2>2. QED BY <1>3, <2>1 DEF Greedy, Whole
<1>10. NmsInv'
  BY <1>1, <1>4, <1>8, <1>9 DEF NmsInv, Inv
<1>11. CollectInv'
  BY <1>1, <1>4 DEF CollectInv, Inv
<1>12. QED BY <1>5, <1>6, <1>10, <1>11 DEF Inv

-----------------------------------------------------------------------------
(* Steps of process *)

\* The probability of a cell is a whole number.
LEMMA ProbabilityTyped ==
    ASSUME NEW cell \in CellKind, NEW class \in 1 .. Classes
    PROVE  Probability(cell, class) \in Int
<1>1. cell.conf \in Int /\ cell.prob[class] \in Int
  BY DetectionAssumption
<1>2. QED BY <1>1 DEF Probability

\* An accepted cell becomes the last box, with the last place in the array.
LEMMA AcceptWhole ==
    ASSUME NEW m \in Nat, NEW a, NEW b, NEW s, NEW t,
           DOMAIN a = 1 .. m, DOMAIN b = 1 .. m + 1,
           DOMAIN s = 1 .. m, DOMAIN t = 1 .. m + 1,
           \A i \in 1 .. m : b[i] = a[i] /\ t[i] = s[i],
           b[m + 1].box = m + 1, b[m + 1].prob = t[m + 1],
           Whole(a, s)
    PROVE  Whole(b, t)
<1>1. \A i \in 1 .. m + 1 : i \in 1 .. m \/ i = m + 1
  OBVIOUS
<1>2. \A i \in 1 .. m : b[i].box \in 1 .. m /\ b[i].prob = t[b[i].box]
  BY DEF Whole
<1>3. \A i \in 1 .. m + 1 : b[i].box \in 1 .. m + 1 /\ b[i].prob = t[b[i].box]
  BY <1>1, <1>2
<1>4. ASSUME NEW i \in 1 .. m + 1, NEW j \in 1 .. m + 1, b[i].box = b[j].box
      PROVE  i = j
  <2>1. CASE i \in 1 .. m /\ j \in 1 .. m
    BY <1>4, <2>1 DEF Whole
  <2>2. CASE i = m + 1 \/ j = m + 1
    <3>1. \A k \in 1 .. m : b[k].box # m + 1
      BY <1>2
    <3>2. QED BY <1>1, <1>4, <2>2, <3>1
  <2>3. QED BY <1>1, <2>1, <2>2
<1>5. ASSUME NEW n \in 1 .. m + 1 PROVE \E i \in 1 .. m + 1 : b[i].box = n
  <2>1. CASE n \in 1 .. m
    <3>1. PICK i \in 1 .. m : a[i].box = n
      BY <2>1 DEF Whole
    <3>2. QED BY <1>1, <3>1
  <2>2. CASE n = m + 1
    BY <2>2
  <2>3. QED BY <1>1, <2>1, <2>2
<1>6. QED BY <1>3, <1>4, <1>5 DEF Whole

LEMMA AcceptStep ==
    ASSUME TypeOK, Whole(rank, Scores), next <= Cells, UNCHANGED input,
           NEW class \in 1 .. Classes, Accept(class)
    PROVE  /\ boxes' \in Seq([cell : 1 .. Cells, class : 1 .. Classes])
           /\ rank' \in Seq([prob : Int, box : Nat]) /\ Len(rank') = Len(boxes')
           /\ Whole(rank', Scores')
<1>1. PICK m : m = Len(boxes)
  OBVIOUS
<1> DEFINE bx == [cell |-> next, class |-> class]
           rk == [prob |-> Probability(cells[next], class), box |-> m + 1]
<1>2. /\ boxes' = Append(boxes, bx) /\ rank' = Append(rank, rk)
      /\ boxes \in Seq([cell : 1 .. Cells, class : 1 .. Classes])
      /\ rank \in Seq([prob : Int, box : Nat])
      /\ m \in Nat /\ Len(rank) = m /\ Len(boxes) = m
  BY <1>1 DEF TypeOK, Accept
<1>3. next \in 1 .. Cells /\ cells[next] \in CellKind /\ cells' = cells
  BY DetectionAssumption DEF TypeOK, input
<1>4. bx \in [cell : 1 .. Cells, class : 1 .. Classes] /\ rk \in [prob : Int, box : Nat]
  BY <1>2, <1>3, ProbabilityTyped
<1> HIDE DEF bx, rk
<1>5. /\ boxes' \in Seq([cell : 1 .. Cells, class : 1 .. Classes])
      /\ Len(boxes') = m + 1 /\ DOMAIN boxes = 1 .. m /\ DOMAIN boxes' = 1 .. m + 1
      /\ boxes'[m + 1] = bx /\ \A i \in 1 .. m : boxes'[i] = boxes[i]
  BY <1>2, <1>4, Added
<1>6. /\ rank' \in Seq([prob : Int, box : Nat])
      /\ Len(rank') = m + 1 /\ DOMAIN rank = 1 .. m /\ DOMAIN rank' = 1 .. m + 1
      /\ rank'[m + 1] = rk /\ \A i \in 1 .. m : rank'[i] = rank[i]
  BY <1>2, <1>4, Added
<1>7. DOMAIN Scores = 1 .. m /\ DOMAIN Scores' = 1 .. m + 1
  BY <1>5 DEF Scores, Box
<1>8. \A i \in 1 .. m : Scores'[i] = Scores[i]
  <2>1. SUFFICES ASSUME NEW i \in 1 .. m PROVE Scores'[i] = Scores[i]
    OBVIOUS
  <2>2. Scores[i] = Probability(cells[boxes[i].cell], boxes[i].class)
    BY <1>5 DEF Scores, Box, Score
  <2>6. i \in DOMAIN boxes'
    BY <1>2, <1>5
  <2>3. Scores'[i] = Probability(cells[boxes'[i].cell], boxes'[i].class)
    BY <1>3, <2>6 DEF Scores, Box, Score, Probability
  <2>4. boxes'[i] = boxes[i]
    BY <1>5
  <2>5. QED BY <2>2, <2>3, <2>4
<1>9. Scores'[m + 1] = Probability(cells[next], class)
  <2>1. m + 1 \in DOMAIN boxes'
    BY <1>2, <1>5
  <2>2. Scores'[m + 1] = Probability(cells[boxes'[m + 1].cell], boxes'[m + 1].class)
    BY <1>3, <2>1 DEF Scores, Box, Score, Probability
  <2>3. QED BY <1>5, <2>2 DEF bx
<1>10. rank'[m + 1].box = m + 1 /\ rank'[m + 1].prob = Scores'[m + 1]
  BY <1>6, <1>9 DEF rk
<1>11. Whole(rank', Scores')
  <2>1. \A i \in 1 .. m : rank'[i] = rank[i] /\ Scores'[i] = Scores[i]
    BY <1>6, <1>8
  <2>2. DOMAIN rank = 1 .. m /\ DOMAIN rank' = 1 .. m + 1
    BY <1>6
  <2>3. m \in Nat
    BY <1>2
  <2>4. QED BY <1>7, <1>10, <2>1, <2>2, <2>3, AcceptWhole
<1>12. QED BY <1>5, <1>6, <1>11

LEMMA ProcessStep == Inv /\ ProcessCell => Inv'
<1> SUFFICES ASSUME Inv, ProcessCell PROVE Inv'
  OBVIOUS
<1>1. /\ phase = "process" /\ phase' = "process" /\ next <= Cells /\ next' = next + 1
      /\ UNCHANGED <<input, calls, low, high, key, classes, results>>
  BY DEF ProcessCell, sorting
<1>2. TypeOK /\ Whole(rank, Scores)
  BY <1>1 DEF Inv, SortInv
<1>3. /\ boxes' \in Seq([cell : 1 .. Cells, class : 1 .. Classes])
      /\ rank' \in Seq([prob : Int, box : Nat]) /\ Len(rank') = Len(boxes')
      /\ Whole(rank', Scores')
  <2>1. PICK class \in 1 .. Classes : Accept(class) \/ UNCHANGED <<boxes, rank>>
    BY DEF ProcessCell
  <2>2. CASE Accept(class)
    BY <1>1, <1>2, <2>2, AcceptStep
  <2>3. CASE UNCHANGED <<boxes, rank>>
    BY <1>1, <1>2, <2>3, Unmoved DEF TypeOK
  <2>4. QED BY <2>1, <2>2, <2>3
<1>4. TypeOK'
  BY <1>1, <1>2, <1>3 DEF TypeOK, input
<1>5. SortInv'
  BY <1>1, <1>3 DEF SortInv, Sorting, Partitioning
<1>6. NmsInv' /\ CollectInv'
  BY <1>1 DEF Inv, NmsInv, CollectInv
<1>7. QED BY <1>4, <1>5, <1>6 DEF Inv

LEMMA NoObjectStep == Inv /\ NoObject => Inv'
<1> SUFFICES ASSUME Inv, NoObject PROVE Inv'
  OBVIOUS
<1>1. /\ phase = "process" /\ phase' = "done" /\ boxes = <<>>
      /\ UNCHANGED <<input, next, boxes, rank, calls, low, high, key, classes, results>>
  BY DEF NoObject, sorting
<1>2. TypeOK /\ TypeOK'
  BY <1>1 DEF Inv, TypeOK, input
<1>3. SortInv'
  BY <1>1 DEF SortInv, Sorting, Partitioning
<1>4. DOMAIN rank' = {} /\ DOMAIN Scores' = {}
  BY <1>1, <1>2, Shape DEF TypeOK, Box, Scores
<1>5. NmsInv'
  BY <1>1, <1>4 DEF NmsInv, Kept, Greedy
<1>6. results' = <<>>
  BY <1>1 DEF Inv, CollectInv
<1>7. CollectInv'
  BY <1>1, <1>4, <1>6 DEF CollectInv, Reported
<1>8. QED BY <1>2, <1>3, <1>5, <1>7 DEF Inv

LEMMA ProcessedStep == Inv /\ Processed => Inv'
<1> SUFFICES ASSUME Inv, Processed PROVE Inv'
  OBVIOUS
<1>1. /\ phase = "process" /\ phase' = "call" /\ boxes # <<>>
      /\ calls' = <<[left |-> 1, right |-> Len(boxes)]>>
      /\ classes' = {boxes[n].class : n \in DOMAIN boxes}
      /\ UNCHANGED <<input, next, boxes, rank, low, high, key, results>>
  BY DEF Processed
<1>2. TypeOK /\ Whole(rank, Scores)
  BY <1>1 DEF Inv, SortInv
<1>3. PICK n : n = Len(rank)
  OBVIOUS
<1>4. n \in Nat /\ DOMAIN rank = 1 .. n /\ Len(boxes) = n /\ Box = 1 .. n
  BY <1>2, <1>3, Shape DEF TypeOK
<1>5. /\ calls' \in Seq([left : Nat, right : Nat]) /\ DOMAIN calls' = {1}
      /\ calls'[1].left = 1 /\ calls'[1].right = n
  BY <1>1, <1>4
<1>6. TypeOK'
  BY <1>1, <1>2, <1>5 DEF TypeOK, input
<1>7. Sorting' /\ ~ Partitioning' /\ Filled' = rank
  BY <1>1 DEF Sorting, Partitioning, Filled
<1>8. Ordered(rank, calls')
  <2>1. \A i \in 1 .. n : In(i, calls'[1])
    BY <1>4, <1>5 DEF In
  <2>2. QED BY <1>4, <1>5, <2>1 DEF Ordered, Together
<1>9. Apart(calls', n)
  BY <1>5, <1>4 DEF Apart
<1>10. SortInv'
  BY <1>1, <1>2, <1>3, <1>7, <1>8, <1>9, Unmoved DEF SortInv
<1>11. classes' # {} /\ \A c \in classes' : \E m \in Box : boxes[m].class = c
  <2>1. 1 \in DOMAIN boxes
    BY <1>1, <1>2 DEF TypeOK
  <2>2. QED BY <1>1, <2>1 DEF Box
<1>12. NmsInv'
  BY <1>1, <1>11, Unmoved DEF NmsInv
<1>13. CollectInv'
  BY <1>1 DEF Inv, CollectInv
<1>14. QED BY <1>6, <1>10, <1>12, <1>13 DEF Inv

-----------------------------------------------------------------------------
(* Steps of nms *)

\* What the box of rank i does to the other entries.
LEMMA Suppressed ==
    ASSUME TypeOK, Kept(rank, Scores), NEW i \in DOMAIN rank, rank[i].box # 0,
           Suppress(i)
    PROVE  /\ DOMAIN rank' = DOMAIN rank
           /\ \A j \in DOMAIN rank :
                /\ rank'[j] \in [prob : Int, box : Nat]
                /\ rank'[j].prob = rank[j].prob
                /\ \/ rank'[j].box = rank[j].box
                   \/ /\ rank'[j].box = 0 /\ j > i
                      /\ <<rank[i].box, rank[j].box>> \in Conflicts
                /\ j > i /\ rank'[j].box # 0 =>
                     <<rank[i].box, rank[j].box>> \notin Conflicts
<1>1. DOMAIN rank' = DOMAIN rank
  BY DEF Suppress
<1>2. rank[i].box \in Box
  BY DEF Kept, Scores
<1> SUFFICES ASSUME NEW j \in DOMAIN rank
             PROVE  /\ rank'[j] \in [prob : Int, box : Nat]
                    /\ rank'[j].prob = rank[j].prob
                    /\ \/ rank'[j].box = rank[j].box
                       \/ /\ rank'[j].box = 0 /\ j > i
                          /\ <<rank[i].box, rank[j].box>> \in Conflicts
                    /\ j > i /\ rank'[j].box # 0 =>
                         <<rank[i].box, rank[j].box>> \notin Conflicts
  BY <1>1
<1>3. rank[j] \in [prob : Int, box : Nat]
  BY Shape
<1>4. rank[j].box # 0 =>
        (<<rank[i].box, rank[j].box>> \in Conflicts <=> Overlaps(rank[i].box, rank[j].box))
  <2>1. SUFFICES ASSUME rank[j].box # 0
                 PROVE  <<rank[i].box, rank[j].box>> \in Conflicts
                          <=> Overlaps(rank[i].box, rank[j].box)
    OBVIOUS
  <2>2. rank[j].box \in Box
    BY <2>1 DEF Kept, Scores
  <2>3. QED BY <1>2, <2>2 DEF Conflicts
<1>5. CASE j > i /\ rank[j].box # 0 /\ Overlaps(rank[i].box, rank[j].box)
  <2>1. rank'[j] = [rank[j] EXCEPT !.box = 0]
    BY <1>5 DEF Suppress
  <2>2. QED BY <1>3, <1>4, <1>5, <2>1
<1>6. CASE ~ (j > i /\ rank[j].box # 0 /\ Overlaps(rank[i].box, rank[j].box))
  <2>1. rank'[j] = rank[j]
    BY <1>6 DEF Suppress
  <2>2. QED BY <1>3, <1>4, <1>6, <2>1
<1>7. QED BY <1>5, <1>6

\* Entries that lose their box, or keep it, stay in order.
LEMMA KeptStays ==
    ASSUME NEW a, NEW b, NEW scores, Kept(a, scores), DOMAIN b = DOMAIN a,
           \A j \in DOMAIN a : /\ b[j].prob = a[j].prob
                               /\ b[j].box = a[j].box \/ b[j].box = 0
    PROVE  Kept(b, scores)
<1>1. \A i \in DOMAIN b : b[i].box # 0 =>
        b[i].box \in DOMAIN scores /\ b[i].prob = scores[b[i].box]
  BY DEF Kept
<1>2. \A i, j \in DOMAIN b : b[i].box # 0 /\ b[i].box = b[j].box => i = j
  <2>1. SUFFICES ASSUME NEW i \in DOMAIN a, NEW j \in DOMAIN a,
                        b[i].box # 0, b[i].box = b[j].box
                 PROVE  i = j
    OBVIOUS
  <2>2. b[i].box = a[i].box /\ b[j].box = a[j].box
    BY <2>1
  <2>3. QED BY <2>1, <2>2 DEF Kept
<1>3. \A i, j \in DOMAIN b : i < j => b[i].prob >= b[j].prob
  BY DEF Kept
<1>4. QED BY <1>1, <1>2, <1>3 DEF Kept

\* Entry d has been gone through: it is suppressed, or has suppressed what it
\* overlaps.
LEMMA GreedyStep ==
    ASSUME NEW n \in Nat, NEW a, NEW b, NEW scores, NEW conflicts, NEW d \in 1 .. n,
           DOMAIN a = 1 .. n, DOMAIN b = 1 .. n, Kept(a, scores), 0 \notin DOMAIN scores,
           Greedy(a, scores, conflicts, d),
           \A j \in 1 .. n : b[j].prob = a[j].prob,
           \A j \in 1 .. n : b[j].box # a[j].box =>
             /\ b[j].box = 0 /\ j > d /\ a[d].box # 0
             /\ <<a[d].box, a[j].box>> \in conflicts,
           \A j \in 1 .. n : j > d /\ a[d].box # 0 /\ b[j].box # 0 =>
             <<a[d].box, a[j].box>> \notin conflicts
    PROVE  Greedy(b, scores, conflicts, d + 1)
<1>1. ASSUME NEW j \in 1 .. n, j <= d PROVE b[j].box = a[j].box
  <2>1. ~ (j > d)
    BY <1>1
  <2>2. QED BY <2>1
<1>2. ASSUME NEW p \in 1 .. n, NEW q \in 1 .. n,
             p < q, p < d + 1, b[p].box # 0, b[q].box # 0
      PROVE  <<b[p].box, b[q].box>> \notin conflicts
  <2>1. b[p].box = a[p].box /\ b[q].box = a[q].box
    BY <1>2
  <2>2. CASE p < d
    BY <1>2, <2>1, <2>2 DEF Greedy
  <2>3. CASE p = d
    BY <1>2, <2>1, <2>3
  <2>4. QED BY <1>2, <2>2, <2>3
<1>3. ASSUME NEW m \in DOMAIN scores
      PROVE  \/ \E i \in 1 .. n : b[i].box = m
             \/ \E p \in 1 .. n : /\ p < d + 1 /\ b[p].box # 0
                                  /\ b[p].prob >= scores[m]
                                  /\ <<b[p].box, m>> \in conflicts
  <2>1. CASE \E i \in 1 .. n : a[i].box = m
    <3>1. PICK i \in 1 .. n : a[i].box = m
      BY <2>1
    <3>2. SUFFICES ASSUME b[i].box # m
                   PROVE  /\ d < d + 1 /\ b[d].box # 0
                          /\ b[d].prob >= scores[m]
                          /\ <<b[d].box, m>> \in conflicts
      BY <3>1
    <3>3. i > d /\ a[d].box # 0 /\ <<a[d].box, m>> \in conflicts
      BY <3>1, <3>2
    <3>4. a[i].prob = scores[m] /\ a[d].prob >= a[i].prob
      BY <3>1, <3>3 DEF Kept
    <3>5. b[d].box = a[d].box /\ b[d].prob = a[d].prob
      BY <1>1
    <3>6. QED BY <3>3, <3>4, <3>5
  <2>2. CASE \E p \in 1 .. n : /\ p < d /\ a[p].box # 0
                               /\ a[p].prob >= scores[m]
                               /\ <<a[p].box, m>> \in conflicts
    <3>1. PICK p \in 1 .. n : /\ p < d /\ a[p].box # 0
                              /\ a[p].prob >= scores[m]
                              /\ <<a[p].box, m>> \in conflicts
      BY <2>2
    <3>2. b[p].box = a[p].box /\ b[p].prob = a[p].prob /\ p < d + 1
      BY <1>1, <3>1
    <3>3. QED BY <3>1, <3>2
  <2>3. QED BY <2>1, <2>2 DEF Greedy
<1>4. QED BY <1>2, <1>3 DEF Greedy

\* With one class, it is the class of every box.
LEMMA TheClass ==
    ASSUME TypeOK, OneClass, classes # {},
           \A c \in classes : \E n \in Box : boxes[n].class = c
    PROVE  /\ \A n \in Box : boxes[n].class = Class
           /\ classes \ {Class} = {}
<1>1. \A c \in classes : \A n \in Box : boxes[n].class = c
  BY DEF OneClass
<1>2. PICK c \in classes : TRUE
  OBVIOUS
<1>3. \A n \in Box : boxes[n].class \in Int
  <2>1. boxes \in Seq([cell : 1 .. Cells, class : 1 .. Classes])
    BY DEF TypeOK
  <2>2. ASSUME NEW n \in DOMAIN boxes PROVE boxes[n].class \in Int
    <3>1. boxes[n] \in [cell : 1 .. Cells, class : 1 .. Classes]
      BY <2>1, ElementOfSeq, n \in 1 .. Len(boxes)
    <3>2. QED BY <3>1
  <2>3. QED BY <2>2 DEF Box
<1>4. \A d \in classes : d = c /\ c <= d
  BY <1>1, <1>3
<1>5. Class \in classes
  BY <1>4 DEF Class
<1>6. QED BY <1>1, <1>4, <1>5

\* What the outer loop of nms does with one entry.
LEMMA EntryDoes ==
    ASSUME Inv, NmsEntry, NEW n, n = Len(rank)
    PROVE  /\ DOMAIN rank' = 1 .. n
           /\ \A j \in 1 .. n :
                /\ rank'[j] \in [prob : Int, box : Nat]
                /\ rank'[j].prob = rank[j].prob
                /\ \/ rank'[j].box = rank[j].box
                   \/ /\ rank'[j].box = 0 /\ j > next /\ rank[next].box # 0
                      /\ <<rank[next].box, rank[j].box>> \in Conflicts
                /\ OneClass /\ j > next /\ rank[next].box # 0 /\ rank'[j].box # 0 =>
                     <<rank[next].box, rank[j].box>> \notin Conflicts
<1>1. next <= Len(rank) /\ TypeOK /\ Kept(rank, Scores)
      /\ classes # {} /\ \A c \in classes : \E m \in Box : boxes[m].class = c
  BY DEF NmsEntry, Inv, NmsInv
<1>2. /\ n \in Nat /\ DOMAIN rank = 1 .. n /\ Box = 1 .. n /\ DOMAIN Scores = 1 .. n
      /\ \A j \in 1 .. n : rank[j] \in [prob : Int, box : Nat]
  BY <1>1, Shape
<1>3. next \in Nat \ {0}
  BY <1>1 DEF TypeOK
<1>4. next \in 1 .. n
  BY <1>1, <1>2, <1>3
<1>5. IF rank[next].box # 0 /\ boxes[next].class = Class THEN Suppress(next)
                                                       ELSE UNCHANGED rank
  BY DEF NmsEntry
<1>6. CASE rank[next].box # 0 /\ boxes[next].class = Class
  BY <1>1, <1>2, <1>4, <1>5, <1>6, Suppressed
<1>7. CASE rank[next].box = 0
  BY <1>2, <1>5, <1>7
<1>8. CASE boxes[next].class # Class
  <2>1. ~ OneClass
    BY <1>1, <1>2, <1>4, <1>8, TheClass
  <2>2. QED BY <1>2, <1>5, <1>8, <2>1
<1>9. QED BY <1>6, <1>7, <1>8

LEMMA NmsEntryStep == Inv /\ NmsEntry => Inv'
<1> SUFFICES ASSUME Inv, NmsEntry PROVE Inv'
  OBVIOUS
<1>1. /\ phase = "nms" /\ phase' = "nms" /\ next <= Len(rank) /\ next' = next + 1
      /\ UNCHANGED <<input, boxes, calls, low, high, key, classes, results>>
  BY DEF NmsEntry, sorting
<1>2. /\ TypeOK /\ Kept(rank, Scores)
      /\ classes # {} /\ \A c \in classes : \E n \in Box : boxes[n].class = c
      /\ OneClass => Greedy(rank, Scores, Conflicts, next)
  BY <1>1 DEF Inv, NmsInv
<1>3. PICK n : n = Len(rank)
  OBVIOUS
<1>16. /\ n \in Nat /\ DOMAIN rank = 1 .. n /\ Box = 1 .. n /\ DOMAIN Scores = 1 .. n
       /\ \A j \in 1 .. n : rank[j] \in [prob : Int, box : Nat]
  BY <1>2, <1>3, Shape
<1>17. next \in Nat \ {0}
  BY <1>2 DEF TypeOK
<1>18. next \in 1 .. n
  BY <1>1, <1>3, <1>16, <1>17
<1>4. /\ n \in Nat /\ DOMAIN rank = 1 .. n /\ Box = 1 .. n /\ DOMAIN Scores = 1 .. n
      /\ next \in 1 .. n
      /\ \A j \in 1 .. n : rank[j] \in [prob : Int, box : Nat]
  BY <1>16, <1>18
<1>5. /\ Scores' = Scores /\ Conflicts' = Conflicts /\ Box' = Box /\ OneClass' = OneClass
      /\ boxes' = boxes /\ classes' = classes
  BY <1>1, Unmoved
<1>6. IF rank[next].box # 0 /\ boxes[next].class = Class THEN Suppress(next)
                                                       ELSE UNCHANGED rank
  BY DEF NmsEntry
<1>7. /\ DOMAIN rank' = 1 .. n
      /\ \A j \in 1 .. n :
           /\ rank'[j] \in [prob : Int, box : Nat]
           /\ rank'[j].prob = rank[j].prob
           /\ \/ rank'[j].box = rank[j].box
              \/ /\ rank'[j].box = 0 /\ j > next /\ rank[next].box # 0
                 /\ <<rank[next].box, rank[j].box>> \in Conflicts
           /\ OneClass /\ j > next /\ rank[next].box # 0 /\ rank'[j].box # 0 =>
                <<rank[next].box, rank[j].box>> \notin Conflicts
  BY <1>3, EntryDoes
<1>8. rank' \in Seq([prob : Int, box : Nat]) /\ Len(rank') = n
  <2>1. rank' = [j \in 1 .. n |-> rank'[j]]
    <3>1. CASE UNCHANGED rank
      BY <1>2, <1>4, <3>1 DEF TypeOK
    <3>2. CASE Suppress(next)
      BY <1>4, <3>2 DEF Suppress
    <3>3. QED BY <1>6, <3>1, <3>2
  <2>2. \A j \in 1 .. n : rank'[j] \in [prob : Int, box : Nat]
    BY <1>7
  <2>3. rank' \in [1 .. n -> [prob : Int, box : Nat]]
    BY <2>1, <2>2
  <2>4. QED BY <1>16, <2>3, Listed
<1>9. TypeOK'
  <2>1. Len(rank') = Len(boxes') /\ next' \in Nat \ {0}
    BY <1>1, <1>2, <1>3, <1>8, <1>17 DEF TypeOK
  <2>2. QED BY <1>1, <1>2, <1>8, <2>1 DEF TypeOK, input
<1>10. SortInv'
  BY <1>1 DEF SortInv, Sorting, Partitioning
<1>11. Kept(rank', Scores)
  <2>1. \A j \in DOMAIN rank : /\ rank'[j].prob = rank[j].prob
                               /\ rank'[j].box = rank[j].box \/ rank'[j].box = 0
    BY <1>4, <1>7
  <2>2. DOMAIN rank' = DOMAIN rank
    BY <1>4, <1>7
  <2>3. QED BY <1>2, <2>1, <2>2, KeptStays
<1>12. OneClass => Greedy(rank', Scores, Conflicts, next + 1)
  <2>1. SUFFICES ASSUME OneClass PROVE Greedy(rank', Scores, Conflicts, next + 1)
    OBVIOUS
  <2>2. 0 \notin DOMAIN Scores
    BY <1>4
  <2>3. /\ \A j \in 1 .. n : rank'[j].prob = rank[j].prob
        /\ \A j \in 1 .. n : rank'[j].box # rank[j].box =>
             /\ rank'[j].box = 0 /\ j > next /\ rank[next].box # 0
             /\ <<rank[next].box, rank[j].box>> \in Conflicts
        /\ \A j \in 1 .. n : j > next /\ rank[next].box # 0 /\ rank'[j].box # 0 =>
             <<rank[next].box, rank[j].box>> \notin Conflicts
    BY <1>7, <2>1
  <2>4. Greedy(rank, Scores, Conflicts, next) /\ DOMAIN rank' = 1 .. n
    BY <1>2, <1>7, <2>1
  <2>5. QED BY <1>2, <1>4, <2>2, <2>3, <2>4, GreedyStep
<1>13. NmsInv'
  BY <1>1, <1>2, <1>5, <1>11, <1>12 DEF NmsInv
<1>14. CollectInv'
  BY <1>1 DEF Inv, CollectInv
<1>15. QED BY <1>9, <1>10, <1>13, <1>14 DEF Inv

LEMMA NmsClassStep == Inv /\ NmsClass => Inv'
<1> SUFFICES ASSUME Inv, NmsClass PROVE Inv'
  OBVIOUS
<1>1. /\ phase = "nms" /\ next > Len(rank) /\ next' = 1 /\ classes' = classes \ {Class}
      /\ phase' = IF classes' = {} THEN "collect" ELSE "nms"
      /\ UNCHANGED <<input, boxes, rank, calls, low, high, key, results>>
  BY DEF NmsClass, sorting
<1>2. /\ TypeOK /\ Kept(rank, Scores)
      /\ classes # {} /\ \A c \in classes : \E n \in Box : boxes[n].class = c
      /\ OneClass => Greedy(rank, Scores, Conflicts, next)
  BY <1>1 DEF Inv, NmsInv
<1>3. /\ Scores' = Scores /\ Conflicts' = Conflicts /\ Box' = Box /\ OneClass' = OneClass
      /\ boxes' = boxes /\ rank' = rank
  BY <1>1, Unmoved
<1>4. TypeOK'
  BY <1>1, <1>2 DEF TypeOK, input
<1>5. SortInv'
  BY <1>1 DEF SortInv, Sorting, Partitioning
<1>6. Len(rank) \in Nat /\ DOMAIN rank = 1 .. Len(rank) /\ next \in Nat
  BY <1>2, Shape DEF TypeOK
<1>7. OneClass => phase' = "collect" /\ Greedy(rank, Scores, Conflicts, Len(rank) + 1)
  <2>1. SUFFICES ASSUME OneClass
                 PROVE  phase' = "collect" /\ Greedy(rank, Scores, Conflicts, Len(rank) + 1)
    OBVIOUS
  <2>2. phase' = "collect"
    BY <1>1, <1>2, <2>1, TheClass
  <2>3. \A p \in DOMAIN rank : p < next /\ p < Len(rank) + 1
    BY <1>1, <1>6
  <2>4. Greedy(rank, Scores, Conflicts, next)
    BY <1>2, <2>1
  <2>5. QED BY <2>2, <2>3, <2>4 DEF Greedy
<1>8. phase' = "nms" => classes' # {} /\ \A c \in classes' : \E n \in Box : boxes[n].class = c
  BY <1>1, <1>2
<1>9. phase' \in {"nms", "collect"}
  BY <1>1
<1>10. NmsInv'
  BY <1>2, <1>3, <1>7, <1>8, <1>9 DEF NmsInv
<1>11. results = <<>> /\ results' = <<>>
  BY <1>1 DEF Inv, CollectInv
<1>12. CollectInv'
  <2>1. \A i \in DOMAIN rank : ~ (i < 1)
    BY <1>6
  <2>2. QED BY <1>1, <1>3, <1>9, <1>11, <2>1 DEF CollectInv, Reported
<1>13. QED BY <1>4, <1>5, <1>10, <1>12 DEF Inv

-----------------------------------------------------------------------------
(* Steps of the last loop *)

LEMMA CollectEntryStep == Inv /\ CollectEntry => Inv'
<1> SUFFICES ASSUME Inv, CollectEntry PROVE Inv'
  OBVIOUS
<1>1. /\ phase = "collect" /\ phase' = "collect" /\ next <= Len(rank) /\ next' = next + 1
      /\ results' = IF rank[next].box = 0 \/ Len(results) >= MaxResults THEN results
                                                                      ELSE Append(results, Entry(rank, next))
      /\ UNCHANGED <<input, boxes, rank, calls, low, high, key, classes>>
  BY DEF CollectEntry, sorting, Entry
<1>2. TypeOK /\ Reported(results, rank, next)
  BY <1>1 DEF Inv, CollectInv
<1>3. PICK n : n = Len(rank)
  OBVIOUS
<1>4. /\ n \in Nat /\ DOMAIN rank = 1 .. n
      /\ \A j \in 1 .. n : rank[j] \in [prob : Int, box : Nat]
  BY <1>2, <1>3, Shape
<1>5. next \in Nat \ {0} /\ results \in Seq([box : Nat, prop : Int])
  BY <1>2 DEF TypeOK
<1>6. next \in 1 .. n /\ rank' = rank /\ MaxResults \in Nat
  BY <1>1, <1>3, <1>4, <1>5, DetectionAssumption
<1>7. \A i \in 1 .. n : i < next + 1 => i < next \/ i = next
  BY <1>6
<1>8. results' \in Seq([box : Nat, prop : Int]) /\ Reported(results', rank', next')
  <2>1. Entry(rank, next) \in [box : Nat, prop : Int]
    BY <1>4, <1>6 DEF Entry
  <2> DEFINE e == Entry(rank, next)
  <2>2. CASE rank[next].box = 0 \/ Len(results) >= MaxResults
    <3>1. results' = results
      BY <1>1, <2>2
    <3>2. \A i \in 1 .. n : i < next => i < next + 1
      BY <1>6
    <3>3. Len(results) \in Nat
      BY <1>5
    <3>4. Len(results) < MaxResults => rank[next].box = 0
      BY <1>6, <2>2, <3>3
    <3>5. Reported(results, rank, next + 1)
      BY <1>2, <1>4, <1>7, <3>2, <3>4 DEF Reported
    <3>6. QED BY <1>1, <1>5, <1>6, <3>1, <3>5
  <2>3. CASE ~ (rank[next].box = 0 \/ Len(results) >= MaxResults)
    <3>1. /\ results' = Append(results, e) /\ rank[next].box # 0
          /\ Len(results) < MaxResults
      BY <1>1, <1>5, <1>6, <2>3
    <3> HIDE DEF e
    <3>2. PICK m : m = Len(results)
      OBVIOUS
    <3>3. /\ results' \in Seq([box : Nat, prop : Int]) /\ m \in Nat
          /\ DOMAIN results = 1 .. m /\ DOMAIN results' = 1 .. m + 1
          /\ results'[m + 1] = e /\ \A k \in 1 .. m : results'[k] = results[k]
      BY <1>5, <2>1, <3>1, <3>2, Added DEF e
    <3>4. \A k \in 1 .. m + 1 : k \in 1 .. m \/ k = m + 1
      BY <3>3
    <3>5. ASSUME NEW k \in 1 .. m + 1
          PROVE  \E i \in 1 .. n : i < next + 1 /\ rank[i].box # 0 /\ results'[k] = Entry(rank, i)
      <4>1. CASE k \in 1 .. m
        <5>1. PICK i \in 1 .. n : i < next /\ rank[i].box # 0 /\ results[k] = Entry(rank, i)
          BY <1>2, <1>4, <3>3, <4>1 DEF Reported
        <5>2. i < next + 1 /\ results'[k] = Entry(rank, i)
          BY <1>6, <3>3, <4>1, <5>1
        <5>3. QED BY <5>1, <5>2
      <4>2. CASE k = m + 1
        <5>1. next < next + 1 /\ results'[k] = Entry(rank, next)
          BY <1>6, <3>3, <4>2 DEF e
        <5>2. QED BY <1>6, <3>1, <5>1
      <4>3. QED BY <3>4, <4>1, <4>2
    <3>6. ASSUME NEW k \in 1 .. m + 1, NEW l \in 1 .. m + 1, k < l
          PROVE  \E i, j \in 1 .. n :
                   i < j /\ results'[k] = Entry(rank, i) /\ results'[l] = Entry(rank, j)
      <4>1. k \in 1 .. m
        BY <3>3, <3>6
      <4>2. CASE l \in 1 .. m
        <5>1. PICK i \in 1 .. n, j \in 1 .. n :
                i < j /\ results[k] = Entry(rank, i) /\ results[l] = Entry(rank, j)
          <6>1. k \in DOMAIN results /\ l \in DOMAIN results /\ k < l
            BY <3>3, <3>6, <4>1, <4>2
          <6>2. QED BY <1>2, <1>4, <6>1 DEF Reported
        <5>2. QED BY <3>3, <4>1, <4>2, <5>1
      <4>3. CASE l = m + 1
        <5>1. PICK i \in 1 .. n : i < next /\ results[k] = Entry(rank, i)
          BY <1>2, <1>4, <3>3, <4>1 DEF Reported
        <5>2. results'[k] = Entry(rank, i) /\ results'[l] = Entry(rank, next)
          BY <3>3, <4>1, <4>3, <5>1 DEF e
        <5>3. QED BY <1>6, <5>1, <5>2
      <4>4. QED BY <3>4, <4>2, <4>3
    <3>7. ASSUME NEW i \in 1 .. n, i < next + 1, rank[i].box # 0
          PROVE  \E k \in 1 .. m + 1 : results'[k] = Entry(rank, i)
      <4>1. CASE i < next
        <5>1. PICK k \in 1 .. m : results[k] = Entry(rank, i)
          BY <1>2, <1>4, <3>1, <3>3, <3>7, <4>1 DEF Reported
        <5>2. k \in 1 .. m + 1 /\ results'[k] = Entry(rank, i)
          BY <3>3, <5>1
        <5>3. QED BY <5>2
      <4>2. CASE i = next
        <5>1. m + 1 \in 1 .. m + 1 /\ results'[m + 1] = Entry(rank, i)
          BY <3>3, <4>2 DEF e
        <5>2. QED BY <5>1
      <4>3. QED BY <1>7, <3>7, <4>1, <4>2
    <3>8. Reported(results', rank, next + 1)
      <4>1. DOMAIN results' = 1 .. m + 1 /\ DOMAIN rank = 1 .. n
        BY <1>4, <3>3
      <4>2. \A k \in DOMAIN results' : \E i \in DOMAIN rank :
              i < next + 1 /\ rank[i].box # 0 /\ results'[k] = Entry(rank, i)
        BY <3>5, <4>1
      <4>3. \A k, l \in DOMAIN results' : k < l =>
              \E i, j \in DOMAIN rank :
                i < j /\ results'[k] = Entry(rank, i) /\ results'[l] = Entry(rank, j)
        BY <3>6, <4>1
      <4>4. \A i \in DOMAIN rank : i < next + 1 /\ rank[i].box # 0 =>
              \E k \in DOMAIN results' : results'[k] = Entry(rank, i)
        BY <3>7, <4>1
      <4>5. QED BY <4>2, <4>3, <4>4 DEF Reported
    <3>9. QED BY <1>1, <1>6, <3>3, <3>8
  <2>4. QED BY <2>2, <2>3
<1>9. TypeOK'
  BY <1>1, <1>2, <1>5, <1>8 DEF TypeOK, input
<1>10. SortInv'
  BY <1>1 DEF SortInv, Sorting, Partitioning
<1>11. NmsInv'
  BY <1>1, Unmoved DEF Inv, NmsInv
<1>12. CollectInv'
  BY <1>1, <1>8 DEF CollectInv
<1>13. QED BY <1>9, <1>10, <1>11, <1>12 DEF Inv

LEMMA CollectedStep == Inv /\ Collected => Inv'
<1> SUFFICES ASSUME Inv, Collected PROVE Inv'
  OBVIOUS
<1>1. /\ phase = "collect" /\ phase' = "done" /\ next > Len(rank)
      /\ UNCHANGED <<input, next, boxes, rank, calls, low, high, key, classes, results>>
  BY DEF Collected, sorting
<1>2. TypeOK /\ Reported(results, rank, next)
  BY <1>1 DEF Inv, CollectInv
<1>3. TypeOK'
  BY <1>1, <1>2 DEF TypeOK, input
<1>4. SortInv'
  BY <1>1 DEF SortInv, Sorting, Partitioning
<1>5. NmsInv'
  BY <1>1, Unmoved DEF Inv, NmsInv
<1>6. Reported(results, rank, Len(rank) + 1)
  <2>1. Len(rank) \in Nat /\ DOMAIN rank = 1 .. Len(rank) /\ next \in Nat
    BY <1>2, Shape DEF TypeOK
  <2>2. \A i \in DOMAIN rank : i < next /\ i < Len(rank) + 1
    BY <1>1, <2>1
  <2>3. QED BY <1>2, <2>2 DEF Reported
<1>7. CollectInv'
  BY <1>1, <1>6 DEF CollectInv
<1>8. QED BY <1>3, <1>4, <1>5, <1>7 DEF Inv

-----------------------------------------------------------------------------
(* The theorems *)

LEMMA Initially == Init => Inv
<1> SUFFICES ASSUME Init PROVE Inv
  OBVIOUS
<1>1. TypeOK
  BY DEF Init, TypeOK
<1>2. DOMAIN rank = {} /\ DOMAIN Scores = {}
  BY DEF Init, Scores, Box
<1>3. SortInv
  BY <1>2 DEF Init, SortInv, Whole, Sorting, Partitioning
<1>4. NmsInv /\ CollectInv
  BY DEF Init, NmsInv, CollectInv
<1>5. QED BY <1>1, <1>3, <1>4 DEF Inv

LEMMA Stuttering == Inv /\ UNCHANGED vars => Inv'
<1> SUFFICES ASSUME Inv, UNCHANGED vars PROVE Inv'
  OBVIOUS
<1>1. UNCHANGED <<input, phase, next, boxes, rank, calls, low, high, key, classes, results>>
  BY DEF vars, sorting
<1>2. /\ Scores' = Scores /\ Conflicts' = Conflicts /\ Box' = Box /\ OneClass' = OneClass
      /\ Filled' = Filled /\ Call' = Call
  BY <1>1, Unmoved DEF Filled, Call
<1>3. TypeOK'
  BY <1>1 DEF Inv, TypeOK, input
<1>4. SortInv'
  BY <1>1, <1>2 DEF Inv, SortInv, Sorting, Partitioning, Partitioned
<1>5. NmsInv' /\ CollectInv'
  BY <1>1, <1>2 DEF Inv, NmsInv, CollectInv
<1>6. QED BY <1>3, <1>4, <1>5 DEF Inv

\* The invariant of post_process: its loops keep the scores with their boxes,
\* the ranges still to be sorted and what has been suppressed so far.
THEOREM PostProcessInvariant == Spec => []Inv
<1>1. Inv /\ [Next]_vars => Inv'
  BY ProcessStep, NoObjectStep, ProcessedStep, ShortStep, StartStep, DownStep, UpStep,
     PlaceStep, SortedStep, NmsEntryStep, NmsClassStep, CollectEntryStep,
     CollectedStep, Stuttering
  DEF Next
<1>2. QED BY <1>1, Initially, PTL DEF Spec

\* quick_sort_indice_inverse returns with the probabilities in descending
\* order, each still with the index of its box and no box twice or missing.
THEOREM SortCorrect ==
    Spec => [](phase = "call" /\ calls = <<>> =>
                 /\ \A i, j \in Box : i < j => rank[i].prob >= rank[j].prob
                 /\ \A i \in Box : rank[i].prob = Score(rank[i].box)
                 /\ \A n \in Box : \E i \in Box : /\ rank[i].box = n
                                               /\ \A j \in Box : rank[j].box = n => j = i)
<1>1. ASSUME Inv, phase = "call", calls = <<>>
      PROVE  /\ \A i, j \in Box : i < j => rank[i].prob >= rank[j].prob
             /\ \A i \in Box : rank[i].prob = Score(rank[i].box)
             /\ \A n \in Box : \E i \in Box : /\ rank[i].box = n
                                           /\ \A j \in Box : rank[j].box = n => j = i
  <2>1. TypeOK /\ Whole(rank, Scores) /\ Ordered(rank, calls)
    BY <1>1 DEF Inv, SortInv, Sorting, Partitioning, Filled
  <2>2. DOMAIN rank = Box /\ DOMAIN Scores = Box
    BY <2>1, Shape
  <2>3. \A i, j \in Box : i < j => rank[i].prob >= rank[j].prob
    BY <1>1, <2>1, <2>2 DEF Ordered, Together
  <2>4. \A i \in Box : rank[i].box \in Box /\ rank[i].prob = Scores[rank[i].box]
    BY <2>1, <2>2 DEF Whole
  <2>5. \A n \in Box : Scores[n] = Score(n)
    BY DEF Scores
  <2>6. \A i \in Box : rank[i].prob = Score(rank[i].box)
    BY <2>4, <2>5
  <2>7. \A n \in Box : \E i \in Box : /\ rank[i].box = n
                                    /\ \A j \in Box : rank[j].box = n => j = i
    BY <2>1, <2>2 DEF Whole
  <2>8. QED BY <2>3, <2>6, <2>7
<1>2. QED BY <1>1, PostProcessInvariant, PTL

\* What the results are, in every phase.
LEMMA ResultsAre ==
    ASSUME Inv
    PROVE  \/ results = <<>>
           \/ /\ Kept(rank, Scores)
              /\ \E done \in Nat : Reported(results, rank, done)
<1>1. TypeOK
  BY DEF Inv
<1>2. next \in Nat /\ Len(rank) + 1 \in Nat
  BY <1>1, Shape DEF TypeOK
<1>3. QED BY <1>2 DEF Inv, NmsInv, CollectInv

\* Each detection carries the probability of its own cell, none is reported
\* twice, and the best come first.
THEOREM DetectionsRanked == Spec => []ResultsRanked
<1>1. ASSUME Inv PROVE ResultsRanked
  <2>1. CASE results = <<>>
    BY <2>1 DEF ResultsRanked
  <2>2. CASE results # <<>>
    <3>1. Kept(rank, Scores)
      BY <1>1, <2>2, ResultsAre
    <3>2. PICK done \in Nat : Reported(results, rank, done)
      BY <1>1, <2>2, ResultsAre
    <3>3. SUFFICES ASSUME NEW k \in DOMAIN results
                   PROVE  /\ results[k].prop = Score(results[k].box)
                          /\ \A l \in 1 .. k - 1 : /\ results[l].prop >= results[k].prop
                                                  /\ results[l].box # results[k].box
      BY DEF ResultsRanked
    <3>4. PICK i \in DOMAIN rank : rank[i].box # 0 /\ results[k] = Entry(rank, i)
      BY <3>2 DEF Reported
    <3>5. results[k].prop = rank[i].prob /\ results[k].box = rank[i].box
      BY <3>4 DEF Entry
    <3>6. results[k].prop = Score(results[k].box)
      BY <3>1, <3>4, <3>5 DEF Kept, Scores
    <3>7. ASSUME NEW l \in 1 .. k - 1
          PROVE  results[l].prop >= results[k].prop /\ results[l].box # results[k].box
      <4>1. l \in DOMAIN results /\ k \in DOMAIN results /\ l < k
        <5>1. results \in Seq([box : Nat, prop : Int])
          BY <1>1 DEF Inv, TypeOK
        <5>2. Len(results) \in Nat /\ DOMAIN results = 1 .. Len(results)
          BY <5>1
        <5>3. QED BY <5>2
      <4>2. PICK m \in DOMAIN rank, j \in DOMAIN rank :
              m < j /\ results[l] = Entry(rank, m) /\ results[k] = Entry(rank, j)
        BY <3>2, <4>1 DEF Reported
      <4>3. /\ results[l].prop = rank[m].prob /\ results[l].box = rank[m].box
            /\ results[k].prop = rank[j].prob /\ results[k].box = rank[j].box
        BY <4>2 DEF Entry
      <4>4. rank[m].prob >= rank[j].prob
        BY <3>1, <4>2 DEF Kept
      <4>5. rank[m].box # rank[j].box
        <5>1. m # j
          BY <1>1, <4>2, Shape DEF Inv
        <5>2. rank[j].box # 0
          BY <3>4, <3>5, <4>3
        <5>3. QED BY <3>1, <5>1, <5>2 DEF Kept
      <4>6. QED BY <4>3, <4>4, <4>5
    <3>8. QED BY <3>6, <3>7
  <2>3. QED BY <2>1, <2>2
<1>2. QED BY <1>1, PostProcessInvariant, PTL

\* With candidates of one class and room for all, the detections are those of
\* greedy suppression.
THEOREM DetectionsGreedy == Spec => []OneClassGreedy
<1>1. ASSUME Inv PROVE OneClassGreedy
  <2>1. SUFFICES ASSUME phase = "done", Len(results) < MaxResults, OneClass,
                        NEW n \in Box
                 PROVE  (\E k \in DOMAIN results : results[k].box = n) <=>
                        ~ \E k \in DOMAIN results :
                            /\ results[k].box # n
                            /\ results[k].prop >= Score(n)
                            /\ Overlaps(results[k].box, n)
    BY DEF OneClassGreedy, OneClass, Box
  <2>2. /\ TypeOK /\ Kept(rank, Scores) /\ Greedy(rank, Scores, Conflicts, Len(rank) + 1)
        /\ Reported(results, rank, Len(rank) + 1)
    BY <1>1, <2>1 DEF Inv, NmsInv, CollectInv
  <2>3. /\ Len(rank) \in Nat /\ DOMAIN rank = 1 .. Len(rank) /\ DOMAIN Scores = Box
        /\ Box = 1 .. Len(rank) /\ n # 0
    BY <2>2, Shape
  <2>4. \A i \in DOMAIN rank : i < Len(rank) + 1
    BY <2>3
  <2>5. \A i \in DOMAIN rank : rank[i].box # 0 =>
          \E k \in DOMAIN results : /\ results[k].box = rank[i].box
                                   /\ results[k].prop = rank[i].prob
    BY <2>1, <2>2, <2>4 DEF Reported, Entry
  <2>6. ASSUME NEW k \in DOMAIN results
        PROVE  \E i \in DOMAIN rank : /\ rank[i].box # 0 /\ results[k].box = rank[i].box
                                     /\ results[k].prop = rank[i].prob
    BY <2>2 DEF Reported, Entry
  <2>7. \A m \in Box : <<m, n>> \in Conflicts <=> Overlaps(m, n)
    BY DEF Conflicts
  <2>8. \A m \in Box : Overlaps(m, n) <=> Overlaps(n, m)
    BY DEF Overlaps
  <2>9. ASSUME NEW k \in DOMAIN results, results[k].box = n,
               NEW l \in DOMAIN results, results[l].box # n, Overlaps(results[l].box, n)
        PROVE  FALSE
    <3>1. PICK i \in DOMAIN rank : rank[i].box = n
      BY <2>6, <2>9
    <3>2. PICK j \in DOMAIN rank : rank[j].box = results[l].box /\ rank[j].box # 0
      BY <2>6
    <3>3. rank[j].box \in Box
      BY <2>2, <2>3, <3>2 DEF Kept
    <3>4. <<rank[j].box, n>> \in Conflicts /\ <<n, rank[j].box>> \in Conflicts
      BY <2>7, <2>8, <2>9, <3>2, <3>3 DEF Conflicts
    <3>5. i < j \/ j < i
      BY <2>3, <2>9, <3>1, <3>2
    <3>6. QED BY <2>2, <2>3, <2>4, <3>1, <3>2, <3>4, <3>5 DEF Greedy
  <2>10. ASSUME ~ \E k \in DOMAIN results : results[k].box = n
         PROVE  \E k \in DOMAIN results : /\ results[k].box # n
                                         /\ results[k].prop >= Score(n)
                                         /\ Overlaps(results[k].box, n)
    <3>1. ~ \E i \in DOMAIN rank : rank[i].box = n
      BY <2>3, <2>5, <2>10
    <3>2. PICK p \in DOMAIN rank : /\ rank[p].box # 0 /\ rank[p].prob >= Scores[n]
                                   /\ <<rank[p].box, n>> \in Conflicts
      BY <2>2, <2>3, <3>1 DEF Greedy
    <3>3. rank[p].box \in Box /\ Scores[n] = Score(n)
      BY <2>2, <2>3, <3>2 DEF Kept, Scores
    <3>4. PICK k \in DOMAIN results : /\ results[k].box = rank[p].box
                                      /\ results[k].prop = rank[p].prob
      BY <2>5, <3>2
    <3>5. Overlaps(results[k].box, n)
      BY <2>7, <3>2, <3>3, <3>4
    <3>6. QED BY <2>10, <3>2, <3>3, <3>4, <3>5
  <2>11. QED BY <2>9, <2>10
<1>2. QED BY <1>1, PostProcessInvariant, PTL

-----------------------------------------------------------------------------
(* Any number of classes *)

LEMMA ExplainedWhenSorted ==
    ASSUME Inv, phase = "call", calls = <<>>
    PROVE  Explained(rank, Scores, Conflicts)
<1>1. TypeOK /\ Whole(rank, Scores) /\ Ordered(rank, calls)
  BY DEF Inv, SortInv, Sorting, Partitioning, Filled
<1>2. PICK n : n = Len(rank)
  OBVIOUS
<1>3. /\ n \in Nat /\ DOMAIN rank = 1 .. n /\ DOMAIN Scores = 1 .. n
      /\ \A j \in 1 .. n : rank[j] \in [prob : Int, box : Nat]
  BY <1>1, <1>2, Shape
<1>4. \A i, j \in 1 .. n : i < j => rank[i].prob >= rank[j].prob
  BY <1>1, <1>3 DEF Ordered, Together
<1>5. SUFFICES ASSUME NEW m \in 1 .. n
               PROVE  /\ rank[1].box # 0 /\ rank[1].prob >= Scores[m]
                      /\ \E i \in 1 .. n : rank[i].box = m
  BY <1>3 DEF Explained
<1>6. PICK i \in 1 .. n : rank[i].box = m
  BY <1>1, <1>3 DEF Whole
<1>7. 1 \in 1 .. n /\ rank[1].box # 0 /\ rank[i].prob = Scores[m]
  <2>1. 1 \in 1 .. n
    BY <1>3
  <2>2. \A j \in 1 .. n : rank[j].box \in 1 .. n /\ rank[j].prob = Scores[rank[j].box]
    BY <1>1, <1>3 DEF Whole
  <2>3. rank[1].box \in 1 .. n
    BY <2>1, <2>2
  <2>4. QED BY <1>3, <1>6, <2>1, <2>2, <2>3
<1>8. rank[1].prob >= rank[i].prob
  <2>1. CASE i = 1
    BY <1>3, <1>7, <2>1
  <2>2. CASE i # 1
    BY <1>4, <1>7, <2>2
  <2>3. QED BY <2>1, <2>2
<1>9. QED BY <1>6, <1>7, <1>8

\* An entry that is suppressed overlaps the one that suppresses it, which comes
\* before it.
LEMMA ExplainedStays ==
    ASSUME Inv, NmsEntry, Explained(rank, Scores, Conflicts)
    PROVE  Explained(rank', Scores, Conflicts)
<1>1. PICK n : n = Len(rank)
  OBVIOUS
<1>2. /\ TypeOK /\ Kept(rank, Scores) /\ next <= n
  BY <1>1 DEF NmsEntry, Inv, NmsInv
<1>3. /\ n \in Nat /\ DOMAIN rank = 1 .. n /\ DOMAIN Scores = 1 .. n /\ Box = 1 .. n
  BY <1>1, <1>2, Shape
<1>4. next \in 1 .. n
  BY <1>2, <1>3 DEF TypeOK
<1>5. /\ DOMAIN rank' = 1 .. n
      /\ \A j \in 1 .. n :
           /\ rank'[j].prob = rank[j].prob
           /\ \/ rank'[j].box = rank[j].box
              \/ /\ rank'[j].box = 0 /\ j > next /\ rank[next].box # 0
                 /\ <<rank[next].box, rank[j].box>> \in Conflicts
  BY <1>1, EntryDoes
<1>6. SUFFICES ASSUME NEW m \in 1 .. n
               PROVE  /\ rank'[1].box # 0 /\ rank'[1].prob >= Scores[m]
                      /\ \/ \E i \in 1 .. n : rank'[i].box = m
                         \/ \E c \in 1 .. n : /\ c # m /\ Scores[c] >= Scores[m]
                                              /\ <<c, m>> \in Conflicts
  BY <1>3, <1>5 DEF Explained
<1>7. /\ rank[1].box # 0 /\ rank[1].prob >= Scores[m]
      /\ \/ \E i \in 1 .. n : rank[i].box = m
         \/ \E c \in 1 .. n : /\ c # m /\ Scores[c] >= Scores[m]
                              /\ <<c, m>> \in Conflicts
  BY <1>3 DEF Explained
<1>8. rank'[1].box = rank[1].box /\ rank'[1].prob = rank[1].prob
  <2>1. 1 \in 1 .. n /\ ~ (1 > next)
    BY <1>3, <1>4
  <2>2. QED BY <1>5, <2>1
<1>9. ASSUME NEW i \in 1 .. n, rank[i].box = m, rank'[i].box # m
      PROVE  \E c \in 1 .. n : /\ c # m /\ Scores[c] >= Scores[m]
                               /\ <<c, m>> \in Conflicts
  <2>1. i > next /\ rank[next].box # 0 /\ <<rank[next].box, m>> \in Conflicts
    BY <1>5, <1>9
  <2>2. m # 0 /\ rank[next].box \in 1 .. n
    BY <1>2, <1>3, <1>4, <2>1 DEF Kept
  <2>3. rank[next].box # m
    BY <1>2, <1>3, <1>4, <1>9, <2>1, <2>2 DEF Kept
  <2>4. /\ rank[next].prob = Scores[rank[next].box] /\ rank[i].prob = Scores[m]
        /\ rank[next].prob >= rank[i].prob
    BY <1>2, <1>3, <1>4, <1>9, <2>1, <2>2 DEF Kept
  <2>5. QED BY <2>1, <2>2, <2>3, <2>4
<1>10. QED BY <1>7, <1>8, <1>9

\* The next entry is reported, or has no box, or finds the results full of
\* entries before it.
LEMMA CappedStays ==
    ASSUME Inv, CollectEntry, Len(results) <= MaxResults, Capped(results, rank, next)
    PROVE  Len(results') <= MaxResults /\ Capped(results', rank, next + 1)
<1>1. /\ phase = "collect" /\ next <= Len(rank)
      /\ results' = IF rank[next].box = 0 \/ Len(results) >= MaxResults THEN results
                    ELSE Append(results, Entry(rank, next))
  BY DEF CollectEntry, Entry
<1>2. TypeOK /\ Reported(results, rank, next) /\ Kept(rank, Scores)
  BY <1>1 DEF Inv, CollectInv, NmsInv
<1>3. PICK n, r : n = Len(rank) /\ r = Len(results)
  OBVIOUS
<1>4. /\ n \in Nat /\ DOMAIN rank = 1 .. n
      /\ \A j \in 1 .. n : rank[j] \in [prob : Int, box : Nat]
  BY <1>2, <1>3, Shape
<1>5. next \in Nat \ {0} /\ results \in Seq([box : Nat, prop : Int])
  BY <1>2 DEF TypeOK
<1>6. next \in 1 .. n /\ MaxResults \in Nat /\ r \in Nat /\ DOMAIN results = 1 .. r
  BY <1>1, <1>3, <1>4, <1>5, DetectionAssumption
<1>7. \A i \in 1 .. n : i < next + 1 => i < next \/ i = next
  BY <1>6
<1>8. \A i \in 1 .. n : i < next /\ rank[i].box # 0 =>
        \/ \E k \in 1 .. r : results[k] = Entry(rank, i)
        \/ r = MaxResults /\ \A k \in 1 .. r : results[k].prop >= rank[i].prob
  BY <1>3, <1>4, <1>6 DEF Capped
<1>9. CASE rank[next].box = 0 \/ r >= MaxResults
  <2>1. results' = results
    BY <1>1, <1>3, <1>9
  <2>2. ASSUME rank[next].box # 0
        PROVE  r = MaxResults /\ \A k \in 1 .. r : results[k].prop >= rank[next].prob
    <3>1. r = MaxResults
      BY <1>3, <1>6, <1>9, <2>2
    <3>2. ASSUME NEW k \in 1 .. r PROVE results[k].prop >= rank[next].prob
      <4>1. PICK i \in 1 .. n : i < next /\ results[k] = Entry(rank, i)
        BY <1>2, <1>4, <1>6 DEF Reported
      <4>2. results[k].prop = rank[i].prob
        BY <4>1 DEF Entry
      <4>3. rank[i].prob >= rank[next].prob
        BY <1>2, <1>4, <1>6, <4>1 DEF Kept
      <4>4. QED BY <4>2, <4>3
    <3>3. QED BY <3>1, <3>2
  <2>3. \A i \in 1 .. n : i < next + 1 /\ rank[i].box # 0 =>
          \/ \E k \in 1 .. r : results[k] = Entry(rank, i)
          \/ r = MaxResults /\ \A k \in 1 .. r : results[k].prop >= rank[i].prob
    BY <1>7, <1>8, <2>2
  <2>4. QED BY <1>3, <1>4, <1>6, <2>1, <2>3 DEF Capped
<1>10. CASE ~ (rank[next].box = 0 \/ r >= MaxResults)
  <2> DEFINE e == Entry(rank, next)
  <2>1. results' = Append(results, e) /\ r < MaxResults /\ e \in [box : Nat, prop : Int]
    BY <1>1, <1>3, <1>4, <1>6, <1>10 DEF Entry
  <2> HIDE DEF e
  <2>2. /\ Len(results') = r + 1 /\ DOMAIN results' = 1 .. r + 1
        /\ results'[r + 1] = e /\ \A k \in 1 .. r : results'[k] = results[k]
    BY <1>3, <1>5, <2>1, Added
  <2>3. r + 1 \in 1 .. r + 1 /\ \A k \in 1 .. r : k \in 1 .. r + 1
    BY <1>6
  <2>4. \A i \in 1 .. n : i < next + 1 /\ rank[i].box # 0 =>
          \E k \in 1 .. r + 1 : results'[k] = Entry(rank, i)
    <3>1. ASSUME NEW i \in 1 .. n, i < next, rank[i].box # 0
          PROVE  \E k \in 1 .. r + 1 : results'[k] = Entry(rank, i)
      <4>1. r # MaxResults
        BY <1>6, <2>1
      <4>2. PICK k \in 1 .. r : results[k] = Entry(rank, i)
        BY <1>8, <3>1, <4>1
      <4>3. QED BY <2>2, <2>3, <4>2
    <3>2. results'[r + 1] = Entry(rank, next)
      BY <2>2 DEF e
    <3>3. QED BY <1>7, <2>3, <3>1, <3>2
  <2>5. r + 1 <= MaxResults
    BY <1>6, <2>1
  <2>6. QED BY <1>4, <2>2, <2>4, <2>5 DEF Capped
<1>11. QED BY <1>9, <1>10

LEMMA AnyClassStep == Inv /\ AnyClassInv /\ [Next]_vars => AnyClassInv'
<1> SUFFICES ASSUME Inv, AnyClassInv, [Next]_vars PROVE AnyClassInv'
  OBVIOUS
<1>1. CASE \/ ProcessCell \/ Processed \/ ShortCall \/ StartCall \/ Down \/ Up \/ Place
  <2>1. results' = results /\ phase' \notin {"nms", "collect", "done"}
    BY <1>1 DEF ProcessCell, Processed, ShortCall, StartCall, Down, Up, Place
  <2>2. QED BY <2>1 DEF AnyClassInv
<1>2. CASE NoObject
  <2>1. /\ results' = results /\ boxes' = boxes /\ rank' = rank /\ boxes = <<>>
        /\ TypeOK
    BY <1>2 DEF NoObject, Inv
  <2>2. DOMAIN boxes = {} /\ DOMAIN rank = {}
    BY <2>1 DEF TypeOK
  <2>3. DOMAIN Scores' = {} /\ DOMAIN rank' = {}
    BY <2>1, <2>2 DEF Scores, Box
  <2>4. Explained(rank', Scores', Conflicts') /\ Capped(results', rank', Len(rank') + 1)
    BY <2>3 DEF Explained, Capped
  <2>5. phase' = "done"
    BY <1>2 DEF NoObject
  <2>6. QED BY <2>1, <2>4, <2>5 DEF AnyClassInv
<1>3. CASE Sorted
  <2>1. /\ phase = "call" /\ calls = <<>> /\ phase' = "nms" /\ results' = results
        /\ UNCHANGED <<input, boxes, rank>>
    BY <1>3 DEF Sorted
  <2>2. Explained(rank', Scores', Conflicts')
    BY <2>1, ExplainedWhenSorted, Unmoved
  <2>3. QED BY <2>1, <2>2 DEF AnyClassInv
<1>4. CASE NmsEntry
  <2>1. phase = "nms" /\ phase' = "nms" /\ results' = results /\ UNCHANGED <<input, boxes>>
    BY <1>4 DEF NmsEntry
  <2>2. Explained(rank', Scores, Conflicts)
    BY <1>4, <2>1, ExplainedStays DEF AnyClassInv
  <2>3. Scores' = Scores /\ Conflicts' = Conflicts
    BY <2>1, Unmoved
  <2>4. QED BY <2>1, <2>2, <2>3 DEF AnyClassInv
<1>5. CASE NmsClass
  <2>1. /\ phase = "nms" /\ phase' \in {"nms", "collect"} /\ next' = 1
        /\ results' = results /\ UNCHANGED <<input, boxes, rank>>
    BY <1>5 DEF NmsClass
  <2>2. Explained(rank', Scores', Conflicts')
    BY <2>1, Unmoved DEF AnyClassInv
  <2>3. \A i \in DOMAIN rank : ~ (i < 1)
    BY Shape DEF Inv
  <2>4. Capped(results', rank', next')
    BY <2>1, <2>3 DEF Capped
  <2>5. QED BY <2>1, <2>2, <2>4 DEF AnyClassInv
<1>6. CASE CollectEntry
  <2>1. /\ phase = "collect" /\ phase' = "collect" /\ next' = next + 1
        /\ UNCHANGED <<input, boxes, rank>>
    BY <1>6 DEF CollectEntry
  <2>2. Len(results') <= MaxResults /\ Capped(results', rank', next')
    BY <1>6, <2>1, CappedStays DEF AnyClassInv
  <2>3. Explained(rank', Scores', Conflicts')
    BY <2>1, Unmoved DEF AnyClassInv
  <2>4. QED BY <2>1, <2>2, <2>3 DEF AnyClassInv
<1>7. CASE Collected
  <2>1. /\ phase = "collect" /\ phase' = "done" /\ next > Len(rank)
        /\ UNCHANGED <<input, boxes, rank, results>>
    BY <1>7 DEF Collected
  <2>2. Len(rank) \in Nat /\ DOMAIN rank = 1 .. Len(rank) /\ next \in Nat
    BY Shape DEF Inv, TypeOK
  <2>3. \A i \in DOMAIN rank : i < next /\ i < Len(rank) + 1
    BY <2>1, <2>2
  <2>4. Capped(results, rank, Len(rank) + 1)
    BY <2>1, <2>3 DEF AnyClassInv, Capped
  <2>5. Explained(rank', Scores', Conflicts')
    BY <2>1, Unmoved DEF AnyClassInv
  <2>6. QED BY <2>1, <2>4, <2>5 DEF AnyClassInv
<1>8. CASE UNCHANGED vars
  <2>1. UNCHANGED <<input, phase, next, boxes, rank, results>>
    BY <1>8 DEF vars
  <2>2. QED BY <2>1, Unmoved DEF AnyClassInv
<1>9. QED BY <1>1, <1>2, <1>3, <1>4, <1>5, <1>6, <1>7, <1>8 DEF Next

\* For any number of classes: no candidate is missing without one as good that
\* overlaps it or a full array of better ones, the best is reported first, and
\* over one class suppression is greedy; the results never exceed their array.
THEOREM AnyClasses == Spec => [](SuppressionExplained /\ Len(results) <= MaxResults)
<1>1. Init => AnyClassInv
  BY DetectionAssumption DEF Init, AnyClassInv
<1>2. Spec => []AnyClassInv
  BY <1>1, AnyClassStep, PostProcessInvariant, PTL DEF Spec
<1>3. ASSUME Inv, AnyClassInv, phase = "done", NEW n \in Box
      PROVE  /\ Kept(rank, Scores) /\ Explained(rank, Scores, Conflicts)
             /\ DOMAIN Scores = Box /\ Scores[n] = Score(n)
             /\ 1 \in DOMAIN rank
             /\ \A i \in DOMAIN rank : rank[i].box # 0 =>
                  \/ \E k \in DOMAIN results : results[k] = Entry(rank, i)
                  \/ /\ Len(results) = MaxResults
                     /\ \A k \in DOMAIN results : results[k].prop >= rank[i].prob
  <2>1. Len(rank) \in Nat /\ DOMAIN rank = 1 .. Len(rank) /\ Box = 1 .. Len(rank)
    BY <1>3, Shape DEF Inv
  <2>2. \A i \in DOMAIN rank : i < Len(rank) + 1
    BY <2>1
  <2>3. 1 \in DOMAIN rank
    BY <2>1
  <2>4. QED BY <1>3, <2>2, <2>3 DEF Inv, NmsInv, AnyClassInv, Capped, Scores
<1>4. ASSUME Inv, AnyClassInv, phase = "done", NEW n \in Box
      PROVE  \/ \E k \in DOMAIN results : results[k].box = n
             \/ \E m \in Box : m # n /\ Score(m) >= Score(n) /\ Overlaps(m, n)
             \/ /\ Len(results) = MaxResults
                /\ \A k \in DOMAIN results : results[k].prop >= Score(n)
  <2>1. n # 0
    BY <1>4, Shape DEF Inv
  <2>2. CASE \E i \in DOMAIN rank : rank[i].box = n
    <3>1. PICK i \in DOMAIN rank : rank[i].box = n
      BY <2>2
    <3>2. rank[i].prob = Score(n)
      BY <1>3, <1>4, <2>1, <3>1 DEF Kept
    <3>3. QED BY <1>3, <1>4, <2>1, <3>1, <3>2 DEF Entry
  <2>3. CASE \E m \in Box : m # n /\ Scores[m] >= Scores[n] /\ <<m, n>> \in Conflicts
    BY <2>3 DEF Scores, Conflicts
  <2>4. QED BY <1>3, <1>4, <2>2, <2>3 DEF Explained
<1>5. ASSUME Inv, AnyClassInv, ResultsRanked, phase = "done", MaxResults > 0, NEW n \in Box
      PROVE  results # <<>> /\ results[1].prop >= Score(n)
  <2>1. rank[1].box # 0 /\ rank[1].prob >= Score(n) /\ 1 \in DOMAIN rank
    BY <1>3, <1>5 DEF Explained
  <2>2. /\ results \in Seq([box : Nat, prop : Int]) /\ rank[1].prob \in Int
        /\ Score(n) \in Int
    <3>1. Score(n) \in Int
      <4>1. /\ cells \in [1 .. Cells -> CellKind] /\ n \in 1 .. Len(boxes)
            /\ boxes \in Seq([cell : 1 .. Cells, class : 1 .. Classes])
        BY <1>5 DEF Inv, TypeOK, Box
      <4>2. boxes[n] \in [cell : 1 .. Cells, class : 1 .. Classes]
        BY <4>1, ElementOfSeq
      <4>3. cells[boxes[n].cell] \in CellKind /\ boxes[n].class \in 1 .. Classes
        BY <4>1, <4>2
      <4>4. QED BY <4>3, ProbabilityTyped DEF Score
    <3>2. QED BY <1>5, <2>1, <3>1, Shape DEF Inv, TypeOK
  <2>3. \/ \E k \in DOMAIN results : results[k] = Entry(rank, 1)
        \/ /\ Len(results) = MaxResults
           /\ \A k \in DOMAIN results : results[k].prop >= rank[1].prob
    BY <1>3, <1>5, <2>1
  <2>4. results # <<>> /\ 1 \in DOMAIN results /\ results[1].prop \in Int
    <3>1. results # <<>>
      BY <1>5, <2>3
    <3>2. 1 \in DOMAIN results
      BY <2>2, <3>1
    <3>3. results[1] \in [box : Nat, prop : Int]
      <4>1. results \in Seq([box : Nat, prop : Int]) /\ 1 \in 1 .. Len(results)
        BY <2>2, <3>2
      <4>2. QED BY <4>1, ElementOfSeq
    <3>4. QED BY <3>1, <3>2, <3>3
  <2>5. results[1].prop >= rank[1].prob
    <3>1. CASE \E k \in DOMAIN results : results[k] = Entry(rank, 1)
      <4>1. PICK k \in DOMAIN results : results[k] = Entry(rank, 1)
        BY <3>1
      <4>2. results[k].prop = rank[1].prob
        BY <4>1 DEF Entry
      <4>3. k = 1 \/ 1 \in 1 .. k - 1
        BY <2>2
      <4>4. QED BY <1>5, <2>2, <4>2, <4>3 DEF ResultsRanked
    <3>2. QED BY <2>3, <2>4, <3>1
  <2>6. QED BY <2>1, <2>2, <2>4, <2>5
<1>6. Inv /\ AnyClassInv /\ ResultsRanked /\ OneClassGreedy => SuppressionExplained
  BY <1>4, <1>5 DEF SuppressionExplained, Box
<1>7. AnyClassInv => Len(results) <= MaxResults
  BY DEF AnyClassInv
<1>8. QED BY <1>2, <1>6, <1>7, PostProcessInvariant, DetectionsRanked, DetectionsGreedy,
     PTL

-----------------------------------------------------------------------------
(* The rectangle of a detection, Overlay.tla: it fits its picture for every  *)
(* even width, every size of the network's input and every box.             *)

\* Scaling back a corner that lies within the network's input gives one that
\* lies within the picture.
LEMMA ScaledWithin ==
    ASSUME NEW x \in Nat, x <= Side, width \in Nat \ {0}, Side \in Nat \ {0},
           NEW s \in Scaled(x)
    PROVE  s \in 0 .. width
<1> DEFINE p == x * width
           q == p \div Side
<1>1. p \in Nat
  OBVIOUS
<1>2. q \in Int /\ p = Side * q + (p % Side) /\ p % Side \in 0 .. Side - 1
  BY <1>1
<1>3. p <= Side * width
  OBVIOUS
<1>4. q \in Nat
  BY <1>1
<1> HIDE DEF p
<1>5. q <= width
  <2>1. SUFFICES ASSUME q >= width + 1 PROVE FALSE
    BY <1>4
  <2>2. Side * q >= Side * (width + 1)
    BY <2>1, <1>4
  <2>3. Side * (width + 1) = Side * width + Side
    OBVIOUS
  <2>4. QED BY <2>2, <2>3, <1>1, <1>2, <1>3
<1>6. ASSUME x > 0, p % Side = 0 PROVE q - 1 \in 0 .. width
  <2>1. p > 0
    <3>1. x * width >= x
      OBVIOUS
    <3>2. QED BY <3>1, <1>6 DEF p
  <2>2. q # 0
    BY <2>1, <1>2, <1>6
  <2>3. QED BY <2>2, <1>4, <1>5
<1>7. s = q \/ (s = q - 1 /\ x > 0 /\ p % Side = 0)
  BY DEF Scaled, p
<1>8. QED BY <1>4, <1>5, <1>6, <1>7

\* What the three phases have made of the corners.
Corners ==
    /\ width \in Widths
    /\ stage = "network" => left \in Int /\ right \in Int
    /\ stage = "picture" =>
         /\ left \in 0 .. width /\ right \in left .. width
         /\ box.left = left /\ box.right = right
    /\ stage \in {"network", "picture", "drawn"}

\* The inductive invariant.
RectInv == Corners /\ RectangleFits

LEMMA EvenWidth ==
    ASSUME RectInv
    PROVE  width \in Nat /\ width >= 2 /\ width % 2 = 0
BY OverlayAssumption DEF RectInv, Corners

\* Making a corner even moves it by at most one pixel.
LEMMA Even ==
    ASSUME NEW v \in Nat
    PROVE  /\ align_down_even(v) \in {v - 1, v} /\ align_down_even(v) \in Nat
           /\ align_down_even(v) % 2 = 0
           /\ align_up_even(v) \in {v, v + 1} /\ align_up_even(v) % 2 = 0
<1>1. v % 2 \in {0, 1} /\ (v + 1) % 2 \in {0, 1}
  OBVIOUS
<1>2. (v - (v % 2)) % 2 = 0 /\ (v + 1 - ((v + 1) % 2)) % 2 = 0
  OBVIOUS
<1>3. v = 0 => v % 2 = 0
  OBVIOUS
<1>4. (v + 1) % 2 = 0 \/ v % 2 = 0
  OBVIOUS
<1>5. QED BY <1>1, <1>2, <1>3, <1>4 DEF align_down_even, align_up_even

\* One that does not exceed an even number does not leave it either.
LEMMA EvenBelow ==
    ASSUME NEW v \in Nat, NEW w \in Nat, w % 2 = 0, v <= w
    PROVE  align_up_even(v) <= w /\ (v = w => align_down_even(v) = w)
BY DEF align_up_even, align_down_even

\* The arithmetic of a rectangle, with names for the corners it goes through.
LEMMA Rectangle ==
    ASSUME NEW w \in Nat, w >= 2, w % 2 = 0,
           NEW a \in 0 .. w, NEW b \in a .. w,
           NEW l \in Int, l = clamp_to_range(a, 0, w - 2),
           NEW x \in Int, x = align_down_even(l),
           NEW r \in Int, r = clamp_to_range(b, x + 2, w),
           NEW y \in Int, y = align_up_even(r)
    PROVE  /\ x \in 0 .. a /\ y \in b .. w
           /\ x % 2 = 0 /\ y % 2 = 0
           /\ y - x >= 2 /\ a - x <= 2
           /\ y <= Greatest(b, x + 2) + 1
<1>1. a \in Int /\ b \in Int /\ 0 <= a /\ a <= b /\ b <= w
  OBVIOUS
<1>2. l >= 0 /\ l <= w - 2 /\ l <= a /\ (l = a \/ (l = w - 2 /\ a <= l + 2))
  BY <1>1 DEF clamp_to_range, Least, Greatest
<1>3. x \in {l - 1, l} /\ x >= 0 /\ x % 2 = 0
  BY <1>2, Even
<1>4. a - x <= 2
  <2>1. CASE l = a
    BY <2>1, <1>1, <1>3
  <2>2. CASE l = w - 2 /\ a <= l + 2
    <3>1. l % 2 = 0 /\ l \in Nat
      BY <2>2
    <3>2. x = l
      BY <3>1 DEF align_down_even
    <3>3. QED BY <2>2, <3>2, <1>1
  <2>3. QED BY <2>1, <2>2, <1>2
<1>5. x + 2 <= w
  BY <1>2, <1>3
<1>6. r >= x + 2 /\ r <= w /\ r >= b /\ r = Greatest(b, x + 2)
  BY <1>1, <1>5 DEF clamp_to_range, Least, Greatest
<1>7. r \in Nat
  BY <1>3, <1>6
<1>8. y \in {r, r + 1} /\ y % 2 = 0
  BY <1>7, Even
<1>9. y <= w
  BY <1>6, <1>7, EvenBelow
<1>10. x <= a
  BY <1>1, <1>2, <1>3
<1>11. y >= b /\ y - x >= 2 /\ y <= r + 1
  BY <1>1, <1>6, <1>8
<1>12. QED BY <1>1, <1>3, <1>4, <1>6, <1>8, <1>9, <1>10, <1>11

LEMMA DrawStep == RectInv /\ Draw => RectInv'
<1> SUFFICES ASSUME RectInv, Draw PROVE RectInv'
  OBVIOUS
<1>1. width \in Nat /\ width >= 2 /\ width % 2 = 0
  BY EvenWidth
<1>2. /\ left \in 0 .. width /\ right \in left .. width
      /\ box.left = left /\ box.right = right
  BY DEF RectInv, Corners, Draw
<1> DEFINE l == clamp_to_range(left, 0, width - 2)
           r == clamp_to_range(right, left' + 2, width)
<1>3. l \in Int /\ left' = align_down_even(l) /\ left' \in Int
  BY <1>1, <1>2 DEF Draw, Left, align_down_even, clamp_to_range, Least, Greatest
<1>4. r \in Int /\ right' = align_up_even(r) /\ right' \in Int
  BY <1>1, <1>2, <1>3
  DEF Draw, align_up_even, align_down_even, clamp_to_range, Least, Greatest
<1> HIDE DEF l, r
<1>5. /\ left' \in 0 .. left /\ right' \in right .. width
      /\ left' % 2 = 0 /\ right' % 2 = 0
      /\ right' - left' >= 2 /\ left - left' <= 2
      /\ right' <= Greatest(right, left' + 2) + 1
  BY <1>1, <1>2, <1>3, <1>4, Rectangle DEF l, r
<1>6. stage' = "drawn" /\ box' = box /\ width' = width
  BY <1>3, <1>4, <1>5 DEF Draw
<1>7. RectangleFits'
  BY <1>2, <1>5, <1>6 DEF RectangleFits, Greatest
<1>8. QED BY <1>6, <1>7 DEF RectInv, Corners, Draw

LEMMA MapStep == RectInv /\ MapBack => RectInv'
<1> SUFFICES ASSUME RectInv, MapBack PROVE RectInv'
  OBVIOUS
<1>1. width \in Nat \ {0} /\ Side \in Nat \ {0}
  BY EvenWidth, OverlayAssumption
<1>2. left \in Int /\ right \in Int
  BY DEF RectInv, Corners, MapBack
<1>3. /\ clamp_to_range(left, 0, Side) \in 0 .. Side
      /\ clamp_to_range(right, 0, Side) \in 0 .. Side
  BY <1>1, <1>2 DEF clamp_to_range, Least, Greatest
<1>4. left' \in 0 .. width /\ right' \in 0 .. width /\ right' >= left'
  BY <1>1, <1>3, ScaledWithin DEF MapBack
<1>5. QED BY <1>4 DEF RectInv, Corners, RectangleFits, MapBack

\* EncodeZeroCopy draws every detection of a frame, and inside its picture.
THEOREM RectanglesFit == OverlaySpec => []RectangleFits
<1>1. OverlayInit => RectInv
  <2> SUFFICES ASSUME OverlayInit PROVE RectInv
    OBVIOUS
  <2>1. left \in Int /\ right \in Int
    BY OverlayAssumption DEF OverlayInit
  <2>2. QED BY <2>1 DEF OverlayInit, RectInv, Corners, RectangleFits
<1>2. RectInv /\ [OverlayNext]_overlayVars => RectInv'
  <2>1. RectInv /\ UNCHANGED overlayVars => RectInv'
    BY DEF RectInv, Corners, RectangleFits, overlayVars
  <2>2. QED BY <2>1, MapStep, DrawStep DEF OverlayNext
<1>3. RectInv => RectangleFits
  BY DEF RectInv
<1>4. QED BY <1>1, <1>2, <1>3, PTL DEF OverlaySpec
================================================================================
