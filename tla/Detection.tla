------------------------------- MODULE Detection -------------------------------
(***************************************************************************)
(* post_process (src/src/postprocess.cc): from the quantised outputs of    *)
(* the network to the list of detections of one frame.  Each of its loops  *)
(* is a phase, and one pass of a loop is one step.                         *)
(*                                                                         *)
(* A cell is one (head, anchor, row, column) in the order the three calls  *)
(* of process scan them, with its box confidence and its probability per   *)
(* class, as distances above the zero point.  Boxes are told apart only by *)
(* which pairs overlap by more than nms_threshold, which CalculateOverlap  *)
(* decides symmetrically and not transitively.  Indices start at 1, and 0  *)
(* stands for the -1 that marks a suppressed entry of order.               *)
(***************************************************************************)
EXTENDS Integers, Sequences, FiniteSetsExt

CONSTANTS
    Cells,       \* number of cells in all
    Classes,     \* OBJ_CLASS_NUM (80)
    CellKind,    \* the cells there may be: [conf, prob]
    Threshold,   \* box_conf_threshold after qnt_f32_to_affine
    MaxResults   \* OBJ_NUMB_MAX_SIZE (64)

ASSUME DetectionAssumption ==
    /\ Cells \in Nat /\ Classes \in Nat \ {0} /\ MaxResults \in Nat
    /\ Threshold \in Int
    /\ CellKind \subseteq [conf : Int, prob : [1 .. Classes -> Int]]

VARIABLES
    cells,    \* the outputs of the network
    overlap,  \* pairs of cells whose boxes overlap too much
    phase,    \* the loop: "process"; of the sort "call", "down", "up", "place";
              \* "nms", "collect"; "done"
    next,     \* index of the loop: a cell, or a rank
    boxes,    \* filterBoxes and classId: [cell, class] per accepted cell
    rank,     \* objProbs and indexArray, permuted together: [prob, box]
    calls,    \* calls of quick_sort_indice_inverse, [left, right]: the one that
              \* runs, then those still to come
    low, high, key,
    classes,  \* classes of class_set nms has not gone through yet
    results   \* group->results: [box, prop]

input == <<cells, overlap>>
sorting == <<calls, low, high, key>>
vars == <<input, phase, next, boxes, rank, sorting, classes, results>>

Init ==
    /\ cells \in [1 .. Cells -> CellKind]
    /\ overlap \in SUBSET kSubset(2, 1 .. Cells)
    /\ phase = "process" /\ next = 1
    /\ boxes = <<>> /\ rank = <<>> /\ classes = {} /\ results = <<>>
    /\ calls = <<>> /\ low = 0 /\ high = 0 /\ key = [prob |-> 0, box |-> 0]

-----------------------------------------------------------------------------
(* process *)

\* The first of the most probable classes.
Best(cell, class) ==
    /\ \A c \in 1 .. Classes : cell.prob[c] <= cell.prob[class]
    /\ \A c \in 1 .. class - 1 : cell.prob[c] < cell.prob[class]

Accepts(cell, class) == cell.conf >= Threshold /\ cell.prob[class] > Threshold

\* What goes to objProbs.
Probability(cell, class) == cell.prob[class] * cell.conf

Accept(class) ==
    /\ boxes' = Append(boxes, [cell |-> next, class |-> class])
    /\ rank' = Append(rank, [prob |-> Probability(cells[next], class),
                             box |-> Len(boxes) + 1])

ProcessCell ==
    /\ phase = "process" /\ next <= Cells
    /\ \E class \in 1 .. Classes :
         /\ Best(cells[next], class)
         /\ IF Accepts(cells[next], class) THEN Accept(class)
                                           ELSE UNCHANGED <<boxes, rank>>
    /\ next' = next + 1
    /\ UNCHANGED <<input, phase, sorting, classes, results>>

\* No box: post_process returns with the empty group.
NoObject ==
    /\ phase = "process" /\ next > Cells /\ boxes = <<>>
    /\ phase' = "done"
    /\ UNCHANGED <<input, next, boxes, rank, sorting, classes, results>>

Processed ==
    /\ phase = "process" /\ next > Cells /\ boxes # <<>>
    /\ phase' = "call"
    /\ calls' = <<[left |-> 1, right |-> Len(boxes)]>>
    /\ classes' = {boxes[n].class : n \in DOMAIN boxes}
    /\ UNCHANGED <<input, next, boxes, rank, low, high, key, results>>

-----------------------------------------------------------------------------
(* quick_sort_indice_inverse: the key is taken out of the first entry, the  *)
(* hole moves between low and high until they meet, the key goes into it.   *)

Call == Head(calls)

ShortCall ==
    /\ phase = "call" /\ calls # <<>> /\ Call.left >= Call.right
    /\ calls' = Tail(calls)
    /\ UNCHANGED <<input, phase, next, boxes, rank, low, high, key, classes, results>>

StartCall ==
    /\ phase = "call" /\ calls # <<>> /\ Call.left < Call.right
    /\ phase' = "down"
    /\ low' = Call.left /\ high' = Call.right /\ key' = rank[Call.left]
    /\ UNCHANGED <<input, next, boxes, rank, calls, classes, results>>

\* high goes down to the first entry above the key, which fills the hole.
Down ==
    /\ phase = "down" /\ phase' = "up"
    /\ \E h \in low .. high :
         /\ \A k \in h + 1 .. high : rank[k].prob <= key.prob
         /\ h = low \/ rank[h].prob > key.prob
         /\ high' = h
         /\ rank' = [rank EXCEPT ![low] = rank[h]]
    /\ UNCHANGED <<input, next, boxes, calls, low, key, classes, results>>

\* low goes up to the first entry below the key.
Up ==
    /\ phase = "up"
    /\ \E l \in low .. high :
         /\ \A k \in low .. l - 1 : rank[k].prob >= key.prob
         /\ l = high \/ rank[l].prob < key.prob
         /\ low' = l
         /\ rank' = [rank EXCEPT ![high] = rank[l]]
         /\ phase' = IF l < high THEN "down" ELSE "place"
    /\ UNCHANGED <<input, next, boxes, calls, high, key, classes, results>>

\* Mutant: the key is not put into the hole.
Place_KeyLost ==
    /\ phase = "place" /\ phase' = "call"
    /\ calls' = <<[left |-> Call.left, right |-> low - 1],
                  [left |-> low + 1, right |-> Call.right]>> \o Tail(calls)
    /\ UNCHANGED <<input, next, boxes, rank, low, high, key, classes, results>>

\* The key goes into the hole, and either side of it is sorted next.
Place ==
    /\ phase = "place" /\ phase' = "call"
    /\ rank' = [rank EXCEPT ![low] = key]
    /\ calls' = <<[left |-> Call.left, right |-> low - 1],
                  [left |-> low + 1, right |-> Call.right]>> \o Tail(calls)
    /\ UNCHANGED <<input, next, boxes, low, high, key, classes, results>>

Sorted ==
    /\ phase = "call" /\ calls = <<>>
    /\ phase' = "nms" /\ next' = 1
    /\ UNCHANGED <<input, boxes, rank, sorting, classes, results>>

-----------------------------------------------------------------------------
(* nms *)

Overlaps(n, m) == {boxes[n].cell, boxes[m].cell} \in overlap

\* Mutant: only the next entry is compared.
Suppress_NextOnly(i) ==
    rank' = [j \in DOMAIN rank |->
               IF j = i + 1 /\ rank[j].box # 0 /\ Overlaps(rank[i].box, rank[j].box)
               THEN [rank[j] EXCEPT !.box = 0] ELSE rank[j]]

\* Mutant: overlaps are looked up by rank, as the classes are.
Suppress_ByRank(i) ==
    rank' = [j \in DOMAIN rank |->
               IF j > i /\ rank[j].box # 0 /\ Overlaps(i, j)
               THEN [rank[j] EXCEPT !.box = 0] ELSE rank[j]]

\* The inner loop: the box of rank i suppresses every later one it overlaps.
Suppress(i) ==
    rank' = [j \in DOMAIN rank |->
               IF j > i /\ rank[j].box # 0 /\ Overlaps(rank[i].box, rank[j].box)
               THEN [rank[j] EXCEPT !.box = 0] ELSE rank[j]]

\* nms goes through the classes in ascending order.
Class == CHOOSE c \in classes : \A d \in classes : c <= d

\* Both class filters of nms index classIds with the rank i, not with the box
\* order[i].
NmsEntry ==
    /\ phase = "nms" /\ next <= Len(rank)
    /\ IF rank[next].box # 0 /\ boxes[next].class = Class THEN Suppress(next)
                                                          ELSE UNCHANGED rank
    /\ next' = next + 1
    /\ UNCHANGED <<input, phase, boxes, sorting, classes, results>>

NmsClass ==
    /\ phase = "nms" /\ next > Len(rank)
    /\ classes' = classes \ {Class}
    /\ next' = 1
    /\ phase' = IF classes' = {} THEN "collect" ELSE "nms"
    /\ UNCHANGED <<input, boxes, rank, sorting, results>>

-----------------------------------------------------------------------------
\* An entry that is left is reported, with the probability of its rank.
CollectEntry ==
    /\ phase = "collect" /\ next <= Len(rank)
    /\ results' = IF rank[next].box = 0 \/ Len(results) >= MaxResults THEN results
                  ELSE Append(results, [box |-> rank[next].box, prop |-> rank[next].prob])
    /\ next' = next + 1
    /\ UNCHANGED <<input, phase, boxes, rank, sorting, classes>>

Collected ==
    /\ phase = "collect" /\ next > Len(rank)
    /\ phase' = "done"
    /\ UNCHANGED <<input, next, boxes, rank, sorting, classes, results>>

Next ==
    \/ ProcessCell \/ NoObject \/ Processed
    \/ ShortCall \/ StartCall \/ Down \/ Up \/ Place \/ Sorted
    \/ NmsEntry \/ NmsClass \/ CollectEntry \/ Collected

Spec == Init /\ [][Next]_vars

-----------------------------------------------------------------------------
(* Safety *)

\* The probability process has computed for the cell of box n.
Score(n) == Probability(cells[boxes[n].cell], boxes[n].class)

\* Probabilities are looked up by rank and boxes by index: each detection
\* still carries the probability of its own cell, none is reported twice, and
\* the best come first, so that the cap cuts off the worst.
ResultsRanked ==
    \A k \in DOMAIN results :
      /\ results[k].prop = Score(results[k].box)
      /\ \A l \in 1 .. k - 1 : /\ results[l].prop >= results[k].prop
                               /\ results[l].box # results[k].box

\* When all candidates are of one class and the cap is not reached, the
\* detections are those of greedy suppression: they do not overlap, and what
\* is missing overlaps a reported one at least as probable.  (With several
\* classes the class filter by rank makes neither half hold per class.)
OneClassGreedy ==
    (/\ phase = "done"
     /\ Len(results) < MaxResults
     /\ \A n, m \in DOMAIN boxes : boxes[n].class = boxes[m].class) =>
    \A n \in DOMAIN boxes :
      (\E k \in DOMAIN results : results[k].box = n) <=>
      ~ \E k \in DOMAIN results :
          /\ results[k].box # n
          /\ results[k].prop >= Score(n)
          /\ Overlaps(results[k].box, n)

\* The class filter of nms, which looks up classes by rank, lets boxes of
\* different classes suppress each other, and a box that is itself suppressed
\* later.  Still no candidate is missing without a reason: it is reported, or
\* overlaps another that is at least as probable, or finds the results full of
\* better ones; and the most probable one is reported, and first.  Over one
\* class suppression is greedy besides.
SuppressionExplained ==
    /\ OneClassGreedy
    /\ phase = "done" => \A n \in DOMAIN boxes :
         /\ \/ \E k \in DOMAIN results : results[k].box = n
            \/ \E m \in DOMAIN boxes : /\ m # n /\ Score(m) >= Score(n)
                                      /\ Overlaps(m, n)
            \/ /\ Len(results) = MaxResults
               /\ \A k \in DOMAIN results : results[k].prop >= Score(n)
         /\ MaxResults > 0 => results # <<>> /\ results[1].prop >= Score(n)
===============================================================================
