--------------------------- MODULE PanelEditsProofs ---------------------------
(***************************************************************************)
(* Theorems about PanelEdits for every value of its constants.               *)
(*                                                                         *)
(* Undo.  What a history adds up to is a fold over its actions, of any       *)
(* length.  Past says that there are lists, one between every two actions of *)
(* the undo stack, of which each action leads from one to the next (Linked), *)
(* and Future says the same of the redo stack.  An undo moves the last list  *)
(* of the past to the future, a redo back.  PastReplayed shows that the last *)
(* list is the fold: a least action at which the two differ (LeastNumber)    *)
(* cannot be, as Linked is what the fold does.                               *)
(*                                                                         *)
(* Page and gateway.  A message on its way says how one list became another  *)
(* (Reports).  The last message that writes a style writes what the tracker  *)
(* lists now, and without one the page has it (Follows); the same of what    *)
(* the gateway is told of a change (Tells).  What happens to a last message  *)
(* when one is sent or taken is in SentDecides, SentKeeps and TakenDecides.  *)
(*                                                                         *)
(* The agent.  Buckets keep what the page came with, and every other value   *)
(* is that (AsItCame); RestoreAllFacts follows the fold over the buckets.    *)
(***************************************************************************)
EXTENDS PanelEdits, SequenceTheorems, WellFoundedInduction, Integers, TLAPS

-------------------------------------------------------------------------------
(* Numbers                                                                 *)

\* The numbers are well-founded by their order.
LEMMA NatIsWellFounded == IsWellFoundedOn({xy \in Nat \X Nat : xy[1] < xy[2]}, Nat)
<1>1. OpToRel(<, Nat) = {xy \in Nat \X Nat : xy[1] < xy[2]}
    BY DEF OpToRel
<1> QED BY <1>1, NatLessThanWellFounded

\* A set of numbers that is not empty has a least one.
LEMMA LeastNumber ==
    ASSUME NEW S \in SUBSET Nat, S # {}
    PROVE  \E x \in S : \A y \in S : x <= y
<1> DEFINE R == {xy \in Nat \X Nat : xy[1] < xy[2]}
<1>1. PICK x \in S : \A y \in S : ~(<<y, x>> \in R)
  <2> HIDE DEF R
  <2>1. IsWellFoundedOn(R, Nat)
      BY NatIsWellFounded DEF R
  <2> QED BY <2>1, WFMin
<1>2. ASSUME NEW y \in S PROVE x <= y
  <2>1. y \in Nat /\ x \in Nat
      OBVIOUS
  <2>2. ~(y < x)
      BY <1>1, <2>1
  <2> QED BY <2>1, <2>2
<1> QED BY <1>2

\* A set of numbers up to a bound that is not empty has a greatest one.
LEMMA GreatestNumber ==
    ASSUME NEW n \in Nat, NEW S \in SUBSET (0 .. n), S # {}
    PROVE  \E x \in S : \A y \in S : y <= x
<1> DEFINE T == {k \in Nat : n - k \in S}
<1>1. PICK y \in S : TRUE
    OBVIOUS
<1>2. n - y \in T
    OBVIOUS
<1>3. PICK k \in T : \A j \in T : k <= j
    BY <1>2, LeastNumber
<1>4. n - k \in S
    BY <1>3
<1>5. ASSUME NEW x \in S PROVE x <= n - k
  <2>1. n - x \in T
      OBVIOUS
  <2>2. k <= n - x
      BY <1>3, <2>1
  <2> QED BY <2>2, <1>3
<1> QED BY <1>4, <1>5

\* Induction: what holds of 0 and goes over to the next number holds of all.
LEMMA AllNumbers ==
    ASSUME NEW S, 0 \in S, \A n \in Nat : n \in S => n + 1 \in S
    PROVE  Nat \subseteq S
<1> DEFINE T == Nat \ S
<1>1. SUFFICES ASSUME T # {} PROVE FALSE
    OBVIOUS
<1>2. PICK x \in T : \A y \in T : x <= y
    BY <1>1, LeastNumber
<1>3. x \in Nat \ {0}
    BY <1>2
<1>4. x - 1 \in Nat /\ x - 1 < x /\ x = (x - 1) + 1
    BY <1>3
<1>5. x - 1 \in S
    BY <1>2, <1>4
<1>6. x \in S
    BY <1>4, <1>5
<1> QED BY <1>6

-------------------------------------------------------------------------------
(* Sequences                                                               *)

\* What a sequence is after one more element.
LEMMA AppendFacts ==
    ASSUME NEW S, NEW s \in Seq(S), NEW e \in S
    PROVE  /\ Append(s, e) \in Seq(S)
           /\ Len(s) \in Nat
           /\ DOMAIN s = 1 .. Len(s)
           /\ Len(Append(s, e)) = Len(s) + 1
           /\ DOMAIN Append(s, e) = 1 .. (Len(s) + 1)
           /\ \A i \in 1 .. Len(s) : Append(s, e)[i] = s[i]
           /\ Append(s, e)[Len(s) + 1] = e
OBVIOUS

\* What a sequence is without its last element, and that element.
LEMMA FrontFacts ==
    ASSUME NEW S, NEW s \in Seq(S), s # <<>>
    PROVE  /\ Len(s) \in Nat \ {0}
           /\ Front(s) \in Seq(S)
           /\ Len(Front(s)) = Len(s) - 1
           /\ \A i \in 1 .. (Len(s) - 1) : Front(s)[i] = s[i]
           /\ Last(s) \in S
           /\ Last(s) = s[Len(s)]
<1>1. Len(s) \in Nat \ {0} /\ DOMAIN s = 1 .. Len(s)
    BY EmptySeq, LenProperties
<1>2. \A i \in 1 .. Len(s) : s[i] \in S
    BY <1>1, ElementOfSeq
<1>3. /\ SubSeq(s, 1, Len(s) - 1) \in Seq(S)
      /\ Len(SubSeq(s, 1, Len(s) - 1)) = Len(s) - 1
      /\ \A i \in 1 .. (Len(s) - 1) : SubSeq(s, 1, Len(s) - 1)[i] = s[i]
    BY <1>1, <1>2, SubSeqProperties
<1> QED BY <1>1, <1>2, <1>3 DEF Front, Last

\* What is left of a sequence when its first element has been taken.
LEMMA TailFacts ==
    ASSUME NEW S, NEW s \in Seq(S), s # <<>>
    PROVE  /\ Len(s) \in Nat \ {0}
           /\ Head(s) = s[1]
           /\ Head(s) \in S
           /\ Tail(s) \in Seq(S)
           /\ Len(Tail(s)) = Len(s) - 1
           /\ \A i \in 1 .. (Len(s) - 1) : Tail(s)[i] = s[i + 1]
<1>1. Len(s) \in Nat \ {0} /\ Head(s) = s[1]
    OBVIOUS
<1>2. Tail(s) \in Seq(S) /\ Len(Tail(s)) = Len(s) - 1
    OBVIOUS
<1>3. \A i \in 1 .. (Len(s) - 1) : Tail(s)[i] = s[i + 1]
    OBVIOUS
<1> QED BY <1>1, <1>2, <1>3

\* A function on the places of a sequence is a sequence of the same length.
LEMMA PlacesFacts ==
    ASSUME NEW S, NEW T, NEW s \in Seq(S), NEW t \in [DOMAIN s -> T]
    PROVE  /\ t \in Seq(T)
           /\ DOMAIN t = DOMAIN s
           /\ Len(t) = Len(s)
<1>1. DOMAIN s = 1 .. Len(s) /\ Len(s) \in Nat
    OBVIOUS
<1> QED BY <1>1

\* What a sequence is without the element at a place.
LEMMA RemoveAtFacts ==
    ASSUME NEW S, NEW s \in Seq(S), NEW p \in DOMAIN s
    PROVE  /\ Len(s) \in Nat \ {0}
           /\ RemoveAt(s, p) \in Seq(S)
           /\ Len(RemoveAt(s, p)) = Len(s) - 1
           /\ \A i \in 1 .. (Len(s) - 1) :
                 RemoveAt(s, p)[i] = IF i < p THEN s[i] ELSE s[i + 1]
<1> DEFINE left == SubSeq(s, 1, p - 1)
           right == SubSeq(s, p + 1, Len(s))
<1>1. DOMAIN s = 1 .. Len(s) /\ Len(s) \in Nat /\ p \in Nat /\ p >= 1 /\ p <= Len(s)
    BY LenProperties
<1>2. \A i \in 1 .. Len(s) : s[i] \in S
    BY <1>1, ElementOfSeq
<1>3. /\ left \in Seq(S) /\ Len(left) = p - 1
      /\ \A i \in 1 .. (p - 1) : left[i] = s[i]
    BY <1>1, <1>2, SubSeqProperties
<1>4. /\ right \in Seq(S) /\ Len(right) = Len(s) - p
      /\ \A i \in 1 .. (Len(s) - p) : right[i] = s[p + i]
    BY <1>1, <1>2, SubSeqProperties
<1> HIDE DEF left, right
<1>5. /\ left \o right \in Seq(S)
      /\ Len(left \o right) = Len(s) - 1
      /\ \A i \in 1 .. (Len(s) - 1) :
            (left \o right)[i] = IF i <= p - 1 THEN left[i] ELSE right[i - (p - 1)]
  <2>1. /\ left \o right \in Seq(S)
        /\ Len(left \o right) = Len(left) + Len(right)
        /\ \A i \in 1 .. Len(left) + Len(right) : (left \o right)[i] =
              IF i <= Len(left) THEN left[i] ELSE right[i - Len(left)]
      BY <1>3, <1>4, ConcatProperties
  <2>2. Len(left) = p - 1 /\ Len(left) + Len(right) = Len(s) - 1
      BY <1>1, <1>3, <1>4
  <2> QED BY <2>1, <2>2
<1>6. RemoveAt(s, p) = left \o right
    BY DEF RemoveAt, left, right
<1>7. ASSUME NEW i \in 1 .. (Len(s) - 1)
      PROVE  RemoveAt(s, p)[i] = IF i < p THEN s[i] ELSE s[i + 1]
  <2>1. CASE i < p
    <3>1. i <= p - 1 /\ i \in 1 .. (p - 1)
        BY <1>1, <2>1
    <3> QED BY <3>1, <1>3, <1>5, <1>6, <2>1
  <2>2. CASE ~(i < p)
    <3>1. ~(i <= p - 1) /\ i - (p - 1) \in 1 .. (Len(s) - p) /\ p + (i - (p - 1)) = i + 1
        BY <1>1, <2>2
    <3>2. (left \o right)[i] = right[i - (p - 1)]
        BY <3>1, <1>5
    <3>3. right[i - (p - 1)] = s[p + (i - (p - 1))]
        BY <3>1, <1>4
    <3>4. (left \o right)[i] = s[i + 1]
        BY <3>1, <3>2, <3>3
    <3> QED BY <3>4, <1>6, <2>2
  <2> QED BY <2>1, <2>2
<1>8. Len(s) \in Nat \ {0}
    BY <1>1
<1>9. RemoveAt(s, p) \in Seq(S) /\ Len(RemoveAt(s, p)) = Len(s) - 1
    BY <1>5, <1>6
<1> QED BY <1>7, <1>8, <1>9

-------------------------------------------------------------------------------
(* The lists of the tracker                                                *)

\* The panel knows no old value when it tracks a change (sidepanel.ts), and what the
\* worker answers is what it was told.
Changes(T) ==
    [id : Nat, target : T, old : {Empty}, new : Values, status : {"pending", "reverted"}]

Actions(T) ==
    [type : {"apply", "revert"}, change : Changes(T)]
        \cup [type : {"clear"}, before : Seq(Changes(T))]

\* Ids differ and are not above n; a target has one pending change at most.
Lists(T, n) ==
    {l \in Seq(Changes(T)) :
        /\ \A i \in DOMAIN l : l[i].id <= n
        /\ \A i, j \in DOMAIN l : l[i].id = l[j].id => i = j
        /\ \A target \in T : \A i, j \in PendingAt(l, target) : i = j}

Reverted(change) == [change EXCEPT !.status = "reverted"]

\* A change of its own of the target, not met by a pending one.
LinkedApply(b, a, c) ==
    /\ a.type = "apply"
    /\ a.change.status = "pending"
    /\ \A i \in DOMAIN b : b[i].id # a.change.id
    /\ PendingAt(b, a.change.target) = {}
    /\ c = Append(b, a.change)

LinkedRevert(b, a, c) ==
    /\ a.type = "revert"
    /\ a.change.status = "pending"
    /\ \E i \in DOMAIN b : b[i] = a.change /\ c = [b EXCEPT ![i] = Reverted(a.change)]

LinkedClear(b, a, c) ==
    /\ a.type = "clear"
    /\ a.before = b
    /\ c = AllReverted(b)

\* Action a leads from list b to list c, and back when it is undone.
Linked(b, a, c) == LinkedApply(b, a, c) \/ LinkedRevert(b, a, c) \/ LinkedClear(b, a, c)

-------------------------------------------------------------------------------
(* Types of the tracker's operators                                        *)

\* A change that is reverted is a change.
LEMMA RevertedType ==
    ASSUME NEW T, NEW x \in Changes(T)
    PROVE  /\ Reverted(x) \in Changes(T)
           /\ Reverted(x).id = x.id /\ Reverted(x).target = x.target
           /\ Reverted(x).new = x.new /\ Reverted(x).status = "reverted"
BY DEF Changes, Reverted

\* A list with a change put in its place, or at the end.
LEMMA UpsertType ==
    ASSUME NEW T, NEW l \in Seq(Changes(T)), NEW x \in Changes(T)
    PROVE  Upsert(l, x) \in Seq(Changes(T))
<1>1. l \in [1 .. Len(l) -> Changes(T)] /\ DOMAIN l = 1 .. Len(l) /\ Len(l) \in Nat
    BY LenProperties
<1>2. [i \in DOMAIN l |-> IF l[i].id = x.id THEN x ELSE l[i]] \in [DOMAIN l -> Changes(T)]
    BY <1>1
<1>3. [i \in DOMAIN l |-> IF l[i].id = x.id THEN x ELSE l[i]] \in Seq(Changes(T))
    BY <1>2, PlacesFacts
<1>4. Append(l, x) \in Seq(Changes(T))
    BY AppendFacts
<1> QED BY <1>3, <1>4 DEF Upsert

\* A list without a change.
LEMMA WithoutType ==
    ASSUME NEW T, NEW l \in Seq(Changes(T)), NEW id
    PROVE  Without(l, id) \in Seq(Changes(T))
<1>1. CASE \E i \in DOMAIN l : l[i].id = id
  <2>1. (CHOOSE i \in DOMAIN l : l[i].id = id) \in DOMAIN l
      BY <1>1
  <2>2. RemoveAt(l, CHOOSE i \in DOMAIN l : l[i].id = id) \in Seq(Changes(T))
      BY <2>1, RemoveAtFacts
  <2> QED BY <1>1, <2>2 DEF Without
<1>2. CASE ~(\E i \in DOMAIN l : l[i].id = id)
    BY <1>2 DEF Without
<1> QED BY <1>1, <1>2

\* A list whose pending changes are reverted, place by place.
LEMMA AllRevertedFacts ==
    ASSUME NEW T, NEW l \in Seq(Changes(T))
    PROVE  /\ AllReverted(l) \in Seq(Changes(T))
           /\ DOMAIN AllReverted(l) = DOMAIN l
           /\ Len(AllReverted(l)) = Len(l)
           /\ \A i \in DOMAIN l :
                 /\ l[i] \in Changes(T)
                 /\ l[i].status = "pending" => AllReverted(l)[i] = Reverted(l[i])
                 /\ l[i].status # "pending" => AllReverted(l)[i] = l[i]
                 /\ AllReverted(l)[i].id = l[i].id
                 /\ AllReverted(l)[i].target = l[i].target
                 /\ AllReverted(l)[i].new = l[i].new
                 /\ AllReverted(l)[i].status = "reverted"
<1>1. l \in [1 .. Len(l) -> Changes(T)] /\ DOMAIN l = 1 .. Len(l) /\ Len(l) \in Nat
    BY LenProperties
<1>2. ASSUME NEW i \in DOMAIN l
      PROVE  /\ l[i] \in Changes(T)
             /\ AllReverted(l)[i] = IF l[i].status = "pending" THEN Reverted(l[i]) ELSE l[i]
    BY <1>1 DEF AllReverted, Reverted
<1>3. \A i \in DOMAIN l : AllReverted(l)[i] \in Changes(T)
    BY <1>2, RevertedType
<1>4. AllReverted(l) \in [DOMAIN l -> Changes(T)]
    BY <1>3 DEF AllReverted
<1>5. /\ AllReverted(l) \in Seq(Changes(T))
      /\ DOMAIN AllReverted(l) = DOMAIN l
      /\ Len(AllReverted(l)) = Len(l)
    BY <1>4, PlacesFacts
<1>6. ASSUME NEW i \in DOMAIN l
      PROVE  /\ l[i] \in Changes(T)
             /\ l[i].status = "pending" => AllReverted(l)[i] = Reverted(l[i])
             /\ l[i].status # "pending" => AllReverted(l)[i] = l[i]
             /\ AllReverted(l)[i].id = l[i].id
             /\ AllReverted(l)[i].target = l[i].target
             /\ AllReverted(l)[i].new = l[i].new
             /\ AllReverted(l)[i].status = "reverted"
  <2>1. l[i] \in Changes(T)
      BY <1>2
  <2>2. CASE l[i].status = "pending"
      BY <1>2, <2>1, <2>2, RevertedType
  <2>3. CASE l[i].status # "pending"
    <3>1. l[i].status = "reverted"
        BY <2>1, <2>3 DEF Changes
    <3> QED BY <1>2, <2>1, <2>3, <3>1
  <2> QED BY <2>2, <2>3
<1> QED BY <1>5, <1>6

-------------------------------------------------------------------------------
(* Undo and redo of one action                                             *)

\* The tracker takes a list entry of the same id away, or puts the change at its place.
LEMMA UpsertInPlace ==
    ASSUME NEW T, NEW n, NEW l \in Lists(T, n)
    PROVE  \A p \in DOMAIN l : \A x \in Changes(T) :
              l[p].id = x.id => Upsert(l, x) = [l EXCEPT ![p] = x]
<1> SUFFICES ASSUME NEW p \in DOMAIN l, NEW x \in Changes(T), l[p].id = x.id
             PROVE  Upsert(l, x) = [l EXCEPT ![p] = x]
    OBVIOUS
<1>1. l \in [1 .. Len(l) -> Changes(T)] /\ DOMAIN l = 1 .. Len(l)
    BY LenProperties DEF Lists
<1>2. \A i \in DOMAIN l : l[i].id = x.id <=> i = p
    BY DEF Lists
<1>3. [i \in DOMAIN l |-> IF l[i].id = x.id THEN x ELSE l[i]] = [l EXCEPT ![p] = x]
    BY <1>1, <1>2
<1> QED BY <1>3 DEF Upsert

\* A change whose id is new is taken away again.
LEMMA WithoutNewest ==
    ASSUME NEW T, NEW l \in Seq(Changes(T)), NEW x \in Changes(T),
           \A i \in DOMAIN l : l[i].id # x.id
    PROVE  Without(Append(l, x), x.id) = l
<1> DEFINE c == Append(l, x)
           m == Len(l) + 1
<1>1. /\ c \in Seq(Changes(T)) /\ Len(l) \in Nat /\ DOMAIN l = 1 .. Len(l)
      /\ Len(c) = m /\ DOMAIN c = 1 .. m
      /\ \A i \in 1 .. Len(l) : c[i] = l[i]
      /\ c[m] = x
    BY AppendFacts
<1> HIDE DEF c
<1>2. m \in DOMAIN c
    BY <1>1
<1>3. ASSUME NEW i \in DOMAIN c, c[i].id = x.id PROVE i = m
    BY <1>1, <1>3
<1>4. (CHOOSE i \in DOMAIN c : c[i].id = x.id) = m
    BY <1>1, <1>2, <1>3
<1>5. Without(c, x.id) = RemoveAt(c, m)
    BY <1>1, <1>2, <1>4 DEF Without
<1>6. /\ RemoveAt(c, m) \in Seq(Changes(T))
      /\ Len(RemoveAt(c, m)) = Len(l)
      /\ \A i \in 1 .. Len(l) : RemoveAt(c, m)[i] = l[i]
  <2>1. /\ RemoveAt(c, m) \in Seq(Changes(T))
        /\ Len(RemoveAt(c, m)) = Len(c) - 1
        /\ \A i \in 1 .. (Len(c) - 1) :
              RemoveAt(c, m)[i] = IF i < m THEN c[i] ELSE c[i + 1]
      BY <1>1, <1>2, RemoveAtFacts
  <2>2. Len(c) - 1 = Len(l)
      BY <1>1
  <2>3. ASSUME NEW i \in 1 .. Len(l) PROVE RemoveAt(c, m)[i] = l[i]
    <3>1. i < m
        BY <1>1
    <3> QED BY <1>1, <2>1, <2>2, <3>1
  <2> QED BY <2>1, <2>2, <2>3
<1>7. RemoveAt(c, m) = l
    BY <1>6, SeqEqual
<1> QED BY <1>5, <1>7 DEF c

\* Undone takes an action back, Redone and Meaning take it again.
LEMMA LinkedSteps ==
    ASSUME NEW T, NEW n, NEW b \in Lists(T, n), NEW c \in Lists(T, n), NEW a \in Actions(T),
           Linked(b, a, c)
    PROVE  Undone(c, a) = b /\ Redone(b, a) = c /\ Meaning(b, a) = c
<1>1. b \in Seq(Changes(T)) /\ c \in Seq(Changes(T))
    BY DEF Lists
<1>2. b \in [DOMAIN b -> Changes(T)]
    BY <1>1, LenProperties
<1>3. CASE LinkedApply(b, a, c)
  <2>1. a.type = "apply" /\ a.change \in Changes(T) /\ c = Append(b, a.change)
      BY <1>3 DEF LinkedApply, Actions
  <2>2. \A i \in DOMAIN b : b[i].id # a.change.id
      BY <1>3 DEF LinkedApply
  <2>3. Without(c, a.change.id) = b
      BY <1>1, <2>1, <2>2, WithoutNewest
  <2>4. Upsert(b, a.change) = c
      BY <2>1, <2>2 DEF Upsert
  <2> QED BY <2>1, <2>3, <2>4 DEF Undone, Redone, Meaning
<1>4. CASE LinkedRevert(b, a, c)
  <2>1. a.type = "revert" /\ a.change \in Changes(T)
      BY <1>4 DEF LinkedRevert, Actions
  <2>2. PICK p \in DOMAIN b : b[p] = a.change /\ c = [b EXCEPT ![p] = Reverted(a.change)]
      BY <1>4 DEF LinkedRevert
  <2>3. Reverted(a.change) \in Changes(T) /\ Reverted(a.change).id = a.change.id
      BY <2>1, RevertedType
  <2>4. DOMAIN c = DOMAIN b /\ c[p] = Reverted(a.change) /\ c[p].id = a.change.id
      BY <1>2, <2>2, <2>3
  <2>5. Upsert(b, Reverted(a.change)) = c
    <3>1. b[p].id = Reverted(a.change).id
        BY <2>2, <2>3
    <3>2. Upsert(b, Reverted(a.change)) = [b EXCEPT ![p] = Reverted(a.change)]
        BY <2>3, <3>1, UpsertInPlace
    <3> QED BY <2>2, <3>2
  <2>6. Upsert(c, a.change) = b
    <3>1. p \in DOMAIN c /\ c[p].id = a.change.id /\ a.change \in Changes(T)
        BY <2>1, <2>4
    <3>2. Upsert(c, a.change) = [c EXCEPT ![p] = a.change]
        BY <3>1, UpsertInPlace
    <3> QED BY <1>2, <2>2, <3>2
  <2> QED BY <2>1, <2>2, <2>4, <2>5, <2>6 DEF Undone, Redone, Meaning, Reverted
<1>5. CASE LinkedClear(b, a, c)
  <2>1. a.type = "clear" /\ a.before = b /\ c = AllReverted(b)
      BY <1>5 DEF LinkedClear
  <2> QED BY <2>1 DEF Undone, Redone, Meaning
<1> QED BY <1>3, <1>4, <1>5 DEF Linked

-------------------------------------------------------------------------------
(* Undo and redo of many actions                                           *)

\* The actions of the undo stack lead from the empty list to list c, through other lists.
Past(undo, c, T, n) ==
    \E list \in [0 .. Len(undo) -> Lists(T, n)] :
        /\ list[0] = <<>>
        /\ list[Len(undo)] = c
        /\ \A k \in 1 .. Len(undo) : Linked(list[k - 1], undo[k], list[k])

\* The actions of the redo stack, the last one first, lead on from list c.
Future(redo, c, T, n) ==
    \E list \in [0 .. Len(redo) -> Lists(T, n)] :
        /\ list[Len(redo)] = c
        /\ \A k \in 1 .. Len(redo) : Linked(list[k], redo[k], list[k - 1])

\* Before the first action the list is empty, and nothing is there to be redone.
LEMMA NothingTracked ==
    ASSUME NEW T, NEW n \in Nat
    PROVE  /\ <<>> \in Lists(T, n)
           /\ Past(<<>>, <<>>, T, n)
           /\ \A c \in Lists(T, n) : Future(<<>>, c, T, n)
<1>1. <<>> \in Seq(Changes(T)) /\ DOMAIN <<>> = {} /\ Len(<<>>) = 0
    OBVIOUS
<1>2. <<>> \in Lists(T, n)
    BY <1>1 DEF Lists, PendingAt
<1>3. Past(<<>>, <<>>, T, n)
  <2> DEFINE list == [k \in 0 .. 0 |-> <<>>]
  <2>1. list \in [0 .. Len(<<>>) -> Lists(T, n)] /\ list[0] = <<>>
      BY <1>1, <1>2
  <2> HIDE DEF list
  <2> QED BY <1>1, <2>1 DEF Past
<1>4. ASSUME NEW c \in Lists(T, n) PROVE Future(<<>>, c, T, n)
  <2> DEFINE list == [k \in 0 .. 0 |-> c]
  <2>1. list \in [0 .. Len(<<>>) -> Lists(T, n)] /\ list[0] = c
      BY <1>1
  <2> HIDE DEF list
  <2> QED BY <1>1, <2>1 DEF Future
<1> QED BY <1>2, <1>3, <1>4

\* A list stays one when the bound of its ids is raised.
LEMMA MoreIds ==
    ASSUME NEW T, NEW n \in Nat, NEW m \in Nat, n <= m
    PROVE  /\ Lists(T, n) \subseteq Lists(T, m)
           /\ \A undo, c : Past(undo, c, T, n) => Past(undo, c, T, m)
<1>1. ASSUME NEW l \in Lists(T, n) PROVE l \in Lists(T, m)
  <2>1. l \in Seq(Changes(T)) /\ \A i \in DOMAIN l : l[i].id \in Nat
    <3>1. l \in Seq(Changes(T))
        BY DEF Lists
    <3>2. l \in [DOMAIN l -> Changes(T)]
        BY <3>1, LenProperties
    <3> QED BY <3>1, <3>2 DEF Changes
  <2>2. \A i \in DOMAIN l : l[i].id <= m
      BY <2>1 DEF Lists
  <2> QED BY <2>2 DEF Lists
<1>2. ASSUME NEW undo, NEW c, Past(undo, c, T, n) PROVE Past(undo, c, T, m)
  <2>1. PICK list \in [0 .. Len(undo) -> Lists(T, n)] :
            /\ list[0] = <<>>
            /\ list[Len(undo)] = c
            /\ \A k \in 1 .. Len(undo) : Linked(list[k - 1], undo[k], list[k])
      BY <1>2 DEF Past
  <2>2. list \in [0 .. Len(undo) -> Lists(T, m)]
      BY <1>1
  <2> QED BY <2>1, <2>2 DEF Past
<1> QED BY <1>1, <1>2

\* An action is tracked.
LEMMA PastGrows ==
    ASSUME NEW T, NEW n, NEW undo \in Seq(Actions(T)), NEW a \in Actions(T),
           NEW b, NEW c \in Lists(T, n), Past(undo, b, T, n), Linked(b, a, c)
    PROVE  Past(Append(undo, a), c, T, n)
<1>1. PICK list \in [0 .. Len(undo) -> Lists(T, n)] :
          /\ list[0] = <<>>
          /\ list[Len(undo)] = b
          /\ \A k \in 1 .. Len(undo) : Linked(list[k - 1], undo[k], list[k])
    BY DEF Past
<1> DEFINE m == Len(undo) + 1
           more == [k \in 0 .. m |-> IF k = m THEN c ELSE list[k]]
<1>2. /\ Len(undo) \in Nat /\ Len(Append(undo, a)) = m
      /\ \A i \in 1 .. Len(undo) : Append(undo, a)[i] = undo[i]
      /\ Append(undo, a)[m] = a
    BY AppendFacts
<1>3. more \in [0 .. m -> Lists(T, n)]
  <2>1. ASSUME NEW k \in 0 .. m, k # m PROVE list[k] \in Lists(T, n)
    <3>1. k \in 0 .. Len(undo)
        BY <1>2, <2>1
    <3> QED BY <3>1
  <2> QED BY <2>1
<1>4. more[0] = <<>> /\ more[m] = c
    BY <1>1, <1>2
<1>5. ASSUME NEW k \in 1 .. m PROVE Linked(more[k - 1], Append(undo, a)[k], more[k])
  <2>1. CASE k = m
    <3>1. more[k - 1] = b /\ more[k] = c /\ Append(undo, a)[k] = a
        BY <1>1, <1>2, <2>1
    <3> HIDE DEF more
    <3> QED BY <3>1
  <2>2. CASE k # m
    <3>1. k \in 1 .. Len(undo) /\ k - 1 \in 0 .. m /\ k - 1 # m
        BY <1>2, <2>2
    <3>2. more[k - 1] = list[k - 1] /\ more[k] = list[k] /\ Append(undo, a)[k] = undo[k]
        BY <1>2, <2>2, <3>1
    <3> HIDE DEF more
    <3> QED BY <1>1, <3>1, <3>2
  <2> QED BY <2>1, <2>2
<1> HIDE DEF more
<1> QED BY <1>2, <1>3, <1>4, <1>5 DEF Past

\* The last action is taken back.
LEMMA PastShrinks ==
    ASSUME NEW T, NEW n, NEW undo \in Seq(Actions(T)), undo # <<>>,
           NEW c, Past(undo, c, T, n)
    PROVE  \E b \in Lists(T, n) : Past(Front(undo), b, T, n) /\ Linked(b, Last(undo), c)
<1>1. PICK list \in [0 .. Len(undo) -> Lists(T, n)] :
          /\ list[0] = <<>>
          /\ list[Len(undo)] = c
          /\ \A k \in 1 .. Len(undo) : Linked(list[k - 1], undo[k], list[k])
    BY DEF Past
<1> DEFINE m == Len(undo) - 1
           less == [k \in 0 .. m |-> list[k]]
<1>2. /\ Len(undo) \in Nat \ {0} /\ m \in Nat /\ Len(Front(undo)) = m
      /\ \A i \in 1 .. m : Front(undo)[i] = undo[i]
      /\ Last(undo) = undo[Len(undo)]
  <2>1. /\ Len(undo) \in Nat \ {0} /\ Len(Front(undo)) = Len(undo) - 1
        /\ \A i \in 1 .. (Len(undo) - 1) : Front(undo)[i] = undo[i]
        /\ Last(undo) = undo[Len(undo)]
      BY FrontFacts
  <2> QED BY <2>1
<1>3. less \in [0 .. m -> Lists(T, n)] /\ less[0] = <<>> /\ less[m] = list[m]
    BY <1>1, <1>2
<1>4. ASSUME NEW k \in 1 .. m PROVE Linked(less[k - 1], Front(undo)[k], less[k])
  <2>1. k \in 1 .. Len(undo) /\ k - 1 \in 0 .. m
      BY <1>2
  <2>2. less[k - 1] = list[k - 1] /\ less[k] = list[k] /\ Front(undo)[k] = undo[k]
      BY <1>2, <2>1
  <2> HIDE DEF less
  <2> QED BY <1>1, <2>1, <2>2
<1> HIDE DEF less
<1>5. Past(Front(undo), list[m], T, n)
    BY <1>2, <1>3, <1>4 DEF Past
<1>6. list[m] \in Lists(T, n) /\ Linked(list[m], Last(undo), c)
  <2>1. Len(undo) \in 1 .. Len(undo) /\ m \in 0 .. Len(undo)
      BY <1>2
  <2> QED BY <1>1, <1>2, <2>1
<1> QED BY <1>5, <1>6

\* An action that is taken back can be taken again.
LEMMA FutureGrows ==
    ASSUME NEW T, NEW n, NEW redo \in Seq(Actions(T)), NEW a \in Actions(T),
           NEW b \in Lists(T, n), NEW c, Future(redo, c, T, n), Linked(b, a, c)
    PROVE  Future(Append(redo, a), b, T, n)
<1>1. PICK list \in [0 .. Len(redo) -> Lists(T, n)] :
          /\ list[Len(redo)] = c
          /\ \A k \in 1 .. Len(redo) : Linked(list[k], redo[k], list[k - 1])
    BY DEF Future
<1> DEFINE m == Len(redo) + 1
           more == [k \in 0 .. m |-> IF k = m THEN b ELSE list[k]]
<1>2. /\ Len(redo) \in Nat /\ Len(Append(redo, a)) = m
      /\ \A i \in 1 .. Len(redo) : Append(redo, a)[i] = redo[i]
      /\ Append(redo, a)[m] = a
    BY AppendFacts
<1>3. more \in [0 .. m -> Lists(T, n)]
  <2>1. ASSUME NEW k \in 0 .. m, k # m PROVE list[k] \in Lists(T, n)
    <3>1. k \in 0 .. Len(redo)
        BY <1>2, <2>1
    <3> QED BY <3>1
  <2> QED BY <2>1
<1>4. more[m] = b
    BY <1>1, <1>2
<1>5. ASSUME NEW k \in 1 .. m PROVE Linked(more[k], Append(redo, a)[k], more[k - 1])
  <2>1. CASE k = m
    <3>1. more[k - 1] = c /\ more[k] = b /\ Append(redo, a)[k] = a
        BY <1>1, <1>2, <2>1
    <3> HIDE DEF more
    <3> QED BY <3>1
  <2>2. CASE k # m
    <3>1. k \in 1 .. Len(redo) /\ k - 1 \in 0 .. m /\ k - 1 # m
        BY <1>2, <2>2
    <3>2. more[k - 1] = list[k - 1] /\ more[k] = list[k] /\ Append(redo, a)[k] = redo[k]
        BY <1>2, <2>2, <3>1
    <3> HIDE DEF more
    <3> QED BY <1>1, <3>1, <3>2
  <2> QED BY <2>1, <2>2
<1> HIDE DEF more
<1> QED BY <1>2, <1>3, <1>4, <1>5 DEF Future

\* The last action taken back is taken again.
LEMMA FutureShrinks ==
    ASSUME NEW T, NEW n, NEW redo \in Seq(Actions(T)), redo # <<>>,
           NEW b, Future(redo, b, T, n)
    PROVE  \E c \in Lists(T, n) : Future(Front(redo), c, T, n) /\ Linked(b, Last(redo), c)
<1>1. PICK list \in [0 .. Len(redo) -> Lists(T, n)] :
          /\ list[Len(redo)] = b
          /\ \A k \in 1 .. Len(redo) : Linked(list[k], redo[k], list[k - 1])
    BY DEF Future
<1> DEFINE m == Len(redo) - 1
           less == [k \in 0 .. m |-> list[k]]
<1>2. /\ Len(redo) \in Nat \ {0} /\ m \in Nat /\ Len(Front(redo)) = m
      /\ \A i \in 1 .. m : Front(redo)[i] = redo[i]
      /\ Last(redo) = redo[Len(redo)]
  <2>1. /\ Len(redo) \in Nat \ {0} /\ Len(Front(redo)) = Len(redo) - 1
        /\ \A i \in 1 .. (Len(redo) - 1) : Front(redo)[i] = redo[i]
        /\ Last(redo) = redo[Len(redo)]
      BY FrontFacts
  <2> QED BY <2>1
<1>3. less \in [0 .. m -> Lists(T, n)] /\ less[m] = list[m]
    BY <1>1, <1>2
<1>4. ASSUME NEW k \in 1 .. m PROVE Linked(less[k], Front(redo)[k], less[k - 1])
  <2>1. k \in 1 .. Len(redo) /\ k - 1 \in 0 .. m
      BY <1>2
  <2>2. less[k - 1] = list[k - 1] /\ less[k] = list[k] /\ Front(redo)[k] = redo[k]
      BY <1>2, <2>1
  <2> HIDE DEF less
  <2> QED BY <1>1, <2>1, <2>2
<1> HIDE DEF less
<1>5. Future(Front(redo), list[m], T, n)
    BY <1>2, <1>3, <1>4 DEF Future
<1>6. list[m] \in Lists(T, n) /\ Linked(b, Last(redo), list[m])
  <2>1. Len(redo) \in 1 .. Len(redo) /\ m \in 0 .. Len(redo)
      BY <1>2
  <2> QED BY <1>1, <1>2, <2>1
<1> QED BY <1>5, <1>6

\* The list that the undo stack leads to is what its actions add up to.
LEMMA PastReplayed ==
    ASSUME NEW T, NEW n, NEW undo \in Seq(Actions(T)), NEW c, Past(undo, c, T, n)
    PROVE  Replayed(undo) = c
<1>1. PICK list \in [0 .. Len(undo) -> Lists(T, n)] :
          /\ list[0] = <<>>
          /\ list[Len(undo)] = c
          /\ \A k \in 1 .. Len(undo) : Linked(list[k - 1], undo[k], list[k])
    BY DEF Past
<1> DEFINE m == Len(undo)
           Sums(f) == f = [k \in 0 .. m |->
                             IF k = 0 THEN <<>> ELSE Meaning(f[k - 1], undo[k])]
<1>2. m \in Nat /\ \A k \in 1 .. m : undo[k] \in Actions(T)
    BY LenProperties, ElementOfSeq
<1>3. \A k \in 1 .. m : Meaning(list[k - 1], undo[k]) = list[k]
  <2>1. ASSUME NEW k \in 1 .. m PROVE Meaning(list[k - 1], undo[k]) = list[k]
    <3>1. /\ list[k - 1] \in Lists(T, n) /\ list[k] \in Lists(T, n)
          /\ undo[k] \in Actions(T) /\ Linked(list[k - 1], undo[k], list[k])
        BY <1>1, <1>2
    <3> QED BY <3>1, LinkedSteps
  <2> QED BY <2>1
<1>4. Sums(list)
    BY <1>1, <1>2, <1>3
<1>5. ASSUME NEW f, Sums(f) PROVE f[m] = c
  <2> DEFINE S == {k \in Nat : k <= m => f[k] = list[k]}
  <2>1. \A k \in 0 .. m : f[k] = IF k = 0 THEN <<>> ELSE Meaning(f[k - 1], undo[k])
      BY <1>5
  <2>2. 0 \in S
      BY <1>1, <1>2, <2>1
  <2>3. ASSUME NEW k \in Nat, k \in S PROVE k + 1 \in S
    <3>1. SUFFICES ASSUME k + 1 <= m PROVE f[k + 1] = list[k + 1]
        OBVIOUS
    <3>2. k <= m /\ k + 1 \in 1 .. m /\ k + 1 \in 0 .. m /\ (k + 1) - 1 = k
        BY <1>2, <3>1
    <3>3. f[k] = list[k]
        BY <2>3, <3>2
    <3>4. f[k + 1] = Meaning(f[k], undo[k + 1])
        BY <2>1, <3>2
    <3>5. Meaning(list[k], undo[k + 1]) = list[k + 1]
        BY <1>3, <3>2
    <3> QED BY <3>3, <3>4, <3>5
  <2> HIDE DEF S
  <2>4. Nat \subseteq S
      BY <2>2, <2>3, AllNumbers
  <2>5. m \in S
      BY <1>2, <2>4
  <2> QED BY <1>1, <1>2, <2>5 DEF S
<1> DEFINE replayed == CHOOSE f : Sums(f)
<1>6. Sums(replayed)
  <2> HIDE DEF Sums
  <2> QED BY <1>4
<1>7. replayed[m] = c
  <2> HIDE DEF Sums, replayed
  <2> QED BY <1>5, <1>6
<1> QED BY <1>7 DEF Replayed

-------------------------------------------------------------------------------
(* Lists stay lists                                                        *)

\* The elements of a list are changes.
LEMMA ListElements ==
    ASSUME NEW T, NEW n, NEW l \in Lists(T, n)
    PROVE  /\ l \in Seq(Changes(T))
           /\ Len(l) \in Nat
           /\ DOMAIN l = 1 .. Len(l)
           /\ \A i \in DOMAIN l :
                 /\ l[i] \in Changes(T)
                 /\ l[i].id \in Nat
                 /\ l[i].id <= n
                 /\ l[i].target \in T
                 /\ l[i].status \in {"pending", "reverted"}
<1>1. l \in Seq(Changes(T))
    BY DEF Lists
<1>2. l \in [1 .. Len(l) -> Changes(T)] /\ Len(l) \in Nat /\ DOMAIN l = 1 .. Len(l)
    BY <1>1, LenProperties
<1>3. ASSUME NEW i \in DOMAIN l
      PROVE  /\ l[i] \in Changes(T) /\ l[i].id \in Nat /\ l[i].id <= n
             /\ l[i].target \in T /\ l[i].status \in {"pending", "reverted"}
  <2>1. l[i] \in Changes(T)
      BY <1>2
  <2> QED BY <2>1 DEF Lists, Changes
<1> QED BY <1>1, <1>2, <1>3

\* A change with a new id, whose target has no pending change, is listed at the end.
LEMMA ListWithNewest ==
    ASSUME NEW T, NEW n \in Nat, NEW m \in Nat, n <= m, NEW l \in Lists(T, n),
           NEW x \in Changes(T), x.id <= m,
           \A i \in DOMAIN l : l[i].id # x.id, PendingAt(l, x.target) = {}
    PROVE  Append(l, x) \in Lists(T, m)
<1> DEFINE c == Append(l, x)
           last == Len(l) + 1
<1>1. /\ c \in Seq(Changes(T)) /\ Len(l) \in Nat /\ DOMAIN l = 1 .. Len(l)
      /\ DOMAIN c = 1 .. last
      /\ \A i \in 1 .. Len(l) : c[i] = l[i]
      /\ c[last] = x
    BY AppendFacts, ListElements
<1> HIDE DEF c
<1>2. ASSUME NEW i \in DOMAIN c PROVE i = last \/ (i \in DOMAIN l /\ c[i] = l[i])
    BY <1>1
<1>3. ASSUME NEW i \in DOMAIN c PROVE c[i].id <= m
  <2>1. CASE i = last
      BY <1>1, <2>1
  <2>2. CASE i \in DOMAIN l /\ c[i] = l[i]
    <3>1. l[i].id \in Nat /\ l[i].id <= n
        BY <2>2, ListElements
    <3> QED BY <2>2, <3>1
  <2> QED BY <1>2, <2>1, <2>2
<1>4. ASSUME NEW i \in DOMAIN c, NEW j \in DOMAIN c, c[i].id = c[j].id PROVE i = j
    BY <1>1, <1>2, <1>4 DEF Lists
<1>5. ASSUME NEW target \in T, NEW i \in PendingAt(c, target), NEW j \in PendingAt(c, target)
      PROVE  i = j
  <2>1. /\ i \in DOMAIN c /\ c[i].target = target /\ c[i].status = "pending"
        /\ j \in DOMAIN c /\ c[j].target = target /\ c[j].status = "pending"
      BY DEF PendingAt
  <2>2. CASE i \in DOMAIN l /\ j \in DOMAIN l
    <3>1. i \in PendingAt(l, target) /\ j \in PendingAt(l, target)
        BY <1>1, <2>1, <2>2 DEF PendingAt
    <3> QED BY <3>1 DEF Lists
  <2>3. CASE i = last /\ j \in DOMAIN l
    <3>1. j \in PendingAt(l, x.target)
        BY <1>1, <2>1, <2>3 DEF PendingAt
    <3> QED BY <3>1
  <2>4. CASE j = last /\ i \in DOMAIN l
    <3>1. i \in PendingAt(l, x.target)
        BY <1>1, <2>1, <2>4 DEF PendingAt
    <3> QED BY <3>1
  <2> QED BY <1>2, <2>1, <2>2, <2>3, <2>4
<1>6. c \in Lists(T, m)
    BY <1>1, <1>3, <1>4, <1>5 DEF Lists
<1> QED BY <1>6 DEF c

\* Fewer changes are pending when one is reverted.
LEMMA ListWithReverted ==
    ASSUME NEW T, NEW n, NEW l \in Lists(T, n), NEW p \in DOMAIN l
    PROVE  /\ [l EXCEPT ![p] = Reverted(l[p])] \in Lists(T, n)
           /\ DOMAIN [l EXCEPT ![p] = Reverted(l[p])] = DOMAIN l
<1> DEFINE c == [l EXCEPT ![p] = Reverted(l[p])]
<1>1. /\ l \in Seq(Changes(T)) /\ DOMAIN l = 1 .. Len(l)
      /\ \A i \in DOMAIN l : l[i] \in Changes(T) /\ l[i].id <= n
    BY ListElements
<1>2. Reverted(l[p]) \in Changes(T) /\ Reverted(l[p]).id = l[p].id
      /\ Reverted(l[p]).status = "reverted"
    BY <1>1, RevertedType
<1>3. c \in Seq(Changes(T)) /\ DOMAIN c = DOMAIN l
  <2>1. p \in 1 .. Len(l)
      BY <1>1
  <2>2. c \in Seq(Changes(T))
      BY <1>1, <1>2, <2>1, ExceptSeq
  <2> QED BY <2>2
<1>4. c[p] = Reverted(l[p]) /\ \A i \in DOMAIN l : i # p => c[i] = l[i]
    BY <1>1
<1> HIDE DEF c
<1>5. \A i \in DOMAIN c : c[i].id = l[i].id
    BY <1>2, <1>3, <1>4
<1>6. \A i \in DOMAIN c : c[i].id <= n
    BY <1>1, <1>3, <1>5
<1>7. \A i, j \in DOMAIN c : c[i].id = c[j].id => i = j
    BY <1>3, <1>5 DEF Lists
<1>8. \A target \in T : PendingAt(c, target) \subseteq PendingAt(l, target)
    BY <1>2, <1>3, <1>4 DEF PendingAt
<1>9. \A target \in T : \A i, j \in PendingAt(c, target) : i = j
    BY <1>8 DEF Lists
<1>10. c \in Lists(T, n)
    BY <1>3, <1>6, <1>7, <1>9 DEF Lists
<1> QED BY <1>3, <1>10 DEF c

\* Nothing is pending when all changes are reverted.
LEMMA ListWithAllReverted ==
    ASSUME NEW T, NEW n, NEW l \in Lists(T, n)
    PROVE  AllReverted(l) \in Lists(T, n) /\ \A target : PendingAt(AllReverted(l), target) = {}
<1> DEFINE c == AllReverted(l)
<1>1. l \in Seq(Changes(T)) /\ \A i \in DOMAIN l : l[i].id <= n
    BY ListElements
<1>2. /\ c \in Seq(Changes(T)) /\ DOMAIN c = DOMAIN l
      /\ \A i \in DOMAIN l : c[i].id = l[i].id /\ c[i].status = "reverted"
    BY <1>1, AllRevertedFacts
<1> HIDE DEF c
<1>3. \A target : PendingAt(c, target) = {}
    BY <1>2 DEF PendingAt
<1>4. \A i, j \in DOMAIN c : c[i].id = c[j].id => i = j
    BY <1>2 DEF Lists
<1>5. \A i \in DOMAIN c : c[i].id <= n
    BY <1>1, <1>2
<1>6. c \in Lists(T, n)
    BY <1>2, <1>3, <1>4, <1>5 DEF Lists
<1> QED BY <1>3, <1>6 DEF c

-------------------------------------------------------------------------------
(* The steps of the tracker                                                *)

Trackers(T) ==
    [changes : Seq(Changes(T)), undo : Seq(Actions(T)), redo : Seq(Actions(T)), lastId : Nat]

\* Undo and redo of a tracker are exact.
History(t, T) ==
    /\ Past(t.undo, t.changes, T, t.lastId)
    /\ Future(t.redo, t.changes, T, t.lastId)

\* The list of a tracker with exact undo is one of changes with ids of their own.
LEMMA HistoryHasList ==
    ASSUME NEW T, NEW t \in Trackers(T), History(t, T)
    PROVE  t.changes \in Lists(T, t.lastId)
<1>1. t.undo \in Seq(Actions(T))
    BY DEF Trackers
<1>2. Len(t.undo) \in Nat
    BY <1>1, LenProperties
<1>3. PICK list \in [0 .. Len(t.undo) -> Lists(T, t.lastId)] : list[Len(t.undo)] = t.changes
    BY DEF History, Past
<1> QED BY <1>2, <1>3

\* Min and Max take an element of a set of places.
LEMMA MinMaxOfPlaces ==
    ASSUME NEW n \in Nat, NEW S \in SUBSET (1 .. n), S # {}
    PROVE  Min(S) \in S /\ Max(S) \in S
<1>1. S \in SUBSET Nat /\ S \in SUBSET (0 .. n)
    OBVIOUS
<1>2. \E x \in S : \A y \in S : x =< y
    BY <1>1, LeastNumber
<1>3. \E x \in S : \A y \in S : x >= y
  <2>1. PICK x \in S : \A y \in S : y <= x
      BY <1>1, GreatestNumber
  <2>2. \A y \in S : x >= y
      BY <2>1
  <2> QED BY <2>2
<1> QED BY <1>2, <1>3 DEF Min, Max

\* Where a sequence of changes has pending ones of a target, in numbers.
LEMMA PendingPlaces ==
    ASSUME NEW T, NEW l \in Seq(Changes(T)), NEW target
    PROVE  /\ Len(l) \in Nat
           /\ PendingAt(l, target) \in SUBSET (1 .. Len(l))
           /\ PendingAt(l, target) # {} =>
                 /\ Min(PendingAt(l, target)) \in PendingAt(l, target)
                 /\ Max(PendingAt(l, target)) \in PendingAt(l, target)
           /\ \A i \in PendingAt(l, target) :
                 l[i] \in Changes(T) /\ l[i].target = target /\ l[i].status = "pending"
<1>1. l \in [1 .. Len(l) -> Changes(T)] /\ Len(l) \in Nat /\ DOMAIN l = 1 .. Len(l)
    BY LenProperties
<1>2. PendingAt(l, target) \in SUBSET (1 .. Len(l))
    BY <1>1 DEF PendingAt
<1>3. \A i \in PendingAt(l, target) :
          l[i] \in Changes(T) /\ l[i].target = target /\ l[i].status = "pending"
    BY <1>1 DEF PendingAt
<1> QED BY <1>1, <1>2, <1>3, MinMaxOfPlaces

\* The change that an edit makes.
LEMMA EditedChangeFacts ==
    ASSUME NEW T, NEW t \in Trackers(T)
    PROVE  \A target \in T : \A new \in Values :
              LET x == EditedChange(t, target, Empty, new)
              IN  /\ x \in Changes(T)
                  /\ x.target = target /\ x.new = new /\ x.status = "pending"
                  /\ PendingAt(t.changes, target) = {} => x.id = t.lastId + 1
<1> SUFFICES ASSUME NEW target \in T, NEW new \in Values
             PROVE  LET x == EditedChange(t, target, Empty, new)
                    IN  /\ x \in Changes(T)
                        /\ x.target = target /\ x.new = new /\ x.status = "pending"
                        /\ PendingAt(t.changes, target) = {} => x.id = t.lastId + 1
    OBVIOUS
<1> DEFINE x == EditedChange(t, target, Empty, new)
<1>1. t.changes \in Seq(Changes(T)) /\ t.lastId \in Nat
    BY DEF Trackers
<1>2. CASE PendingAt(t.changes, target) = {}
  <2>1. x = [id |-> t.lastId + 1, target |-> target, old |-> Empty, new |-> new,
             status |-> "pending"]
      BY <1>2 DEF EditedChange
  <2>2. t.lastId + 1 \in Nat
      BY <1>1
  <2> QED BY <2>1, <2>2 DEF Changes
<1>3. CASE PendingAt(t.changes, target) # {}
  <2> DEFINE first == t.changes[Min(PendingAt(t.changes, target))]
  <2>1. first \in Changes(T)
      BY <1>1, <1>3, PendingPlaces
  <2>2. x = [id |-> first.id, target |-> target, old |-> first.old, new |-> new,
             status |-> "pending"]
      BY <1>3 DEF EditedChange
  <2> HIDE DEF first
  <2> QED BY <1>3, <2>1, <2>2 DEF Changes
<1> QED BY <1>2, <1>3

\* An edit in the tracker.
LEMMA TrackEditFacts ==
    ASSUME NEW T, NEW t \in Trackers(T)
    PROVE  \A target \in T : \A new \in Values :
              LET x == EditedChange(t, target, Empty, new)
                  u == TrackEdit(t, target, Empty, new)
              IN  /\ u \in Trackers(T)
                  /\ u.changes = Upsert(t.changes, x)
                  /\ u.undo = Append(t.undo, [type |-> "apply", change |-> x])
                  /\ u.redo = <<>>
                  /\ u.lastId = IF x.id > t.lastId THEN x.id ELSE t.lastId
<1> SUFFICES ASSUME NEW target \in T, NEW new \in Values
             PROVE  LET x == EditedChange(t, target, Empty, new)
                        u == TrackEdit(t, target, Empty, new)
                    IN  /\ u \in Trackers(T)
                        /\ u.changes = Upsert(t.changes, x)
                        /\ u.undo = Append(t.undo, [type |-> "apply", change |-> x])
                        /\ u.redo = <<>>
                        /\ u.lastId = IF x.id > t.lastId THEN x.id ELSE t.lastId
    OBVIOUS
<1> DEFINE x == EditedChange(t, target, Empty, new)
           u == TrackEdit(t, target, Empty, new)
           act == [type |-> "apply", change |-> x]
<1>1. x \in Changes(T)
    BY EditedChangeFacts
<1> HIDE DEF x
<1>2. act \in Actions(T)
    BY <1>1 DEF Actions
<1>3. Upsert(t.changes, x) \in Seq(Changes(T)) /\ Append(t.undo, act) \in Seq(Actions(T))
  <2>1. t.changes \in Seq(Changes(T)) /\ t.undo \in Seq(Actions(T))
      BY DEF Trackers
  <2> QED BY <1>1, <1>2, <2>1, UpsertType, AppendFacts
<1>4. x.id \in Nat /\ t.lastId \in Nat /\ <<>> \in Seq(Actions(T))
    BY <1>1 DEF Changes, Trackers
<1>5. u = [[t EXCEPT !.changes = Upsert(t.changes, x), !.undo = Append(@, act), !.redo = <<>>]
              EXCEPT !.lastId = IF x.id > @ THEN x.id ELSE @]
    BY DEF x, TrackEdit, Do
<1>6. u = [changes |-> Upsert(t.changes, x), undo |-> Append(t.undo, act), redo |-> <<>>,
           lastId |-> IF x.id > t.lastId THEN x.id ELSE t.lastId]
    BY <1>5 DEF Trackers
<1>7. u \in Trackers(T)
    BY <1>3, <1>4, <1>6 DEF Trackers
<1> HIDE DEF u
<1>8. /\ u.changes = Upsert(t.changes, x) /\ u.undo = Append(t.undo, act)
      /\ u.redo = <<>> /\ u.lastId = IF x.id > t.lastId THEN x.id ELSE t.lastId
    BY <1>6
<1> QED BY <1>7, <1>8 DEF x, u

\* An edit of a target that has no pending change keeps undo exact.
LEMMA TrackEditHistory ==
    ASSUME NEW T, NEW t \in Trackers(T), History(t, T)
    PROVE  \A target \in T : \A new \in Values :
              PendingAt(t.changes, target) = {} =>
                 LET x == EditedChange(t, target, Empty, new)
                     u == TrackEdit(t, target, Empty, new)
                     a == [type |-> "apply", change |-> x]
                 IN  /\ a \in Actions(T)
                     /\ LinkedApply(t.changes, a, u.changes)
                     /\ History(u, T)
<1> SUFFICES ASSUME NEW target \in T, NEW new \in Values, PendingAt(t.changes, target) = {}
             PROVE  LET x == EditedChange(t, target, Empty, new)
                        u == TrackEdit(t, target, Empty, new)
                        a == [type |-> "apply", change |-> x]
                    IN  /\ a \in Actions(T)
                        /\ LinkedApply(t.changes, a, u.changes)
                        /\ History(u, T)
    OBVIOUS
<1> DEFINE x == EditedChange(t, target, Empty, new)
           u == TrackEdit(t, target, Empty, new)
           a == [type |-> "apply", change |-> x]
           m == t.lastId + 1
<1>1. /\ x \in Changes(T) /\ x.target = target /\ x.new = new /\ x.status = "pending"
      /\ x.id = m
    BY EditedChangeFacts
<1>2. /\ u \in Trackers(T) /\ u.changes = Upsert(t.changes, x) /\ u.undo = Append(t.undo, a)
      /\ u.redo = <<>> /\ u.lastId = IF x.id > t.lastId THEN x.id ELSE t.lastId
    BY TrackEditFacts
<1> HIDE DEF x, u
<1>3. t.lastId \in Nat /\ m \in Nat /\ t.lastId <= m /\ u.lastId = m
    BY <1>1, <1>2 DEF Trackers
<1>4. a \in Actions(T)
    BY <1>1 DEF Actions
<1>5. t.changes \in Lists(T, t.lastId)
    BY HistoryHasList
<1>6. \A i \in DOMAIN t.changes : t.changes[i].id # x.id
  <2>1. \A i \in DOMAIN t.changes : t.changes[i].id \in Nat /\ t.changes[i].id <= t.lastId
      BY <1>5, ListElements
  <2> QED BY <1>1, <1>3, <2>1
<1>7. u.changes = Append(t.changes, x)
    BY <1>2, <1>6 DEF Upsert
<1>8. LinkedApply(t.changes, a, u.changes)
    BY <1>1, <1>6, <1>7 DEF LinkedApply
<1>9. u.changes \in Lists(T, m)
  <2>1. x.id <= m /\ PendingAt(t.changes, x.target) = {}
      BY <1>1, <1>3
  <2> QED BY <1>1, <1>3, <1>5, <1>6, <1>7, <2>1, ListWithNewest
<1>10. Past(t.undo, t.changes, T, m)
    BY <1>3, MoreIds DEF History
<1>11. Past(u.undo, u.changes, T, m)
  <2>1. t.undo \in Seq(Actions(T)) /\ Linked(t.changes, a, u.changes)
      BY <1>8 DEF Trackers, Linked
  <2> QED BY <1>2, <1>4, <1>9, <1>10, <2>1, PastGrows
<1>12. Future(u.redo, u.changes, T, m)
    BY <1>2, <1>3, <1>9, NothingTracked
<1> QED BY <1>3, <1>4, <1>8, <1>11, <1>12 DEF History, x, u

\* A revert in the tracker.
LEMMA TrackRevertFacts ==
    ASSUME NEW T, NEW t \in Trackers(T)
    PROVE  \A id : CanRevert(t, id) =>
              LET u == TrackRevert(t, id)
                  a == Last(u.undo)
              IN  /\ u \in Trackers(T) /\ u.lastId = t.lastId
                  /\ a \in Actions(T) /\ a.type = "revert" /\ a.change \in Changes(T)
                  /\ History(t, T) =>
                        LinkedRevert(t.changes, a, u.changes) /\ History(u, T)
<1> SUFFICES ASSUME NEW id, CanRevert(t, id)
             PROVE  LET u == TrackRevert(t, id)
                        a == Last(u.undo)
                    IN  /\ u \in Trackers(T) /\ u.lastId = t.lastId
                        /\ a \in Actions(T) /\ a.type = "revert" /\ a.change \in Changes(T)
                        /\ History(t, T) =>
                              LinkedRevert(t.changes, a, u.changes) /\ History(u, T)
    OBVIOUS
<1> DEFINE u == TrackRevert(t, id)
           p == CHOOSE j \in Indexes(t, id) : TRUE
           x == t.changes[p]
           act == [type |-> "revert", change |-> x]
           c == [t.changes EXCEPT ![p] = Reverted(x)]
<1>1. /\ t.changes \in Seq(Changes(T)) /\ t.changes \in [DOMAIN t.changes -> Changes(T)]
      /\ DOMAIN t.changes = 1 .. Len(t.changes)
      /\ t.undo \in Seq(Actions(T)) /\ t.lastId \in Nat
  <2>1. t.changes \in Seq(Changes(T)) /\ t.undo \in Seq(Actions(T)) /\ t.lastId \in Nat
      BY DEF Trackers
  <2> QED BY <2>1, LenProperties
<1>2. p \in DOMAIN t.changes /\ t.changes[p].id = id
  <2>1. Indexes(t, id) # {}
      BY DEF CanRevert
  <2>2. p \in Indexes(t, id)
      BY <2>1
  <2> QED BY <2>2 DEF Indexes
<1>3. x \in Changes(T) /\ Reverted(x) \in Changes(T)
  <2>1. x \in Changes(T)
      BY <1>1, <1>2
  <2> QED BY <2>1, RevertedType
<1>4. act \in Actions(T)
    BY <1>3 DEF Actions
<1>5. c \in Seq(Changes(T)) /\ Append(t.undo, act) \in Seq(Actions(T)) /\ <<>> \in Seq(Actions(T))
  <2>1. p \in 1 .. Len(t.changes)
      BY <1>1, <1>2
  <2>2. c \in Seq(Changes(T))
      BY <1>1, <1>3, <2>1, ExceptSeq
  <2> QED BY <1>1, <1>4, <2>2, AppendFacts
<1>6. c = [t.changes EXCEPT ![p].status = "reverted"]
    BY <1>1, <1>2 DEF Reverted
<1>7. u = [t EXCEPT !.changes = c, !.undo = Append(@, act), !.redo = <<>>]
    BY <1>6 DEF TrackRevert, Do
<1> HIDE DEF u, c
<1>8. u = [changes |-> c, undo |-> Append(t.undo, act), redo |-> <<>>, lastId |-> t.lastId]
    BY <1>7 DEF Trackers
<1>9. u \in Trackers(T)
    BY <1>1, <1>5, <1>8 DEF Trackers
<1>10. Last(u.undo) = act
  <2>1. /\ Append(t.undo, act)[Len(t.undo) + 1] = act
        /\ Len(Append(t.undo, act)) = Len(t.undo) + 1
      BY <1>1, <1>4, AppendFacts
  <2> QED BY <1>8, <2>1 DEF Last
<1>11. ASSUME History(t, T)
       PROVE  LinkedRevert(t.changes, act, u.changes) /\ History(u, T)
  <2>1. t.changes \in Lists(T, t.lastId)
      BY <1>11, HistoryHasList
  <2>2. x.status = "pending"
    <3>1. PICK i \in Indexes(t, id) : t.changes[i].status # "reverted"
        BY DEF CanRevert
    <3>2. i \in DOMAIN t.changes /\ t.changes[i].id = id
        BY <3>1 DEF Indexes
    <3>3. i = p
        BY <1>2, <2>1, <3>2 DEF Lists
    <3> QED BY <1>3, <3>1, <3>3 DEF Changes
  <2>3. LinkedRevert(t.changes, act, u.changes)
    <3>1. u.changes = [t.changes EXCEPT ![p] = Reverted(x)]
        BY <1>8 DEF c
    <3>2. act.type = "revert" /\ act.change = x /\ t.changes[p] = act.change
        OBVIOUS
    <3> HIDE DEF act, p
    <3> QED BY <1>2, <2>2, <3>1, <3>2 DEF LinkedRevert
  <2>4. c \in Lists(T, t.lastId)
      BY <1>2, <2>1, ListWithReverted DEF c
  <2>5. Past(u.undo, u.changes, T, t.lastId)
    <3>1. Linked(t.changes, act, c)
        BY <1>8, <2>3 DEF Linked
    <3>2. Past(t.undo, t.changes, T, t.lastId)
        BY <1>11 DEF History
    <3>3. Past(Append(t.undo, act), c, T, t.lastId)
        BY <1>1, <1>4, <2>4, <3>1, <3>2, PastGrows
    <3> QED BY <1>8, <3>3
  <2>6. Future(u.redo, u.changes, T, t.lastId)
      BY <1>1, <1>8, <2>4, NothingTracked
  <2> QED BY <1>8, <2>3, <2>5, <2>6 DEF History
<1> HIDE DEF act
<1>12. act.type = "revert" /\ act.change \in Changes(T) /\ u.lastId = t.lastId
    BY <1>3, <1>8 DEF act
<1> QED BY <1>4, <1>9, <1>10, <1>11, <1>12 DEF u

\* Clear in the tracker.
LEMMA TrackClearFacts ==
    ASSUME NEW T, NEW t \in Trackers(T)
    PROVE  /\ TrackClear(t) \in Trackers(T) /\ TrackClear(t).lastId = t.lastId
           /\ TrackClear(t).changes = AllReverted(t.changes)
           /\ t.changes = <<>> => TrackClear(t) = t
           /\ History(t, T) => History(TrackClear(t), T)
<1> DEFINE u == TrackClear(t)
           act == [type |-> "clear", before |-> t.changes]
           c == AllReverted(t.changes)
<1>1. t.changes \in Seq(Changes(T)) /\ t.undo \in Seq(Actions(T)) /\ t.lastId \in Nat
    BY DEF Trackers
<1>2. CASE t.changes = <<>>
  <2>1. u = t
      BY <1>2 DEF TrackClear
  <2>2. c = <<>>
    <3>1. c \in Seq(Changes(T)) /\ Len(c) = 0
        BY <1>1, <1>2, AllRevertedFacts
    <3> QED BY <3>1
  <2> QED BY <1>2, <2>1, <2>2
<1>3. CASE t.changes # <<>>
  <2>1. act \in Actions(T) /\ c \in Seq(Changes(T)) /\ <<>> \in Seq(Actions(T))
      BY <1>1, AllRevertedFacts DEF Actions
  <2>2. Append(t.undo, act) \in Seq(Actions(T))
      BY <1>1, <2>1, AppendFacts
  <2>3. u = [t EXCEPT !.changes = c, !.undo = Append(@, act), !.redo = <<>>]
      BY <1>3 DEF TrackClear, Do
  <2> HIDE DEF u, c
  <2>4. u = [changes |-> c, undo |-> Append(t.undo, act), redo |-> <<>>, lastId |-> t.lastId]
      BY <2>3 DEF Trackers
  <2>5. u \in Trackers(T)
      BY <1>1, <2>1, <2>2, <2>4 DEF Trackers
  <2>6. ASSUME History(t, T) PROVE History(u, T)
    <3>1. t.changes \in Lists(T, t.lastId)
        BY <2>6, HistoryHasList
    <3>2. c \in Lists(T, t.lastId)
        BY <3>1, ListWithAllReverted DEF c
    <3>3. Linked(t.changes, act, c)
        BY DEF Linked, LinkedClear, c
    <3>4. Past(t.undo, t.changes, T, t.lastId)
        BY <2>6 DEF History
    <3>5. Past(Append(t.undo, act), c, T, t.lastId)
        BY <1>1, <2>1, <3>2, <3>3, <3>4, PastGrows
    <3>6. Future(<<>>, c, T, t.lastId)
        BY <1>1, <3>2, NothingTracked
    <3> QED BY <2>4, <3>5, <3>6 DEF History
  <2> QED BY <1>3, <2>4, <2>5, <2>6 DEF u, c
<1> QED BY <1>2, <1>3

\* The kinds of actions.
LEMMA ActionKinds ==
    ASSUME NEW T, NEW a \in Actions(T)
    PROVE  \/ a.type = "apply" /\ a.change \in Changes(T)
           \/ a.type = "revert" /\ a.change \in Changes(T)
           \/ a.type = "clear" /\ a.before \in Seq(Changes(T))
BY DEF Actions

\* What is listed after an action was taken back, or again.
LEMMA UndoneType ==
    ASSUME NEW T, NEW a \in Actions(T), NEW l \in Seq(Changes(T))
    PROVE  Undone(l, a) \in Seq(Changes(T)) /\ Redone(l, a) \in Seq(Changes(T))
<1>1. CASE a.type = "apply" /\ a.change \in Changes(T)
  <2>1. Without(l, a.change.id) \in Seq(Changes(T)) /\ Upsert(l, a.change) \in Seq(Changes(T))
      BY <1>1, WithoutType, UpsertType
  <2>2. Undone(l, a) = Without(l, a.change.id) /\ Redone(l, a) = Upsert(l, a.change)
      BY <1>1 DEF Undone, Redone
  <2> QED BY <2>1, <2>2
<1>2. CASE a.type = "revert" /\ a.change \in Changes(T)
  <2>1. Reverted(a.change) \in Changes(T)
      BY <1>2, RevertedType
  <2>2. /\ Upsert(l, a.change) \in Seq(Changes(T))
        /\ Upsert(l, Reverted(a.change)) \in Seq(Changes(T))
      BY <1>2, <2>1, UpsertType
  <2>3. /\ Undone(l, a) \in {l, Upsert(l, a.change)}
        /\ Redone(l, a) \in {l, Upsert(l, Reverted(a.change))}
      BY <1>2 DEF Undone, Redone, Reverted
  <2> QED BY <2>2, <2>3
<1>3. CASE a.type = "clear" /\ a.before \in Seq(Changes(T))
  <2>1. AllReverted(a.before) \in Seq(Changes(T))
      BY <1>3, AllRevertedFacts
  <2>2. Undone(l, a) = a.before /\ Redone(l, a) = AllReverted(a.before)
      BY <1>3 DEF Undone, Redone
  <2> QED BY <1>3, <2>1, <2>2
<1> QED BY <1>1, <1>2, <1>3, ActionKinds

\* Undo in the tracker.
LEMMA TrackUndoFacts ==
    ASSUME NEW T, NEW t \in Trackers(T), t.undo # <<>>
    PROVE  /\ TrackUndo(t) \in Trackers(T) /\ TrackUndo(t).lastId = t.lastId
           /\ Last(t.undo) \in Actions(T)
           /\ History(t, T) =>
                 /\ Linked(TrackUndo(t).changes, Last(t.undo), t.changes)
                 /\ History(TrackUndo(t), T)
<1> DEFINE u == TrackUndo(t)
           a == Last(t.undo)
           b == Undone(t.changes, a)
<1>1. t.changes \in Seq(Changes(T)) /\ t.undo \in Seq(Actions(T)) /\ t.redo \in Seq(Actions(T))
      /\ t.lastId \in Nat
    BY DEF Trackers
<1>2. a \in Actions(T) /\ Front(t.undo) \in Seq(Actions(T))
    BY <1>1, FrontFacts
<1>3. Append(t.redo, a) \in Seq(Actions(T)) /\ b \in Seq(Changes(T))
    BY <1>1, <1>2, AppendFacts, UndoneType
<1>4. u = [t EXCEPT !.undo = Front(@), !.redo = Append(@, a), !.changes = b]
    BY DEF TrackUndo
<1> HIDE DEF u, a, b
<1>5. u = [changes |-> b, undo |-> Front(t.undo), redo |-> Append(t.redo, a),
           lastId |-> t.lastId]
    BY <1>4 DEF Trackers
<1>6. u \in Trackers(T)
    BY <1>1, <1>2, <1>3, <1>5 DEF Trackers
<1>7. ASSUME History(t, T) PROVE Linked(b, a, t.changes) /\ History(u, T)
  <2>1. t.changes \in Lists(T, t.lastId)
      BY <1>7, HistoryHasList
  <2>2. Past(t.undo, t.changes, T, t.lastId) /\ Future(t.redo, t.changes, T, t.lastId)
      BY <1>7 DEF History
  <2>3. PICK before \in Lists(T, t.lastId) :
            Past(Front(t.undo), before, T, t.lastId) /\ Linked(before, a, t.changes)
      BY <1>1, <2>2, PastShrinks DEF a
  <2>4. before = b
      BY <1>2, <2>1, <2>3, LinkedSteps DEF b
  <2>5. Future(Append(t.redo, a), b, T, t.lastId)
      BY <1>1, <1>2, <2>2, <2>3, <2>4, FutureGrows
  <2> QED BY <1>5, <2>3, <2>4, <2>5 DEF History
<1>8. u.changes = b /\ u.lastId = t.lastId
    BY <1>5
<1> QED BY <1>2, <1>6, <1>7, <1>8 DEF u, a

\* Redo in the tracker.
LEMMA TrackRedoFacts ==
    ASSUME NEW T, NEW t \in Trackers(T), t.redo # <<>>
    PROVE  /\ TrackRedo(t) \in Trackers(T) /\ TrackRedo(t).lastId = t.lastId
           /\ Last(t.redo) \in Actions(T)
           /\ History(t, T) =>
                 /\ Linked(t.changes, Last(t.redo), TrackRedo(t).changes)
                 /\ History(TrackRedo(t), T)
<1> DEFINE u == TrackRedo(t)
           a == Last(t.redo)
           c == Redone(t.changes, a)
<1>1. t.changes \in Seq(Changes(T)) /\ t.undo \in Seq(Actions(T)) /\ t.redo \in Seq(Actions(T))
      /\ t.lastId \in Nat
    BY DEF Trackers
<1>2. a \in Actions(T) /\ Front(t.redo) \in Seq(Actions(T))
    BY <1>1, FrontFacts
<1>3. Append(t.undo, a) \in Seq(Actions(T)) /\ c \in Seq(Changes(T))
    BY <1>1, <1>2, AppendFacts, UndoneType
<1>4. u = [t EXCEPT !.redo = Front(@), !.undo = Append(@, a), !.changes = c]
    BY DEF TrackRedo
<1> HIDE DEF u, a, c
<1>5. u = [changes |-> c, undo |-> Append(t.undo, a), redo |-> Front(t.redo),
           lastId |-> t.lastId]
    BY <1>4 DEF Trackers
<1>6. u \in Trackers(T)
    BY <1>1, <1>2, <1>3, <1>5 DEF Trackers
<1>7. ASSUME History(t, T) PROVE Linked(t.changes, a, c) /\ History(u, T)
  <2>1. t.changes \in Lists(T, t.lastId)
      BY <1>7, HistoryHasList
  <2>2. Past(t.undo, t.changes, T, t.lastId) /\ Future(t.redo, t.changes, T, t.lastId)
      BY <1>7 DEF History
  <2>3. PICK after \in Lists(T, t.lastId) :
            Future(Front(t.redo), after, T, t.lastId) /\ Linked(t.changes, a, after)
      BY <1>1, <2>2, FutureShrinks DEF a
  <2>4. after = c
      BY <1>2, <2>1, <2>3, LinkedSteps DEF c
  <2>5. Past(Append(t.undo, a), c, T, t.lastId)
      BY <1>1, <1>2, <2>2, <2>3, <2>4, PastGrows
  <2> QED BY <1>5, <2>3, <2>4, <2>5 DEF History
<1>8. u.changes = c /\ u.lastId = t.lastId
    BY <1>5
<1> QED BY <1>2, <1>6, <1>7, <1>8 DEF u, a

\* The answer of the worker tells the old value that the tracker has.
LEMMA SetOldValueChangesNothing ==
    ASSUME NEW T, NEW t \in Trackers(T), NEW id
    PROVE  SetOldValue(t, id, Empty) = t
<1> DEFINE entries == {i \in DOMAIN t.undo :
                         t.undo[i].type = "apply" /\ t.undo[i].change.id = id}
           latest == CHOOSE i \in entries : \A j \in entries : j <= i
           c == [i \in DOMAIN t.changes |-> IF t.changes[i].id = id
                                            THEN [t.changes[i] EXCEPT !.old = Empty]
                                            ELSE t.changes[i]]
           more == IF entries = {} THEN t.undo
                   ELSE [t.undo EXCEPT ![latest].change.old = Empty]
<1>1. /\ t.changes \in [DOMAIN t.changes -> Changes(T)]
      /\ t.undo \in [DOMAIN t.undo -> Actions(T)]
      /\ DOMAIN t.undo = 1 .. Len(t.undo) /\ Len(t.undo) \in Nat
  <2>1. t.changes \in Seq(Changes(T)) /\ t.undo \in Seq(Actions(T))
      BY DEF Trackers
  <2> QED BY <2>1, LenProperties
<1>2. \A x \in Changes(T) : [x EXCEPT !.old = Empty] = x
    BY DEF Changes
<1>3. c = t.changes
    BY <1>1, <1>2
<1>4. more = t.undo
  <2>1. SUFFICES ASSUME entries # {} PROVE [t.undo EXCEPT ![latest].change.old = Empty] = t.undo
      OBVIOUS
  <2>2. latest \in entries
    <3>1. entries \in SUBSET (0 .. Len(t.undo))
        BY <1>1
    <3>2. \E i \in entries : \A j \in entries : j <= i
        BY <1>1, <2>1, <3>1, GreatestNumber
    <3> HIDE DEF entries
    <3> QED BY <3>2
  <2> HIDE DEF latest
  <2>3. latest \in DOMAIN t.undo /\ t.undo[latest].type = "apply" /\ t.undo[latest] \in Actions(T)
      BY <1>1, <2>2
  <2>4. t.undo[latest] \in [type : {"apply", "revert"}, change : Changes(T)]
      BY <2>3 DEF Actions
  <2>5. [t.undo[latest] EXCEPT !.change.old = Empty] = t.undo[latest]
    <3>1. [t.undo[latest].change EXCEPT !.old = Empty] = t.undo[latest].change
        BY <1>2, <2>4
    <3> QED BY <2>4, <3>1
  <2> QED BY <1>1, <2>3, <2>5
<1> HIDE DEF c, more
<1>5. SetOldValue(t, id, Empty) =
          IF Indexes(t, id) = {} THEN t ELSE [t EXCEPT !.changes = c, !.undo = more]
    BY DEF SetOldValue, c, more
<1>6. [t EXCEPT !.changes = t.changes, !.undo = t.undo] = t
    BY DEF Trackers
<1> QED BY <1>3, <1>4, <1>5, <1>6

-------------------------------------------------------------------------------
(* The panel and its messages                                              *)

\* The targets that are edited in this behaviour.
EditTargets == IF "text" \in scenario THEN Targets ELSE Targets \ {"text"}

Messages(T) ==
    [type : {"edit"}, selector : Selectors, change : Changes(T), form : Nat]
        \cup [type : {"revert"}, selector : Selectors, change : Changes(T)]
        \cup [type : {"clear"}, selector : Selectors, changes : Seq(Changes(T))]

FormMaps(T) == UNION {[S -> Values] : S \in SUBSET T}

Sending(T) ==
    [form : FormMaps(T), selector : Selectors, awaiting : Changes(T),
     answer : {Undefined, "failed", Empty}]

EditTypes ==
    /\ tracker \in Trackers(EditTargets)
    /\ selected \in Selectors
    /\ activeTab \in Tabs
    /\ IsMap(designs, Nat, Sending(EditTargets))
    /\ queue \in Seq(Messages(EditTargets))
    /\ merged \in BOOLEAN
    /\ clicks \in Nat

\* The forms that are being sent after a step were so before, for the same selection, or
\* are for this one.
FormsFor(selector) ==
    \A k \in DOMAIN designs' :
        \/ designs'[k].selector = selector
        \/ k \in DOMAIN designs /\ designs'[k].selector = designs[k].selector

FormsKept ==
    \A k \in DOMAIN designs' : k \in DOMAIN designs /\ designs'[k].selector = designs[k].selector

HistoryIsExact == ~merged => History(tracker, EditTargets)

\* Message m tells the worker how the list b has become the list c.
Reports(m, b, c, T) ==
    \E a \in Actions(T) :
        \/ /\ m.type = "edit" /\ m.change = a.change
           /\ LinkedApply(b, a, c) \/ LinkedRevert(c, a, b)
        \/ /\ m.type = "revert" /\ m.change = Reverted(a.change)
           /\ LinkedRevert(b, a, c) \/ LinkedApply(c, a, b)
        \/ m.type = "clear" /\ m.changes = b /\ LinkedClear(b, a, c)

\* A step of the panel sends what it did to the list, for the selection shown.
Sent(selector) ==
    /\ queue' \in Seq(Messages(EditTargets))
    /\ ~merged' /\ "unclear" \notin scenario =>
          \E m \in Messages(EditTargets) :
             /\ queue' = Append(queue, m)
             /\ m.selector = selector
             /\ Reports(m, tracker.changes, tracker'.changes, EditTargets)

\* The first field of a form that is to be sent is one of its fields.
LEMMA FirstFieldFacts ==
    ASSUME NEW T, T \subseteq Targets
    PROVE  \A form \in FormMaps(T) : form # EmptyMap =>
              /\ FirstField(form) \in DOMAIN form
              /\ FirstField(form) \in T
              /\ form[FirstField(form)] \in Values
              /\ MapDelete(form, FirstField(form)) \in FormMaps(T)
<1> SUFFICES ASSUME NEW form \in FormMaps(T), form # EmptyMap
             PROVE  /\ FirstField(form) \in DOMAIN form
                    /\ FirstField(form) \in T
                    /\ form[FirstField(form)] \in Values
                    /\ MapDelete(form, FirstField(form)) \in FormMaps(T)
    OBVIOUS
<1>1. PICK S \in SUBSET T : form \in [S -> Values]
    BY DEF FormMaps
<1>2. DOMAIN form = S /\ S # {}
  <2>1. ASSUME S = {} PROVE FALSE
    <3>1. form = [x \in {} |-> x]
        BY <1>1, <2>1
    <3> QED BY <3>1 DEF EmptyMap
  <2> QED BY <1>1, <2>1
<1> DEFINE places == {i \in DOMAIN FormFields : FormFields[i] \in DOMAIN form}
<1>3. places # {} /\ places \in SUBSET Nat
  <2>1. PICK f \in S : TRUE
      BY <1>2
  <2>2. f \in Range(FormFields)
      BY <2>1, PanelAssumption
  <2>3. PICK i \in DOMAIN FormFields : FormFields[i] = f
      BY <2>2 DEF Range
  <2>4. DOMAIN FormFields = 1 .. Len(FormFields) /\ Len(FormFields) \in Nat
      BY PanelAssumption, LenProperties
  <2> QED BY <1>2, <2>3, <2>4
<1>4. PICK p \in places : \A j \in places : p <= j
  <2> HIDE DEF places
  <2> QED BY <1>3, LeastNumber
<1>5. FormFields[CHOOSE i \in DOMAIN FormFields :
                   /\ FormFields[i] \in DOMAIN form
                   /\ \A j \in DOMAIN FormFields : FormFields[j] \in DOMAIN form => i <= j]
          \in DOMAIN form
    BY <1>4
<1>6. FirstField(form) \in DOMAIN form
    BY <1>5 DEF FirstField
<1> DEFINE field == FirstField(form)
<1> HIDE DEF field
<1>7. MapDelete(form, field) \in [S \ {field} -> Values]
    BY <1>1, <1>2 DEF MapDelete
<1>8. MapDelete(form, field) \in FormMaps(T)
    BY <1>7 DEF FormMaps
<1> QED BY <1>1, <1>2, <1>6, <1>8 DEF field

\* A field of the design form is sent.
LEMMA SendFieldStep ==
    ASSUME EditTypes, HistoryIsExact, UNCHANGED scenario,
           NEW form \in FormMaps(EditTargets), form # EmptyMap,
           NEW n \in Nat, NEW selector \in Selectors, SendField(n, tracker, form, selector)
    PROVE  /\ tracker' \in Trackers(EditTargets)
           /\ IsMap(designs', Nat, Sending(EditTargets))
           /\ FormsFor(selector)
           /\ merged' \in BOOLEAN
           /\ merged => merged'
           /\ HistoryIsExact'
           /\ Sent(selector)
<1> DEFINE T == EditTargets
           field == FirstField(form)
           new == form[field]
           x == EditedChange(tracker, field, Empty, new)
           a == [type |-> "apply", change |-> x]
           m == [type |-> "edit", selector |-> selector, change |-> x, form |-> n]
<1>1. T \subseteq Targets /\ T' = T
    BY DEF EditTargets
<1>2. /\ tracker \in Trackers(T) /\ queue \in Seq(Messages(T)) /\ merged \in BOOLEAN
    BY DEF EditTypes
<1> HIDE DEF T
<1>3. field \in T /\ new \in Values /\ MapDelete(form, field) \in FormMaps(T)
    BY <1>1, FirstFieldFacts DEF T
<1>4. /\ tracker' = TrackEdit(tracker, field, Empty, new)
      /\ queue' = Append(queue, m)
      /\ designs' = MapSet(designs, n, [form |-> MapDelete(form, field), selector |-> selector,
                                        awaiting |-> x, answer |-> Undefined])
      /\ merged' = (merged \/ PendingAt(tracker.changes, field) # {})
    BY DEF SendField
<1> HIDE DEF field, new
<1>5. x \in Changes(T) /\ tracker' \in Trackers(T)
    BY <1>2, <1>3, <1>4, EditedChangeFacts, TrackEditFacts
<1> HIDE DEF x
<1>6. m \in Messages(T)
    BY <1>5 DEF Messages
<1>7. IsMap(designs', Nat, Sending(T)) /\ FormsFor(selector)
  <2> DEFINE sending == [form |-> MapDelete(form, field), selector |-> selector,
                         awaiting |-> x, answer |-> Undefined]
  <2>1. sending \in Sending(T) /\ sending.selector = selector
      BY <1>3, <1>5 DEF Sending
  <2>2. IsMap(designs, Nat, Sending(T)) /\ designs' = MapSet(designs, n, sending)
      BY <1>4 DEF EditTypes, T
  <2> HIDE DEF sending
  <2>3. DOMAIN designs' = DOMAIN designs \cup {n} /\ designs'[n] = sending
        /\ \A k \in DOMAIN designs : k # n => designs'[k] = designs[k]
      BY <2>2 DEF MapSet
  <2>4. \A k \in DOMAIN designs' : designs'[k] \in Sending(T)
      BY <2>1, <2>2, <2>3 DEF IsMap
  <2>5. designs' = [k \in DOMAIN designs' |-> designs'[k]]
      BY <2>2 DEF MapSet
  <2>6. IsMap(designs', Nat, Sending(T))
      BY <2>2, <2>3, <2>4, <2>5 DEF IsMap
  <2>7. FormsFor(selector)
      BY <2>1, <2>3 DEF FormsFor
  <2> QED BY <2>6, <2>7
<1>8. ASSUME ~merged'
      PROVE  History(tracker', T) /\ LinkedApply(tracker.changes, a, tracker'.changes)
                 /\ a \in Actions(T)
  <2>1. ~merged /\ PendingAt(tracker.changes, field) = {}
      BY <1>4, <1>8
  <2>2. History(tracker, T)
      BY <2>1 DEF HistoryIsExact, T
  <2> QED BY <1>2, <1>3, <1>4, <2>1, <2>2, TrackEditHistory DEF x
<1>9. HistoryIsExact'
    BY <1>1, <1>8 DEF HistoryIsExact, T
<1>10. queue' \in Seq(Messages(T))
    BY <1>2, <1>4, <1>6, AppendFacts
<1>11. ASSUME ~merged'
       PROVE  Reports(m, tracker.changes, tracker'.changes, T)
  <2>1. m.type = "edit" /\ m.change = a.change
      OBVIOUS
  <2> HIDE DEF m, a
  <2> QED BY <1>8, <1>11, <2>1 DEF Reports
<1>12. Sent(selector)
  <2>1. m.selector = selector
      OBVIOUS
  <2> HIDE DEF m
  <2> QED BY <1>4, <1>6, <1>10, <1>11, <2>1 DEF Sent, T
<1>13. merged' \in BOOLEAN /\ (merged => merged')
    BY <1>2, <1>4
<1> QED BY <1>5, <1>7, <1>9, <1>12, <1>13 DEF T

\* What holds after one of the buttons that change the list.
Clicking ==
    /\ tracker' \in Trackers(EditTargets)
    /\ tracker'.lastId = tracker.lastId
    /\ HistoryIsExact'
    /\ Sent(selected)

\* Revert of one change.
LEMMA ClickRevertStep ==
    ASSUME EditTypes, HistoryIsExact, NEW id, ClickRevert(id)
    PROVE  Clicking
<1> DEFINE T == EditTargets
           a == Last(tracker'.undo)
           x == [a.change EXCEPT !.status = "reverted"]
           m == [type |-> "revert", selector |-> selected, change |-> x]
<1>1. T' = T /\ merged' = merged
    BY DEF EditTargets, ClickRevert, elsewhereVars
<1>2. tracker \in Trackers(T) /\ queue \in Seq(Messages(T)) /\ selected \in Selectors
    BY DEF EditTypes
<1> HIDE DEF T
<1>3. /\ CanRevert(tracker, id) /\ tracker' = TrackRevert(tracker, id)
      /\ queue' = Append(queue, m)
    BY DEF ClickRevert, Send
<1>4. /\ tracker' \in Trackers(T) /\ tracker'.lastId = tracker.lastId
      /\ a \in Actions(T) /\ a.type = "revert" /\ a.change \in Changes(T)
      /\ History(tracker, T) =>
            LinkedRevert(tracker.changes, a, tracker'.changes) /\ History(tracker', T)
    BY <1>2, <1>3, TrackRevertFacts
<1> HIDE DEF a
<1>5. x = Reverted(a.change) /\ x \in Changes(T)
    BY <1>4, RevertedType DEF Reverted
<1> HIDE DEF x
<1>6. m \in Messages(T) /\ m.selector = selected /\ m.type = "revert" /\ m.change = x
    BY <1>2, <1>5 DEF Messages
<1> HIDE DEF m
<1>7. queue' \in Seq(Messages(T))
    BY <1>2, <1>3, <1>6, AppendFacts
<1>8. HistoryIsExact'
    BY <1>1, <1>4 DEF HistoryIsExact, T
<1>9. ASSUME ~merged' PROVE Reports(m, tracker.changes, tracker'.changes, T)
  <2>1. LinkedRevert(tracker.changes, a, tracker'.changes)
      BY <1>1, <1>4, <1>9 DEF HistoryIsExact, T
  <2> QED BY <1>4, <1>5, <1>6, <2>1 DEF Reports
<1>10. Sent(selected)
    BY <1>3, <1>6, <1>7, <1>9 DEF Sent, T
<1> QED BY <1>4, <1>8, <1>10 DEF Clicking, T

\* Clear all.
LEMMA ClickClearStep ==
    ASSUME EditTypes, HistoryIsExact, ClickClear
    PROVE  Clicking
<1> DEFINE T == EditTargets
           a == [type |-> "clear", before |-> tracker.changes]
           m == [type |-> "clear", selector |-> selected, changes |-> tracker.changes]
<1>1. T' = T /\ merged' = merged
    BY DEF EditTargets, ClickClear, elsewhereVars
<1>2. tracker \in Trackers(T) /\ queue \in Seq(Messages(T)) /\ selected \in Selectors
    BY DEF EditTypes
<1> HIDE DEF T
<1>3. tracker' = TrackClear(tracker) /\ queue' = Append(queue, m)
    BY DEF ClickClear, Send
<1>4. /\ tracker' \in Trackers(T) /\ tracker'.lastId = tracker.lastId
      /\ tracker'.changes = AllReverted(tracker.changes)
      /\ History(tracker, T) => History(tracker', T)
    BY <1>2, <1>3, TrackClearFacts
<1>5. tracker.changes \in Seq(Changes(T))
    BY <1>2 DEF Trackers
<1>6. a \in Actions(T) /\ LinkedClear(tracker.changes, a, tracker'.changes)
    BY <1>4, <1>5 DEF Actions, LinkedClear
<1>7. /\ m \in Messages(T) /\ m.selector = selected /\ m.type = "clear"
      /\ m.changes = tracker.changes
    BY <1>2, <1>5 DEF Messages
<1> HIDE DEF m, a
<1>8. queue' \in Seq(Messages(T))
    BY <1>2, <1>3, <1>7, AppendFacts
<1>9. HistoryIsExact'
    BY <1>1, <1>4 DEF HistoryIsExact, T
<1>10. Reports(m, tracker.changes, tracker'.changes, T)
    BY <1>6, <1>7 DEF Reports
<1>11. Sent(selected)
    BY <1>3, <1>7, <1>8, <1>10 DEF Sent, T
<1> QED BY <1>4, <1>9, <1>11 DEF Clicking, T

\* Undo.
LEMMA ClickUndoStep ==
    ASSUME EditTypes, HistoryIsExact, ClickUndo
    PROVE  Clicking
<1> DEFINE T == EditTargets
           a == Last(tracker.undo)
<1>1. T' = T /\ merged' = merged
    BY DEF EditTargets, ClickUndo, elsewhereVars
<1>2. tracker \in Trackers(T) /\ queue \in Seq(Messages(T)) /\ selected \in Selectors
    BY DEF EditTypes
<1> HIDE DEF T
<1>3. /\ tracker.undo # <<>> /\ ("unclear" \in scenario \/ a.type # "clear")
      /\ tracker' = TrackUndo(tracker) /\ Send(UndoEffect(tracker))
    BY DEF ClickUndo, CanUndo
<1>4. /\ tracker' \in Trackers(T) /\ tracker'.lastId = tracker.lastId
      /\ a \in Actions(T)
      /\ History(tracker, T) =>
            Linked(tracker'.changes, a, tracker.changes) /\ History(tracker', T)
    BY <1>2, <1>3, TrackUndoFacts
<1> HIDE DEF a
<1>5. HistoryIsExact'
    BY <1>1, <1>4 DEF HistoryIsExact, T
<1>6. ~merged' => Linked(tracker'.changes, a, tracker.changes)
    BY <1>1, <1>4 DEF HistoryIsExact, T
<1>7. CASE a.type = "apply" /\ a.change \in Changes(T)
  <2> DEFINE x == [a.change EXCEPT !.status = "reverted"]
             m == [type |-> "revert", selector |-> selected, change |-> x]
  <2>1. queue' = Append(queue, m)
    <3>1. UndoEffect(tracker) = [type |-> "revert", change |-> x]
        BY <1>7 DEF UndoEffect, a
    <3> HIDE DEF x
    <3> QED BY <1>3, <3>1 DEF Send
  <2>2. x = Reverted(a.change) /\ x \in Changes(T)
      BY <1>7, RevertedType DEF Reverted
  <2> HIDE DEF x
  <2>3. m \in Messages(T) /\ m.selector = selected /\ m.type = "revert" /\ m.change = x
      BY <1>2, <2>2 DEF Messages
  <2> HIDE DEF m
  <2>4. queue' \in Seq(Messages(T))
      BY <1>2, <2>1, <2>3, AppendFacts
  <2>5. ASSUME ~merged' PROVE Reports(m, tracker.changes, tracker'.changes, T)
    <3>1. LinkedApply(tracker'.changes, a, tracker.changes)
        BY <1>6, <1>7, <2>5 DEF Linked, LinkedRevert, LinkedClear
    <3> QED BY <1>4, <2>2, <2>3, <3>1 DEF Reports
  <2> QED BY <1>4, <1>5, <2>1, <2>3, <2>4, <2>5 DEF Clicking, Sent, T
<1>8. CASE a.type = "revert" /\ a.change \in Changes(T)
  <2> DEFINE m == [type |-> "edit", selector |-> selected, change |-> a.change,
                   form |-> NoForm]
  <2>1. queue' = Append(queue, m)
    <3>1. UndoEffect(tracker) = [type |-> "edit", change |-> a.change]
        BY <1>8 DEF UndoEffect, a
    <3> QED BY <1>3, <3>1 DEF Send
  <2>2. m \in Messages(T) /\ m.selector = selected /\ m.type = "edit" /\ m.change = a.change
      BY <1>2, <1>8 DEF Messages, NoForm
  <2> HIDE DEF m
  <2>3. queue' \in Seq(Messages(T))
      BY <1>2, <2>1, <2>2, AppendFacts
  <2>4. ASSUME ~merged' PROVE Reports(m, tracker.changes, tracker'.changes, T)
    <3>1. LinkedRevert(tracker'.changes, a, tracker.changes)
        BY <1>6, <1>8, <2>4 DEF Linked, LinkedApply, LinkedClear
    <3> QED BY <1>4, <2>2, <3>1 DEF Reports
  <2> QED BY <1>4, <1>5, <2>1, <2>2, <2>3, <2>4 DEF Clicking, Sent, T
<1>9. CASE a.type = "clear" /\ a.before \in Seq(Changes(T))
  <2> DEFINE m == [type |-> "clear", selector |-> selected, changes |-> a.before]
  <2>1. queue' = Append(queue, m)
    <3>1. UndoEffect(tracker) = [type |-> "clear", changes |-> a.before]
        BY <1>9 DEF UndoEffect, a
    <3> QED BY <1>3, <3>1 DEF Send
  <2>2. m \in Messages(T)
      BY <1>2, <1>9 DEF Messages
  <2> HIDE DEF m
  <2>3. queue' \in Seq(Messages(T))
      BY <1>2, <2>1, <2>2, AppendFacts
  <2> QED BY <1>3, <1>4, <1>5, <1>9, <2>3 DEF Clicking, Sent, T
<1> QED BY <1>4, <1>7, <1>8, <1>9, ActionKinds

\* Redo.
LEMMA ClickRedoStep ==
    ASSUME EditTypes, HistoryIsExact, ClickRedo
    PROVE  Clicking
<1> DEFINE T == EditTargets
           a == Last(tracker.redo)
<1>1. T' = T /\ merged' = merged
    BY DEF EditTargets, ClickRedo, elsewhereVars
<1>2. tracker \in Trackers(T) /\ queue \in Seq(Messages(T)) /\ selected \in Selectors
    BY DEF EditTypes
<1> HIDE DEF T
<1>3. /\ tracker.redo # <<>>
      /\ tracker' = TrackRedo(tracker) /\ Send(RedoEffect(tracker))
    BY DEF ClickRedo
<1>4. /\ tracker' \in Trackers(T) /\ tracker'.lastId = tracker.lastId
      /\ a \in Actions(T)
      /\ History(tracker, T) =>
            Linked(tracker.changes, a, tracker'.changes) /\ History(tracker', T)
    BY <1>2, <1>3, TrackRedoFacts
<1> HIDE DEF a
<1>5. HistoryIsExact'
    BY <1>1, <1>4 DEF HistoryIsExact, T
<1>6. ~merged' => Linked(tracker.changes, a, tracker'.changes)
    BY <1>1, <1>4 DEF HistoryIsExact, T
<1>7. CASE a.type = "apply" /\ a.change \in Changes(T)
  <2> DEFINE m == [type |-> "edit", selector |-> selected, change |-> a.change,
                   form |-> NoForm]
  <2>1. queue' = Append(queue, m)
    <3>1. RedoEffect(tracker) = [type |-> "edit", change |-> a.change]
        BY <1>7 DEF RedoEffect, a
    <3> QED BY <1>3, <3>1 DEF Send
  <2>2. m \in Messages(T) /\ m.selector = selected /\ m.type = "edit" /\ m.change = a.change
      BY <1>2, <1>7 DEF Messages, NoForm
  <2> HIDE DEF m
  <2>3. queue' \in Seq(Messages(T))
      BY <1>2, <2>1, <2>2, AppendFacts
  <2>4. ASSUME ~merged' PROVE Reports(m, tracker.changes, tracker'.changes, T)
    <3>1. LinkedApply(tracker.changes, a, tracker'.changes)
        BY <1>6, <1>7, <2>4 DEF Linked, LinkedRevert, LinkedClear
    <3> QED BY <1>4, <2>2, <3>1 DEF Reports
  <2> QED BY <1>4, <1>5, <2>1, <2>2, <2>3, <2>4 DEF Clicking, Sent, T
<1>8. CASE /\ a.type = "revert" /\ a.change \in Changes(T)
           /\ Indexes(tracker, a.change.id) # {}
  <2> DEFINE x == [a.change EXCEPT !.status = "reverted"]
             m == [type |-> "revert", selector |-> selected, change |-> x]
  <2>1. queue' = Append(queue, m)
    <3>1. RedoEffect(tracker) = [type |-> "revert", change |-> x]
        BY <1>8 DEF RedoEffect, a
    <3> HIDE DEF x
    <3> QED BY <1>3, <3>1 DEF Send
  <2>2. x = Reverted(a.change) /\ x \in Changes(T)
      BY <1>8, RevertedType DEF Reverted
  <2> HIDE DEF x
  <2>3. m \in Messages(T) /\ m.selector = selected /\ m.type = "revert" /\ m.change = x
      BY <1>2, <2>2 DEF Messages
  <2> HIDE DEF m
  <2>4. queue' \in Seq(Messages(T))
      BY <1>2, <2>1, <2>3, AppendFacts
  <2>5. ASSUME ~merged' PROVE Reports(m, tracker.changes, tracker'.changes, T)
    <3>1. LinkedRevert(tracker.changes, a, tracker'.changes)
        BY <1>6, <1>8, <2>5 DEF Linked, LinkedApply, LinkedClear
    <3> QED BY <1>4, <2>2, <2>3, <3>1 DEF Reports
  <2> QED BY <1>4, <1>5, <2>1, <2>3, <2>4, <2>5 DEF Clicking, Sent, T
<1>9. CASE /\ a.type = "revert" /\ a.change \in Changes(T)
           /\ Indexes(tracker, a.change.id) = {}
  <2>1. queue' = queue
    <3>1. RedoEffect(tracker) = NoEffect
        BY <1>9 DEF RedoEffect, a
    <3> QED BY <1>3, <3>1 DEF Send, NoEffect
  <2>2. ~merged' => FALSE
    <3>1. SUFFICES ASSUME LinkedRevert(tracker.changes, a, tracker'.changes) PROVE FALSE
        BY <1>6, <1>9 DEF Linked, LinkedApply, LinkedClear
    <3>2. PICK i \in DOMAIN tracker.changes : tracker.changes[i] = a.change
        BY <3>1 DEF LinkedRevert
    <3> QED BY <1>9, <3>2 DEF Indexes
  <2> QED BY <1>2, <1>4, <1>5, <2>1, <2>2 DEF Clicking, Sent, T
<1>10. CASE a.type = "clear" /\ a.before \in Seq(Changes(T))
  <2> DEFINE m == [type |-> "clear", selector |-> selected, changes |-> a.before]
  <2>1. queue' = Append(queue, m)
    <3>1. RedoEffect(tracker) = [type |-> "clear", changes |-> a.before]
        BY <1>10 DEF RedoEffect, a
    <3> QED BY <1>3, <3>1 DEF Send
  <2>2. m \in Messages(T) /\ m.selector = selected /\ m.type = "clear" /\ m.changes = a.before
      BY <1>2, <1>10 DEF Messages
  <2> HIDE DEF m
  <2>3. queue' \in Seq(Messages(T))
      BY <1>2, <2>1, <2>2, AppendFacts
  <2>4. ASSUME ~merged' PROVE Reports(m, tracker.changes, tracker'.changes, T)
    <3>1. LinkedClear(tracker.changes, a, tracker'.changes)
        BY <1>6, <1>10, <2>4 DEF Linked, LinkedApply, LinkedRevert
    <3>2. a.before = tracker.changes
        BY <3>1 DEF LinkedClear
    <3> QED BY <1>4, <2>2, <3>1, <3>2 DEF Reports
  <2> QED BY <1>4, <1>5, <2>1, <2>2, <2>3, <2>4 DEF Clicking, Sent, T
<1> QED BY <1>4, <1>7, <1>8, <1>9, <1>10, ActionKinds

\* The worker has nothing to fill in: the panel always tells an old value.
LEMMA WorkerKeepsChange ==
    ASSUME NEW T, NEW x \in Changes(T), NEW onPage
    PROVE  WorkerChange(x, onPage) = x /\ x.old = Empty
BY DEF WorkerChange, Changes, Empty, Undefined

\* Messages by their kinds.
LEMMA MessageKinds ==
    ASSUME NEW T, NEW m \in Messages(T)
    PROVE  /\ m.selector \in Selectors
           /\ \/ m.type = "edit" /\ m.change \in Changes(T) /\ m.form \in Nat
              \/ m.type = "revert" /\ m.change \in Changes(T)
              \/ m.type = "clear" /\ m.changes \in Seq(Changes(T))
BY DEF Messages

\* The worker takes a message: the form may get an answer.
LEMMA HandleMessageStep ==
    ASSUME EditTypes, HandleMessage
    PROVE  /\ IsMap(designs', Nat, Sending(EditTargets))
           /\ DOMAIN designs' = DOMAIN designs /\ FormsKept
           /\ queue' = Tail(queue) /\ queue' \in Seq(Messages(EditTargets))
           /\ Head(queue) \in Messages(EditTargets)
<1> DEFINE T == EditTargets
           m == Head(queue)
<1> HIDE DEF T
<1>1. IsMap(designs, Nat, Sending(T)) /\ queue \in Seq(Messages(T)) /\ queue # <<>>
    BY DEF EditTypes, HandleMessage, T
<1>2. queue' = Tail(queue)
    BY DEF HandleMessage
<1>3. m \in Messages(T) /\ queue' \in Seq(Messages(T))
    BY <1>1, <1>2, TailFacts
<1> HIDE DEF m
<1> DEFINE Goal == /\ IsMap(designs', Nat, Sending(T))
                   /\ DOMAIN designs' = DOMAIN designs /\ FormsKept
<1>4. ASSUME NEW answer \in {"failed", Empty}, Answer(m, answer) PROVE Goal
  <2>1. CASE m.form \in DOMAIN designs /\ designs' = [designs EXCEPT ![m.form].answer = answer]
    <3> DEFINE n == m.form
    <3>1. designs[n] \in Sending(T)
        BY <1>1, <2>1 DEF IsMap
    <3>2. /\ [designs[n] EXCEPT !.answer = answer] \in Sending(T)
          /\ [designs[n] EXCEPT !.answer = answer].selector = designs[n].selector
        BY <3>1 DEF Sending
    <3> HIDE DEF n
    <3>3. designs' = [designs EXCEPT ![n] = [designs[n] EXCEPT !.answer = answer]]
        BY <2>1 DEF n
    <3>4. n \in DOMAIN designs
        BY <2>1 DEF n
    <3>5. designs' \in [DOMAIN designs -> Sending(T)] /\ DOMAIN designs \subseteq Nat
        BY <1>1, <3>2, <3>3, <3>4 DEF IsMap
    <3>6. DOMAIN designs' = DOMAIN designs
        BY <3>5
    <3>7. FormsKept
        BY <3>2, <3>3, <3>4, <3>6 DEF FormsKept
    <3> QED BY <3>5, <3>6, <3>7 DEF IsMap
  <2>2. CASE designs' = designs
      BY <1>1, <2>2 DEF FormsKept
  <2>3. m.form \notin DOMAIN designs /\ designs' = [designs EXCEPT ![m.form].answer = answer]
            => designs' = designs
    <3> SUFFICES ASSUME m.form \notin DOMAIN designs,
                        designs' = [designs EXCEPT ![m.form].answer = answer]
                 PROVE  designs' = designs
        OBVIOUS
    <3>1. designs = [k \in DOMAIN designs |-> designs[k]]
        BY <1>1 DEF IsMap
    <3>2. designs' = [k \in DOMAIN designs |-> designs[k]]
        BY <3>1
    <3> QED BY <3>1, <3>2
  <2> QED BY <1>4, <2>1, <2>2, <2>3 DEF Answer
<1>6. UNCHANGED designs => Goal
    BY <1>1 DEF FormsKept
<1> HIDE DEF Goal
<1>5. Goal
  <2>1. CASE HandleEdit(m)
    <3>1. m.change \in Changes(T)
        BY <1>3, <2>1, MessageKinds DEF HandleEdit
    <3>2. \A v : WorkerChange(m.change, v) = m.change /\ m.change.old = Empty
        BY <3>1, WorkerKeepsChange
    <3>3. Answer(m, Empty) \/ Answer(m, "failed")
        BY <2>1, <3>2 DEF HandleEdit
    <3> QED BY <1>4, <3>3
  <2>2. CASE HandleRevert(m)
      BY <1>6, <2>2 DEF HandleRevert
  <2>3. CASE HandleClear(m)
      BY <1>6, <2>3 DEF HandleClear
  <2> QED BY <2>1, <2>2, <2>3 DEF HandleMessage, m
<1> QED BY <1>2, <1>3, <1>5 DEF Goal, T, m

\* The form is submitted.
LEMMA ClickApplyStep ==
    ASSUME EditTypes, HistoryIsExact, ClickApply
    PROVE  \E form \in FormMaps(EditTargets) :
              form # EmptyMap /\ SendField(clicks + 1, tracker, form, selected)
<1>1. PICK form \in Forms : SendField(clicks + 1, tracker, form, selected)
    BY DEF ClickApply
<1>2. form # EmptyMap /\ form \in FormMaps(EditTargets)
  <2>1. PICK S \in SUBSET Targets : form \in [S -> Values]
      BY DEF Forms
  <2>2. form # EmptyMap /\ ("text" \in scenario \/ "text" \notin S)
      BY <2>1 DEF Forms
  <2>3. S \in SUBSET EditTargets
      BY <2>2 DEF EditTargets
  <2> QED BY <2>1, <2>2, <2>3 DEF FormMaps
<1> QED BY <1>1, <1>2

\* The form goes on, or is done.
LEMMA ContinueApplyStep ==
    ASSUME EditTypes, NEW n \in DOMAIN designs, ContinueApply(n)
    PROVE  LET design == designs[n]
           IN  /\ n \in Nat
               /\ \/ /\ tracker' = tracker /\ UNCHANGED <<queue, merged>>
                     /\ IsMap(designs', Nat, Sending(EditTargets)) /\ FormsKept
                  \/ /\ design.form # EmptyMap /\ design.form \in FormMaps(EditTargets)
                     /\ design.selector \in Selectors
                     /\ SendField(n, tracker, design.form, design.selector)
<1> DEFINE T == EditTargets
           design == designs[n]
           t == IF design.answer = "failed" \/ design.awaiting.target \notin Styles THEN tracker
                ELSE SetOldValue(tracker, design.awaiting.id, design.answer)
<1> HIDE DEF T
<1>1. tracker \in Trackers(T) /\ IsMap(designs, Nat, Sending(T)) /\ T = EditTargets
    BY DEF EditTypes, T
<1>2. /\ n \in Nat /\ design \in Sending(T) /\ design.selector \in Selectors
      /\ design.form \in FormMaps(T) /\ design.answer \in {"failed", Empty}
  <2>1. n \in Nat /\ design \in Sending(T)
      BY <1>1 DEF IsMap
  <2>2. design.answer # Undefined
      BY DEF ContinueApply
  <2> QED BY <2>1, <2>2 DEF Sending
<1>3. t = tracker
  <2>1. SetOldValue(tracker, design.awaiting.id, Empty) = tracker
      BY <1>1, SetOldValueChangesNothing
  <2> QED BY <1>2, <2>1
<1>4. IF design.form = EmptyMap
      THEN tracker' = t /\ designs' = MapDelete(designs, n) /\ UNCHANGED <<queue, merged>>
      ELSE SendField(n, t, design.form, design.selector)
    BY DEF ContinueApply
<1>5. designs' = MapDelete(designs, n) => IsMap(designs', Nat, Sending(T)) /\ FormsKept
  <2> SUFFICES ASSUME designs' = MapDelete(designs, n)
               PROVE  IsMap(designs', Nat, Sending(T)) /\ FormsKept
      OBVIOUS
  <2>1. designs' = [k \in DOMAIN designs \ {n} |-> designs[k]]
      BY DEF MapDelete
  <2>2. IsMap(designs', Nat, Sending(T))
      BY <1>1, <2>1 DEF IsMap
  <2> QED BY <2>1, <2>2 DEF FormsKept
<1> HIDE DEF t
<1> QED BY <1>1, <1>2, <1>3, <1>4, <1>5

-------------------------------------------------------------------------------
(* Undo and redo are exact                                                 *)

EditInv == EditTypes /\ HistoryIsExact

\* At the start the tracker is empty.
LEMMA EditInit == Init => EditInv
<1> SUFFICES ASSUME Init PROVE EditInv
    OBVIOUS
<1>1. /\ tracker = NewTracker /\ selected \in Selectors /\ activeTab \in Tabs
      /\ designs = EmptyMap /\ queue = <<>> /\ merged = FALSE /\ clicks = 0
    BY DEF Init
<1>2. tracker \in Trackers(EditTargets)
    BY <1>1 DEF NewTracker, Trackers
<1>3. IsMap(designs, Nat, Sending(EditTargets))
    BY <1>1 DEF EmptyMap, IsMap
<1>4. EditTypes
  <2>1. queue \in Seq(Messages(EditTargets))
      BY <1>1
  <2>2. merged \in BOOLEAN
      BY <1>1
  <2> QED BY <1>1, <1>2, <1>3, <2>1, <2>2 DEF EditTypes
<1>5. History(tracker, EditTargets)
  <2> DEFINE T == EditTargets
  <2> HIDE DEF T
  <2>1. tracker.undo = <<>> /\ tracker.redo = <<>> /\ tracker.changes = <<>>
        /\ tracker.lastId = 0
      BY <1>1 DEF NewTracker
  <2>2. /\ <<>> \in Lists(T, 0) /\ Past(<<>>, <<>>, T, 0)
        /\ \A c \in Lists(T, 0) : Future(<<>>, c, T, 0)
      BY NothingTracked
  <2>3. History(tracker, T)
      BY <2>1, <2>2 DEF History
  <2> QED BY <2>3 DEF T
<1> QED BY <1>4, <1>5 DEF EditInv, HistoryIsExact

\* Every step keeps the types and the exactness of undo.
LEMMA EditStep == EditInv /\ [Next]_vars => EditInv'
<1> SUFFICES ASSUME EditTypes, HistoryIsExact, [Next]_vars PROVE EditTypes' /\ HistoryIsExact'
    BY DEF EditInv
<1> DEFINE T == EditTargets
<1>0. T' = T
  <2>1. scenario' = scenario
      BY DEF Next, vars, panelVars, ClickApply, ContinueApply, ClickRevert, ClickClear, ClickUndo,
             ClickRedo, HandleMessage, UpdateEnds, Reselect, SwitchTab, Reconnect, ReplaceElement,
             AgentPreviews, AgentClears, elsewhereVars
  <2> QED BY <2>1 DEF EditTargets
<1>1. /\ tracker \in Trackers(T) /\ selected \in Selectors /\ activeTab \in Tabs
      /\ IsMap(designs, Nat, Sending(T)) /\ clicks \in Nat
      /\ queue \in Seq(Messages(T)) /\ merged \in BOOLEAN
    BY DEF EditTypes
<1>c. clicks' = clicks \/ clicks' = clicks + 1
    BY DEF Next, vars, panelVars, ClickApply, ContinueApply, ClickRevert, ClickClear, ClickUndo,
           ClickRedo, HandleMessage, UpdateEnds, Reselect, SwitchTab, Reconnect, ReplaceElement,
           AgentPreviews, AgentClears, elsewhereVars, Clicked
<1> HIDE DEF T
<1>2. ASSUME /\ tracker' \in Trackers(T) /\ selected' \in Selectors /\ activeTab' \in Tabs
             /\ IsMap(designs', Nat, Sending(T))
             /\ queue' \in Seq(Messages(T)) /\ merged' \in BOOLEAN
      PROVE  EditTypes'
    BY <1>0, <1>1, <1>c, <1>2 DEF EditTypes, T
<1>3. ASSUME UNCHANGED <<tracker, merged>> PROVE HistoryIsExact'
    BY <1>0, <1>3 DEF HistoryIsExact, T
<1>4. ASSUME NEW form \in FormMaps(T), form # EmptyMap, NEW n \in Nat, NEW selector \in Selectors,
             SendField(n, tracker, form, selector), UNCHANGED <<scenario, selected, activeTab>>
      PROVE  EditTypes' /\ HistoryIsExact'
  <2>1. /\ tracker' \in Trackers(T) /\ IsMap(designs', Nat, Sending(T))
        /\ merged' \in BOOLEAN /\ HistoryIsExact' /\ Sent(selector)
      BY <1>4, SendFieldStep DEF T
  <2>2. queue' \in Seq(Messages(T))
      BY <2>1 DEF Sent, T
  <2> QED BY <1>1, <1>2, <1>4, <2>1, <2>2
<1>5. ASSUME Clicking, UNCHANGED <<selected, activeTab, designs, merged>>
      PROVE  EditTypes' /\ HistoryIsExact'
  <2>1. tracker' \in Trackers(T) /\ HistoryIsExact' /\ queue' \in Seq(Messages(T))
      BY <1>5 DEF Clicking, Sent, T
  <2> QED BY <1>1, <1>2, <1>5, <2>1
<1>6. CASE ClickApply
  <2>1. PICK form \in FormMaps(T) :
            form # EmptyMap /\ SendField(clicks + 1, tracker, form, selected)
      BY <1>6, ClickApplyStep DEF T
  <2>2. UNCHANGED <<scenario, selected, activeTab>>
      BY <1>6 DEF ClickApply
  <2>3. clicks + 1 \in Nat
      BY <1>1
  <2> QED BY <1>1, <1>4, <2>1, <2>2, <2>3
<1>7. CASE \E n \in DOMAIN designs : ContinueApply(n)
  <2>1. PICK n \in DOMAIN designs : ContinueApply(n)
      BY <1>7
  <2>2. UNCHANGED <<scenario, selected, activeTab>>
      BY <2>1 DEF ContinueApply
  <2> DEFINE design == designs[n]
  <2>3. /\ n \in Nat
        /\ \/ /\ tracker' = tracker /\ UNCHANGED <<queue, merged>>
              /\ IsMap(designs', Nat, Sending(T)) /\ FormsKept
           \/ /\ design.form # EmptyMap /\ design.form \in FormMaps(T)
              /\ design.selector \in Selectors
              /\ SendField(n, tracker, design.form, design.selector)
      BY <2>1, ContinueApplyStep DEF T
  <2> HIDE DEF design
  <2>4. CASE /\ tracker' = tracker /\ UNCHANGED <<queue, merged>>
             /\ IsMap(designs', Nat, Sending(T))
      BY <1>1, <1>2, <1>3, <2>2, <2>4
  <2>5. CASE /\ design.form # EmptyMap /\ design.form \in FormMaps(T)
             /\ design.selector \in Selectors
             /\ SendField(n, tracker, design.form, design.selector)
      BY <1>4, <2>2, <2>3, <2>5
  <2> QED BY <2>3, <2>4, <2>5
<1>8. CASE \E id \in 1 .. tracker.lastId : ClickRevert(id)
  <2>1. PICK id \in 1 .. tracker.lastId : ClickRevert(id)
      BY <1>8
  <2>2. UNCHANGED <<selected, activeTab, designs, merged>>
      BY <2>1 DEF ClickRevert, elsewhereVars
  <2>3. Clicking
      BY <2>1, ClickRevertStep
  <2> QED BY <1>5, <2>2, <2>3
<1>9. CASE ClickClear
  <2>1. UNCHANGED <<selected, activeTab, designs, merged>>
      BY <1>9 DEF ClickClear, elsewhereVars
  <2> QED BY <1>5, <1>9, <2>1, ClickClearStep
<1>10. CASE ClickUndo
  <2>1. UNCHANGED <<selected, activeTab, designs, merged>>
      BY <1>10 DEF ClickUndo, elsewhereVars
  <2> QED BY <1>5, <1>10, <2>1, ClickUndoStep
<1>11. CASE ClickRedo
  <2>1. UNCHANGED <<selected, activeTab, designs, merged>>
      BY <1>11 DEF ClickRedo, elsewhereVars
  <2> QED BY <1>5, <1>11, <2>1, ClickRedoStep
<1>12. CASE HandleMessage
  <2>1. UNCHANGED <<tracker, selected, activeTab, merged>>
      BY <1>12 DEF HandleMessage
  <2>2. IsMap(designs', Nat, Sending(T)) /\ queue' \in Seq(Messages(T))
      BY <1>12, HandleMessageStep DEF T
  <2> QED BY <1>1, <1>2, <1>3, <2>1, <2>2
<1>13. CASE \/ \E i \in DOMAIN updates : UpdateEnds(i)
            \/ Reselect \/ SwitchTab \/ Reconnect
            \/ \E tab \in Tabs, selector \in Selectors : ReplaceElement(tab, selector)
            \/ \E selection \in Selections : AgentPreviews(selection)
            \/ AgentClears \/ UNCHANGED vars
  <2>1. UNCHANGED <<tracker, designs, queue, merged>>
        /\ selected' \in Selectors /\ activeTab' \in Tabs
      BY <1>1, <1>13 DEF UpdateEnds, Reselect, SwitchTab, Reconnect, ReplaceElement, AgentPreviews,
                         AgentClears, panelVars, vars
  <2> QED BY <1>1, <1>2, <1>3, <2>1
<1> QED BY <1>6, <1>7, <1>8, <1>9, <1>10, <1>11, <1>12, <1>13 DEF Next

\* Throughout, what the panel keeps and sends is well formed, and the tracker can undo
\* and redo all that it has on its stacks.
THEOREM EditInvariant == Spec => []EditInv
BY EditInit, EditStep, PTL DEF Spec

\* Undo and redo are exact: as long as no edit met a pending change of its target, the list
\* is what the actions that are not undone add up to (change-tracker.ts: undo, redo).
THEOREM UndoIsExact == Spec => []HistoryReplays
<1>1. EditInv => HistoryReplays
  <2> SUFFICES ASSUME EditInv, ~merged PROVE tracker.changes = Replayed(tracker.undo)
      BY DEF HistoryReplays
  <2>1. tracker.undo \in Seq(Actions(EditTargets))
      BY DEF EditInv, EditTypes, Trackers
  <2>2. Past(tracker.undo, tracker.changes, EditTargets, tracker.lastId)
      BY DEF EditInv, HistoryIsExact, History
  <2> QED BY <2>1, <2>2, PastReplayed
<1> QED BY <1>1, EditInvariant, PTL

\* A target has one pending change at most, whatever is undone and redone, as long as no
\* edit met a pending one (change-tracker.ts: undo, redo).
THEOREM OnePendingPerTarget == Spec => []OnePendingChange
<1>1. EditInv => OnePendingChange
  <2> SUFFICES ASSUME EditInv, ~merged, NEW target \in Targets,
                      NEW i \in PendingAt(tracker.changes, target),
                      NEW j \in PendingAt(tracker.changes, target)
               PROVE  i = j
      BY DEF OnePendingChange
  <2>1. tracker \in Trackers(EditTargets) /\ History(tracker, EditTargets)
      BY DEF EditInv, EditTypes, HistoryIsExact
  <2>2. tracker.changes \in Lists(EditTargets, tracker.lastId)
      BY <2>1, HistoryHasList
  <2>3. target \in EditTargets
    <3>1. i \in DOMAIN tracker.changes /\ tracker.changes[i].target = target
        BY DEF PendingAt
    <3> QED BY <2>2, <3>1, ListElements
  <2> QED BY <2>2, <2>3 DEF Lists
<1> QED BY <1>1, EditInvariant, PTL

-------------------------------------------------------------------------------
(* What the last message says                                              *)

NoneIn(q, M) == \A k \in DOMAIN q : q[k] \notin M

\* The last element of q in M is in G.
LastIn(q, M, G) ==
    \A k \in DOMAIN q :
        q[k] \in M /\ (\A j \in DOMAIN q : q[j] \in M => j <= k) => q[k] \in G

\* An element of M that is sent now is the last one.
LEMMA SentDecides ==
    ASSUME NEW S, NEW q \in Seq(S), NEW m \in S, NEW M, m \in M
    PROVE  /\ ~NoneIn(Append(q, m), M)
           /\ \A G : m \in G => LastIn(Append(q, m), M, G)
<1> DEFINE c == Append(q, m)
           last == Len(q) + 1
<1>1. /\ Len(q) \in Nat /\ DOMAIN c = 1 .. last /\ c[last] = m /\ last \in DOMAIN c
    BY AppendFacts
<1> HIDE DEF c
<1>2. ~NoneIn(c, M)
    BY <1>1 DEF NoneIn
<1>3. ASSUME NEW G, m \in G PROVE LastIn(c, M, G)
  <2>1. SUFFICES ASSUME NEW k \in DOMAIN c, \A j \in DOMAIN c : c[j] \in M => j <= k
                 PROVE  c[k] \in G
      BY DEF LastIn
  <2>2. last <= k
      BY <1>1, <2>1
  <2>3. k = last
      BY <1>1, <2>2
  <2> QED BY <1>1, <1>3, <2>3
<1> QED BY <1>2, <1>3 DEF c

\* An element that is not in M decides nothing.
LEMMA SentKeeps ==
    ASSUME NEW S, NEW q \in Seq(S), NEW m \in S, NEW M, m \notin M
    PROVE  /\ NoneIn(Append(q, m), M) => NoneIn(q, M)
           /\ \A G, H : LastIn(q, M, G) /\ (\A e \in S : e \in G => e \in H)
                           => LastIn(Append(q, m), M, H)
<1> DEFINE c == Append(q, m)
           last == Len(q) + 1
<1>1. /\ Len(q) \in Nat /\ DOMAIN q = 1 .. Len(q) /\ DOMAIN c = 1 .. last /\ c[last] = m
      /\ \A i \in 1 .. Len(q) : c[i] = q[i]
      /\ \A i \in 1 .. Len(q) : q[i] \in S
    BY AppendFacts, ElementOfSeq
<1> HIDE DEF c
<1>2. NoneIn(c, M) => NoneIn(q, M)
    BY <1>1 DEF NoneIn
<1>3. ASSUME NEW G, NEW H, LastIn(q, M, G), \A e \in S : e \in G => e \in H
      PROVE  LastIn(c, M, H)
  <2>1. SUFFICES ASSUME NEW k \in DOMAIN c, c[k] \in M,
                        \A j \in DOMAIN c : c[j] \in M => j <= k
                 PROVE  c[k] \in H
      BY DEF LastIn
  <2>2. k # last
      BY <1>1, <2>1
  <2>3. k \in DOMAIN q /\ q[k] = c[k]
      BY <1>1, <2>2
  <2>4. \A j \in DOMAIN q : q[j] \in M => j <= k
      BY <1>1, <2>1
  <2>5. q[k] \in G
      BY <1>3, <2>1, <2>3, <2>4 DEF LastIn
  <2> QED BY <1>1, <1>3, <2>3, <2>5
<1> QED BY <1>2, <1>3 DEF c

\* The first element decides when it is the last one of M.
LEMMA TakenDecides ==
    ASSUME NEW S, NEW q \in Seq(S), q # <<>>, NEW M, NEW G, LastIn(q, M, G)
    PROVE  /\ LastIn(Tail(q), M, G)
           /\ NoneIn(Tail(q), M) /\ Head(q) \in M => Head(q) \in G
           /\ NoneIn(Tail(q), M) /\ Head(q) \notin M => NoneIn(q, M)
<1> DEFINE t == Tail(q)
<1>1. /\ Len(q) \in Nat \ {0} /\ DOMAIN q = 1 .. Len(q) /\ Head(q) = q[1]
      /\ t \in Seq(S) /\ Len(t) = Len(q) - 1
      /\ \A i \in 1 .. (Len(q) - 1) : t[i] = q[i + 1]
    BY TailFacts
<1> HIDE DEF t
<1>2. DOMAIN t = 1 .. (Len(q) - 1)
    BY <1>1, LenProperties
<1>3. ASSUME NEW k \in DOMAIN q, k # 1 PROVE k - 1 \in DOMAIN t /\ t[k - 1] = q[k]
  <2>1. k - 1 \in 1 .. (Len(q) - 1) /\ (k - 1) + 1 = k
      BY <1>1, <1>3
  <2> QED BY <1>1, <1>2, <2>1
<1>4. LastIn(t, M, G)
  <2>1. SUFFICES ASSUME NEW k \in DOMAIN t, t[k] \in M,
                        \A j \in DOMAIN t : t[j] \in M => j <= k
                 PROVE  t[k] \in G
      BY DEF LastIn
  <2>2. k + 1 \in DOMAIN q /\ q[k + 1] = t[k] /\ k \in Nat
      BY <1>1, <1>2
  <2>3. ASSUME NEW j \in DOMAIN q, q[j] \in M PROVE j <= k + 1
    <3>1. CASE j = 1
        BY <2>2, <3>1
    <3>2. CASE j # 1
      <4>1. j - 1 \in DOMAIN t /\ t[j - 1] = q[j]
          BY <1>3, <3>2
      <4>2. j - 1 <= k
          BY <2>1, <2>3, <4>1
      <4> QED BY <1>1, <2>2, <4>2
    <3> QED BY <3>1, <3>2
  <2> QED BY <2>1, <2>2, <2>3 DEF LastIn
<1>5. ASSUME NoneIn(t, M) PROVE \A k \in DOMAIN q : q[k] \in M => k = 1
    BY <1>3, <1>5 DEF NoneIn
<1>6. ASSUME NoneIn(t, M), Head(q) \in M PROVE Head(q) \in G
  <2>1. 1 \in DOMAIN q /\ \A j \in DOMAIN q : q[j] \in M => j <= 1
      BY <1>1, <1>5, <1>6
  <2> QED BY <1>1, <1>6, <2>1 DEF LastIn
<1>7. ASSUME NoneIn(t, M), Head(q) \notin M PROVE NoneIn(q, M)
    BY <1>1, <1>5, <1>7 DEF NoneIn
<1> QED BY <1>4, <1>6, <1>7 DEF t

-------------------------------------------------------------------------------
(* What the page has to show of a list                                     *)

Shows(l, s, value) ==
    IF PendingAt(l, s) = {} THEN value = Empty
    ELSE \E i \in PendingAt(l, s) : value = l[i].new

\* The messages that write a style, and those of them that write what a list shows.
Touching(s, T) ==
    {m \in Messages(T) : \/ m.type \in {"edit", "revert"} /\ m.change.target = s
                         \/ m.type = "clear" /\ PendingAt(m.changes, s) # {}}

Showing(s, T, l) ==
    {m \in Messages(T) : \/ m.type = "edit" /\ Shows(l, s, m.change.new)
                         \/ m.type \in {"revert", "clear"} /\ Shows(l, s, Empty)}

\* The pending changes of all targets but one are the same.
SamePending(b, c, target) ==
    \A s : s # target =>
        /\ PendingAt(b, s) = PendingAt(c, s)
        /\ \A i \in PendingAt(b, s) : b[i].new = c[i].new

\* An edit makes its change the pending one.
LEMMA ApplyPending ==
    ASSUME NEW T, NEW n, NEW b \in Lists(T, n), NEW a \in Actions(T), NEW c,
           LinkedApply(b, a, c)
    PROVE  /\ PendingAt(b, a.change.target) = {}
           /\ \E i \in PendingAt(c, a.change.target) : c[i].new = a.change.new
           /\ SamePending(b, c, a.change.target) /\ SamePending(c, b, a.change.target)
<1> DEFINE x == a.change
           last == Len(b) + 1
<1>1. /\ x \in Changes(T) /\ x.status = "pending" /\ c = Append(b, x)
      /\ PendingAt(b, x.target) = {}
    BY DEF LinkedApply, Actions
<1> HIDE DEF x
<1>2. /\ Len(b) \in Nat /\ DOMAIN b = 1 .. Len(b) /\ DOMAIN c = 1 .. last
      /\ \A i \in 1 .. Len(b) : c[i] = b[i]
      /\ c[last] = x
    BY <1>1, AppendFacts, ListElements
<1>3. last \in PendingAt(c, x.target) /\ c[last].new = x.new
    BY <1>1, <1>2 DEF PendingAt
<1>4. ASSUME NEW s, s # x.target
      PROVE  /\ PendingAt(b, s) = PendingAt(c, s)
             /\ \A i \in PendingAt(b, s) : b[i] = c[i]
  <2>1. last \notin PendingAt(c, s)
      BY <1>2, <1>4 DEF PendingAt
  <2>2. DOMAIN c = DOMAIN b \cup {last} /\ last \notin DOMAIN b
      BY <1>2
  <2> QED BY <1>2, <2>1, <2>2 DEF PendingAt
<1> QED BY <1>1, <1>3, <1>4 DEF SamePending, x

\* A revert leaves no change of the target pending.
LEMMA RevertPending ==
    ASSUME NEW T, NEW n, NEW b \in Lists(T, n), NEW a \in Actions(T), NEW c,
           LinkedRevert(b, a, c)
    PROVE  /\ PendingAt(c, a.change.target) = {}
           /\ \E i \in PendingAt(b, a.change.target) : b[i].new = a.change.new
           /\ SamePending(b, c, a.change.target) /\ SamePending(c, b, a.change.target)
<1> DEFINE x == a.change
<1>1. x \in Changes(T) /\ x.status = "pending"
    BY DEF LinkedRevert, Actions
<1>2. PICK p \in DOMAIN b : b[p] = x /\ c = [b EXCEPT ![p] = Reverted(x)]
    BY DEF LinkedRevert
<1> HIDE DEF x
<1>3. Reverted(x).target = x.target /\ Reverted(x).status = "reverted"
    BY <1>1, RevertedType
<1>4. /\ DOMAIN c = DOMAIN b /\ c[p] = Reverted(x)
      /\ \A i \in DOMAIN b : i # p => c[i] = b[i]
  <2>1. b \in [DOMAIN b -> Changes(T)]
      BY ListElements, LenProperties
  <2> QED BY <1>2, <2>1
<1>5. p \in PendingAt(b, x.target) /\ b[p].new = x.new
    BY <1>1, <1>2 DEF PendingAt
<1>6. PendingAt(c, x.target) = {}
  <2>1. SUFFICES ASSUME NEW i \in PendingAt(c, x.target) PROVE FALSE
      OBVIOUS
  <2>2. i \in DOMAIN b /\ i # p /\ i \in PendingAt(b, x.target)
      BY <1>3, <1>4, <2>1 DEF PendingAt
  <2>3. x.target \in T
      BY <1>1 DEF Changes
  <2> QED BY <1>5, <2>2, <2>3 DEF Lists
<1>7. ASSUME NEW s, s # x.target
      PROVE  /\ PendingAt(b, s) = PendingAt(c, s)
             /\ \A i \in PendingAt(b, s) : b[i] = c[i]
  <2>1. p \notin PendingAt(b, s) /\ p \notin PendingAt(c, s)
      BY <1>2, <1>3, <1>4, <1>7 DEF PendingAt
  <2> QED BY <1>4, <2>1 DEF PendingAt
<1> QED BY <1>5, <1>6, <1>7 DEF SamePending, x

\* What is shown of a target is the same when its pending changes are.
LEMMA SameShown ==
    ASSUME NEW b, NEW c, NEW target, SamePending(b, c, target)
    PROVE  \A s, value : s # target /\ Shows(b, s, value) => Shows(c, s, value)
BY DEF SamePending, Shows

\* A message of the panel writes what the new list shows, or the list shows the same.
LEMMA ReportsShown ==
    ASSUME NEW T, NEW n, NEW b \in Lists(T, n), NEW k, NEW c \in Lists(T, k),
           NEW m \in Messages(T), Reports(m, b, c, T), NEW s
    PROVE  /\ m \in Touching(s, T) => m \in Showing(s, T, c)
           /\ m \notin Touching(s, T) => \A value : Shows(b, s, value) => Shows(c, s, value)
<1> PICK a \in Actions(T) :
        \/ /\ m.type = "edit" /\ m.change = a.change
           /\ LinkedApply(b, a, c) \/ LinkedRevert(c, a, b)
        \/ /\ m.type = "revert" /\ m.change = Reverted(a.change)
           /\ LinkedRevert(b, a, c) \/ LinkedApply(c, a, b)
        \/ m.type = "clear" /\ m.changes = b /\ LinkedClear(b, a, c)
    BY DEF Reports
<1>1. CASE /\ m.type = "edit" /\ m.change = a.change
           /\ LinkedApply(b, a, c) \/ LinkedRevert(c, a, b)
  <2>1. /\ \E i \in PendingAt(c, a.change.target) : c[i].new = a.change.new
        /\ SamePending(b, c, a.change.target)
      BY <1>1, ApplyPending, RevertPending
  <2>2. m \in Touching(s, T) <=> s = a.change.target
      BY <1>1 DEF Touching
  <2>3. Shows(c, a.change.target, a.change.new)
      BY <2>1 DEF Shows
  <2> QED BY <1>1, <2>1, <2>2, <2>3, SameShown DEF Showing
<1>2. CASE /\ m.type = "revert" /\ m.change = Reverted(a.change)
           /\ LinkedRevert(b, a, c) \/ LinkedApply(c, a, b)
  <2>1. PendingAt(c, a.change.target) = {} /\ SamePending(b, c, a.change.target)
      BY <1>2, ApplyPending, RevertPending
  <2>2. m.change.target = a.change.target
    <3>1. a.change \in Changes(T)
        BY <1>2 DEF LinkedRevert, LinkedApply, Actions
    <3> QED BY <1>2, <3>1, RevertedType
  <2>3. m \in Touching(s, T) <=> s = a.change.target
      BY <1>2, <2>2 DEF Touching
  <2>4. Shows(c, a.change.target, Empty)
      BY <2>1 DEF Shows
  <2> QED BY <1>2, <2>1, <2>3, <2>4, SameShown DEF Showing
<1>3. CASE m.type = "clear" /\ m.changes = b /\ LinkedClear(b, a, c)
  <2>1. PendingAt(c, s) = {}
      BY <1>3, ListWithAllReverted DEF LinkedClear
  <2>2. Shows(c, s, Empty)
      BY <2>1 DEF Shows
  <2>3. m \notin Touching(s, T) => PendingAt(b, s) = {}
      BY <1>3 DEF Touching
  <2> QED BY <1>3, <2>1, <2>2, <2>3 DEF Showing, Shows
<1> QED BY <1>1, <1>2, <1>3

-------------------------------------------------------------------------------
(* Writing the page                                                        *)

Elements == [Written -> PageValues]

Buckets ==
    [selection : Selections, tab : Tabs, selector : Selectors,
     previous : UNION {[S -> PageValues] : S \in SUBSET Styles}]

PageTypes ==
    /\ page \in [Tabs -> [Selectors -> Elements]]
    /\ overrides \in Seq(Buckets)
    /\ "agent" \notin scenario => overrides = <<>>
    /\ "gone" \notin scenario => missing = {}
    /\ "offline" \notin scenario => online = TRUE
    /\ "sourced" \notin scenario => updates = <<>>

\* One element gets new values.
LEMMA WriteElement ==
    ASSUME NEW values \in [Tabs -> [Selectors -> Elements]], NEW tab \in Tabs,
           NEW selector \in Selectors, NEW element \in Elements
    PROVE  LET after == [values EXCEPT ![tab][selector] = element]
           IN  /\ after \in [Tabs -> [Selectors -> Elements]]
               /\ after[tab][selector] = element
               /\ \A t \in Tabs, s \in Selectors :
                     <<t, s>> # <<tab, selector>> => after[t][s] = values[t][s]
<1>1. values[tab] \in [Selectors -> Elements]
    OBVIOUS
<1> HIDE DEF Elements
<1>2. [values[tab] EXCEPT ![selector] = element] \in [Selectors -> Elements]
    BY <1>1
<1> DEFINE after == [values EXCEPT ![tab][selector] = element]
<1>3. after = [values EXCEPT ![tab] = [values[tab] EXCEPT ![selector] = element]]
    OBVIOUS
<1>4. after \in [Tabs -> [Selectors -> Elements]]
    BY <1>2, <1>3
<1>5. after[tab][selector] = element
    BY <1>1, <1>3
<1>6. ASSUME NEW t \in Tabs, NEW s \in Selectors, <<t, s>> # <<tab, selector>>
      PROVE  after[t][s] = values[t][s]
  <2>1. CASE t # tab
      BY <1>3, <2>1
  <2>2. CASE t = tab /\ s # selector
    <3>1. after[t] = [values[tab] EXCEPT ![selector] = element]
        BY <1>3, <2>2
    <3> HIDE DEF after
    <3> QED BY <1>1, <2>2, <3>1
  <2> QED BY <1>6, <2>1, <2>2
<1> QED BY <1>4, <1>5, <1>6

\* The page gets a value of the user's edits.
LEMMA WriteUserValueEffect ==
    ASSUME PageTypes, NEW tab \in Tabs, NEW selector \in Selectors, NEW target \in Written,
           NEW value \in PageValues, WriteUserValue(tab, selector, target, value)
    PROVE  /\ page' \in [Tabs -> [Selectors -> Elements]]
           /\ Found(tab, selector) =>
                 /\ page'[tab][selector][target] = value
                 /\ \A s \in Written : s # target => page'[tab][selector][s] = page[tab][selector][s]
           /\ UNCHANGED <<missing, overrides>>
<1>1. page \in [Tabs -> [Selectors -> Elements]] /\ page[tab][selector] \in [Written -> PageValues]
    BY DEF PageTypes, Elements
<1>2. UNCHANGED <<missing, overrides>>
    BY DEF WriteUserValue
<1>3. CASE Found(tab, selector)
  <2> DEFINE element == [page[tab][selector] EXCEPT ![target] = value]
  <2>1. element \in Elements
      BY <1>1 DEF Elements
  <2>2. page' = [page EXCEPT ![tab][selector] = element]
    <3>1. page' = [page EXCEPT ![tab][selector][target] = value]
        BY <1>3 DEF WriteUserValue
    <3> QED BY <3>1
  <2>3. /\ element[target] = value
        /\ \A s \in Written : s # target => element[s] = page[tab][selector][s]
      BY <1>1
  <2> HIDE DEF element
  <2>4. page' \in [Tabs -> [Selectors -> Elements]] /\ page'[tab][selector] = element
      BY <1>1, <2>1, <2>2, WriteElement
  <2> QED BY <1>2, <2>3, <2>4
<1>4. CASE ~Found(tab, selector)
    BY <1>1, <1>2, <1>4 DEF WriteUserValue
<1> QED BY <1>3, <1>4

\* Clear all takes back what is pending.
LEMMA ClearUserValuesEffect ==
    ASSUME PageTypes, NEW tab \in Tabs, NEW selector \in Selectors, NEW T,
           NEW changes \in Seq(Changes(T)), ClearUserValues(tab, selector, changes)
    PROVE  /\ page' \in [Tabs -> [Selectors -> Elements]]
           /\ Found(tab, selector) =>
                 \A s \in Written : page'[tab][selector][s] =
                    IF PendingAt(changes, s) = {} THEN page[tab][selector][s] ELSE Empty
           /\ UNCHANGED <<missing, overrides>>
<1>1. page \in [Tabs -> [Selectors -> Elements]] /\ page[tab][selector] \in [Written -> PageValues]
    BY DEF PageTypes, Elements
<1>2. UNCHANGED <<missing, overrides>>
    BY DEF ClearUserValues
<1> DEFINE first(s) == changes[Min(PendingAt(changes, s))].old
           last(s) == changes[Max(PendingAt(changes, s))].old
           element == [s \in Written |->
                         IF PendingAt(changes, s) = {} THEN page[tab][selector][s]
                         ELSE IF s = "text" THEN first(s) ELSE last(s)]
<1>3. ASSUME NEW s, PendingAt(changes, s) # {} PROVE first(s) = Empty /\ last(s) = Empty
  <2>1. /\ changes[Min(PendingAt(changes, s))] \in Changes(T)
        /\ changes[Max(PendingAt(changes, s))] \in Changes(T)
      BY <1>3, PendingPlaces
  <2>2. \A x \in Changes(T) : x.old = Empty
      BY DEF Changes
  <2> QED BY <2>1, <2>2
<1>4. CASE Found(tab, selector)
  <2>1. page' = [page EXCEPT ![tab][selector] = element]
      BY <1>4 DEF ClearUserValues
  <2> HIDE DEF first, last
  <2>2. \A s \in Written :
            element[s] = IF PendingAt(changes, s) = {} THEN page[tab][selector][s] ELSE Empty
      BY <1>3
  <2>3. element \in Elements
      BY <1>1, <2>2 DEF Elements, PageValues
  <2> HIDE DEF element
  <2>4. page' \in [Tabs -> [Selectors -> Elements]] /\ page'[tab][selector] = element
      BY <1>1, <2>1, <2>3, WriteElement
  <2> QED BY <1>2, <2>2, <2>4
<1>5. CASE ~Found(tab, selector)
    BY <1>1, <1>2, <1>5 DEF ClearUserValues
<1> QED BY <1>4, <1>5

\* The content script of the active tab answers, and finds the element.
Reached(selector) == Found(activeTab, selector) /\ "unreachable" \notin scenario

\* What a message does to the element it is for.
LEMMA HandleOnPage ==
    ASSUME EditTypes, PageTypes, HandleMessage
    PROVE  LET m == Head(queue)
               T == EditTargets
           IN  /\ page' \in [Tabs -> [Selectors -> Elements]]
               /\ UNCHANGED <<missing, overrides>>
               /\ "sourced" \notin scenario => UNCHANGED updates
               /\ Reached(m.selector) =>
                     \A s \in Styles :
                        /\ m \notin Touching(s, T) =>
                              page'[activeTab][m.selector][s] = page[activeTab][m.selector][s]
                        /\ \A l : m \in Touching(s, T) /\ m \in Showing(s, T, l) =>
                                     Shows(l, s, page'[activeTab][m.selector][s])
               /\ Reached(m.selector) /\ "text" \notin T =>
                     page'[activeTab][m.selector]["text"] = page[activeTab][m.selector]["text"]
<1> DEFINE m == Head(queue)
           T == EditTargets
           Was(s) == page[activeTab][m.selector][s]
           Is(s) == page'[activeTab][m.selector][s]
<1>1. T \subseteq Targets
    BY DEF EditTargets
<1> HIDE DEF T
<1>2. m \in Messages(T) /\ activeTab \in Tabs
    BY HandleMessageStep DEF EditTypes, T
<1>3. m.selector \in Selectors
    BY <1>2, MessageKinds
<1>4. HandleEdit(m) \/ HandleRevert(m) \/ HandleClear(m)
    BY DEF HandleMessage
<1>5. page \in [Tabs -> [Selectors -> Elements]]
    BY DEF PageTypes
<1> HIDE DEF m
<1>6. Styles \subseteq Written /\ "text" \in Written /\ "text" \notin Styles /\ "comment" \notin Styles
    BY StylesAssumption DEF Written
<1> DEFINE Goal ==
              /\ page' \in [Tabs -> [Selectors -> Elements]]
              /\ UNCHANGED <<missing, overrides>>
              /\ Reached(m.selector) =>
                    \A s \in Styles :
                       /\ m \notin Touching(s, T) => Is(s) = Was(s)
                       /\ \A l : m \in Touching(s, T) /\ m \in Showing(s, T, l) => Shows(l, s, Is(s))
              /\ Reached(m.selector) /\ "text" \notin T => Is("text") = Was("text")
<1>7. ASSUME NEW x \in Changes(T), NEW value \in PageValues, m.change = x,
             m.type \in {"edit", "revert"},
             m.type = "edit" => value = x.new,
             m.type = "revert" => value = Empty,
             \/ x.target = "comment" /\ UNCHANGED pageVars
             \/ /\ x.target # "comment"
                /\ WriteUserValue(activeTab, m.selector, x.target, value)
             \/ /\ ~Reached(m.selector) /\ UNCHANGED pageVars
      PROVE  Goal
  <2>1. x.target \in T /\ x.target \in Targets
      BY <1>1 DEF Changes
  <2>2. \A s : m \in Touching(s, T) <=> s = x.target
      BY <1>2, <1>7 DEF Touching
  <2>3. \A s, l : m \in Showing(s, T, l) => Shows(l, s, value)
      BY <1>7 DEF Showing
  <2>4. CASE x.target = "comment" /\ UNCHANGED pageVars
    <3>1. \A s \in Styles : m \notin Touching(s, T)
        BY <1>6, <2>2, <2>4
    <3> QED BY <1>5, <2>4, <3>1 DEF pageVars
  <2>5. CASE x.target # "comment" /\ WriteUserValue(activeTab, m.selector, x.target, value)
    <3>1. x.target \in Written
        BY <2>1, <2>5 DEF Targets, Written
    <3>2. /\ page' \in [Tabs -> [Selectors -> Elements]]
          /\ Found(activeTab, m.selector) =>
                /\ Is(x.target) = value
                /\ \A s \in Written : s # x.target => Is(s) = Was(s)
          /\ UNCHANGED <<missing, overrides>>
        BY <1>2, <1>3, <2>5, <3>1, WriteUserValueEffect
    <3> HIDE DEF Is, Was
    <3> QED BY <1>6, <2>1, <2>2, <2>3, <3>2 DEF Reached
  <2>6. CASE ~Reached(m.selector) /\ UNCHANGED pageVars
      BY <1>5, <2>6 DEF pageVars
  <2> QED BY <1>7, <2>4, <2>5, <2>6
<1>8. ASSUME HandleEdit(m) PROVE Goal
  <2>1. m.type = "edit" /\ m.change \in Changes(T)
      BY <1>2, <1>8, MessageKinds DEF HandleEdit
  <2>2. m.change.new \in PageValues
      BY <2>1 DEF Changes, PageValues
  <2>3. \/ m.change.target = "comment" /\ UNCHANGED pageVars
        \/ /\ m.change.target # "comment"
           /\ WriteUserValue(activeTab, m.selector, m.change.target, m.change.new)
        \/ /\ ~Reached(m.selector) /\ UNCHANGED pageVars
      BY <1>8 DEF HandleEdit, Reached, Unreachable
  <2> QED BY <1>7, <2>1, <2>2, <2>3
<1>9. ASSUME HandleRevert(m) PROVE Goal
  <2>1. m.type = "revert" /\ m.change \in Changes(T)
      BY <1>2, <1>9, MessageKinds DEF HandleRevert
  <2>2. m.change.old = Empty /\ Empty \in PageValues
      BY <2>1 DEF Changes, PageValues
  <2>3. \/ m.change.target = "comment" /\ UNCHANGED pageVars
        \/ /\ m.change.target # "comment"
           /\ WriteUserValue(activeTab, m.selector, m.change.target, Empty)
        \/ /\ ~Reached(m.selector) /\ UNCHANGED pageVars
      BY <1>9, <2>2 DEF HandleRevert, Reached, Unreachable
  <2> QED BY <1>7, <2>1, <2>2, <2>3
<1>10. ASSUME HandleClear(m) PROVE Goal
  <2>1. m.type = "clear" /\ m.changes \in Seq(Changes(T))
      BY <1>2, <1>10, MessageKinds DEF HandleClear
  <2>a. CASE "unreachable" \in scenario /\ UNCHANGED pageVars
      BY <1>5, <2>a DEF Reached, pageVars
  <2>b. \/ "unreachable" \in scenario /\ UNCHANGED pageVars
        \/ ClearUserValues(activeTab, m.selector, m.changes)
      BY <1>10 DEF HandleClear, Unreachable
  <2>2. SUFFICES ASSUME ClearUserValues(activeTab, m.selector, m.changes) PROVE Goal
      BY <2>a, <2>b
  <2>3. /\ page' \in [Tabs -> [Selectors -> Elements]]
        /\ Found(activeTab, m.selector) =>
              \A s \in Written : Is(s) = IF PendingAt(m.changes, s) = {} THEN Was(s) ELSE Empty
        /\ UNCHANGED <<missing, overrides>>
      BY <1>2, <1>3, <2>1, <2>2, ClearUserValuesEffect
  <2>4. \A s : m \in Touching(s, T) <=> PendingAt(m.changes, s) # {}
      BY <1>2, <2>1 DEF Touching
  <2>5. \A s, l : m \in Showing(s, T, l) => Shows(l, s, Empty)
      BY <2>1 DEF Showing
  <2>6. "text" \notin T => PendingAt(m.changes, "text") = {}
    <3>1. \A i \in PendingAt(m.changes, "text") :
             m.changes[i] \in Changes(T) /\ m.changes[i].target = "text"
        BY <2>1, PendingPlaces
    <3>2. \A y \in Changes(T) : y.target \in T
        BY DEF Changes
    <3> QED BY <3>1, <3>2
  <2> HIDE DEF Is, Was
  <2> QED BY <1>6, <2>3, <2>4, <2>5, <2>6 DEF Reached
<1>11. Goal
    BY <1>4, <1>8, <1>9, <1>10
<1>12. "sourced" \notin scenario => UNCHANGED updates
  <2>1. \A selector, changes : "sourced" \notin scenario /\ Push(selector, changes) => UNCHANGED updates
      BY DEF Push
  <2> QED BY <1>4, <2>1 DEF HandleEdit, HandleRevert, HandleClear, Unreachable
<1> QED BY <1>11, <1>12 DEF m, T

-------------------------------------------------------------------------------
(* The agent's previews                                                    *)

Pages == [Tabs -> [Selectors -> Elements]]

Covers(bucket, tab, selector, target) ==
    bucket.tab = tab /\ bucket.selector = selector /\ target \in DOMAIN bucket.previous

\* The parts of a bucket.
LEMMA BucketFacts ==
    ASSUME NEW b \in Buckets
    PROVE  /\ b.selection \in Selections /\ b.tab \in Tabs /\ b.selector \in Selectors
           /\ DOMAIN b.previous \subseteq Styles
           /\ \A p \in DOMAIN b.previous : b.previous[p] \in PageValues
BY DEF Buckets

\* An element that is restored has the previous values of the bucket.
LEMMA RestoredFacts ==
    ASSUME NEW values \in Pages, NEW b \in Buckets
    PROVE  /\ Restored(values, b) \in Pages
           /\ \A tab \in Tabs, selector \in Selectors : \A target \in Written :
                 Restored(values, b)[tab][selector][target] =
                    IF Found(tab, selector) /\ Covers(b, tab, selector, target)
                    THEN b.previous[target] ELSE values[tab][selector][target]
<1> DEFINE after == Restored(values, b)
           element == [target \in Written |->
                         IF target \in DOMAIN b.previous THEN b.previous[target]
                         ELSE values[b.tab][b.selector][target]]
<1>1. /\ b.tab \in Tabs /\ b.selector \in Selectors /\ DOMAIN b.previous \subseteq Styles
      /\ \A p \in DOMAIN b.previous : b.previous[p] \in PageValues
    BY BucketFacts
<1>2. CASE Found(b.tab, b.selector)
  <2>1. \A tab \in Tabs, selector \in Selectors : values[tab][selector] \in [Written -> PageValues]
      BY DEF Pages, Elements
  <2>2. element \in Elements
      BY <1>1, <2>1 DEF Elements
  <2>3. after = [values EXCEPT ![b.tab][b.selector] = element]
      BY <1>2 DEF Restored
  <2>4. \A target \in Written :
            element[target] = IF target \in DOMAIN b.previous THEN b.previous[target]
                              ELSE values[b.tab][b.selector][target]
      OBVIOUS
  <2> HIDE DEF element, after
  <2>5. /\ after \in Pages
        /\ after[b.tab][b.selector] = element
        /\ \A t \in Tabs, s \in Selectors :
              <<t, s>> # <<b.tab, b.selector>> => after[t][s] = values[t][s]
      BY <1>1, <2>2, <2>3, WriteElement DEF Pages
  <2>6. ASSUME NEW tab \in Tabs, NEW selector \in Selectors, NEW target \in Written
        PROVE  after[tab][selector][target] =
                    IF Found(tab, selector) /\ Covers(b, tab, selector, target)
                    THEN b.previous[target] ELSE values[tab][selector][target]
    <3>1. CASE tab = b.tab /\ selector = b.selector
        BY <1>2, <2>4, <2>5, <3>1 DEF Covers
    <3>2. CASE ~(tab = b.tab /\ selector = b.selector)
      <4>1. after[tab][selector] = values[tab][selector]
          BY <2>5, <3>2
      <4> QED BY <3>2, <4>1 DEF Covers
    <3> QED BY <3>1, <3>2
  <2> QED BY <2>5, <2>6 DEF after
<1>3. CASE ~Found(b.tab, b.selector)
  <2>1. after = values
      BY <1>3 DEF Restored
  <2> QED BY <1>3, <2>1 DEF Covers
<1> QED BY <1>2, <1>3

\* Styles that are set on an element.
LEMMA OverriddenFacts ==
    ASSUME NEW values \in Pages, NEW tab \in Tabs, NEW selector \in Selectors
    PROVE  \A styles \in FormMaps(Styles) :
              LET after == Overridden(values, tab, selector, styles)
              IN  /\ after \in Pages
                  /\ \A t \in Tabs, s \in Selectors : \A target \in Written :
                        (t = tab /\ s = selector /\ target \in DOMAIN styles)
                           \/ after[t][s][target] = values[t][s][target]
<1> SUFFICES ASSUME NEW S \in SUBSET Styles, NEW styles \in [S -> Values]
             PROVE  LET after == Overridden(values, tab, selector, styles)
                    IN  /\ after \in Pages
                        /\ \A t \in Tabs, s \in Selectors : \A target \in Written :
                              (t = tab /\ s = selector /\ target \in DOMAIN styles)
                                 \/ after[t][s][target] = values[t][s][target]
    BY DEF FormMaps
<1> DEFINE after == Overridden(values, tab, selector, styles)
           element == [p \in Written |-> IF p \in DOMAIN styles THEN styles[p]
                                         ELSE values[tab][selector][p]]
<1>1. values[tab][selector] \in [Written -> PageValues] /\ DOMAIN styles = S
    BY DEF Pages, Elements
<1>2. element \in Elements
    BY <1>1 DEF Elements, PageValues
<1>3. after = [values EXCEPT ![tab][selector] = element]
    BY DEF Overridden
<1>4. \A target \in Written : target \notin S => element[target] = values[tab][selector][target]
    BY <1>1
<1> HIDE DEF element, after
<1>5. /\ after \in Pages
      /\ after[tab][selector] = element
      /\ \A t \in Tabs, s \in Selectors :
            <<t, s>> # <<tab, selector>> => after[t][s] = values[t][s]
    BY <1>2, <1>3, WriteElement DEF Pages
<1>6. ASSUME NEW t \in Tabs, NEW s \in Selectors, NEW target \in Written,
             ~(t = tab /\ s = selector /\ target \in S)
      PROVE  after[t][s][target] = values[t][s][target]
  <2>1. CASE t = tab /\ s = selector
      BY <1>4, <1>5, <1>6, <2>1
  <2>2. CASE ~(t = tab /\ s = selector)
    <3>1. after[t][s] = values[t][s]
        BY <1>5, <2>2
    <3> QED BY <3>1
  <2> QED BY <2>1, <2>2
<1> QED BY <1>5, <1>6 DEF after

\* Restoring all buckets is restoring one after the other: what the page and the number of
\* buckets restored have in common from the start, and keep, they have at the end.
LEMMA RestoreAllSteps ==
    ASSUME NEW values, NEW buckets, Len(buckets) \in Nat, NEW S, <<0, values>> \in S,
           \A k \in 0 .. (Len(buckets) - 1) : \A v :
              <<k, v>> \in S => <<k + 1, Restored(v, buckets[k + 1])>> \in S
    PROVE  <<Len(buckets), RestoreAll(values, buckets)>> \in S
<1> DEFINE m == Len(buckets)
           Is(f, n) == f = [k \in 0 .. n |->
                              IF k = 0 THEN values ELSE Restored(f[k - 1], buckets[k])]
           Possible == {n \in Nat : \E f : Is(f, n)}
<1>1. 0 \in Possible
  <2> DEFINE f == [k \in 0 .. 0 |-> values]
  <2>1. f = [k \in 0 .. 0 |-> IF k = 0 THEN values ELSE Restored(f[k - 1], buckets[k])]
      OBVIOUS
  <2> HIDE DEF f
  <2> QED BY <2>1
<1>2. ASSUME NEW n \in Nat, n \in Possible PROVE n + 1 \in Possible
  <2>1. PICK f : Is(f, n)
      BY <1>2
  <2> DEFINE g == [k \in 0 .. (n + 1) |-> IF k = n + 1 THEN Restored(f[n], buckets[n + 1]) ELSE f[k]]
  <2>2. \A k \in 0 .. n : f[k] = IF k = 0 THEN values ELSE Restored(f[k - 1], buckets[k])
      BY <2>1
  <2>3. ASSUME NEW k \in 0 .. (n + 1)
        PROVE  g[k] = IF k = 0 THEN values ELSE Restored(g[k - 1], buckets[k])
    <3>1. CASE k = n + 1
      <4>1. k # 0 /\ k - 1 = n /\ n \in 0 .. (n + 1) /\ n # n + 1
          BY <3>1
      <4>2. g[k] = Restored(f[n], buckets[n + 1]) /\ g[n] = f[n]
          BY <3>1, <4>1
      <4> HIDE DEF g
      <4> QED BY <3>1, <4>1, <4>2
    <3>2. CASE k # n + 1
      <4>1. k \in 0 .. n /\ g[k] = f[k]
          BY <3>2
      <4>2. k # 0 => k - 1 \in 0 .. (n + 1) /\ k - 1 # n + 1
          BY <3>2
      <4>3. k # 0 => g[k - 1] = f[k - 1]
          BY <4>2
      <4> HIDE DEF g
      <4> QED BY <2>2, <4>1, <4>3
    <3> QED BY <3>1, <3>2
  <2>4. g = [k \in 0 .. (n + 1) |-> g[k]]
      OBVIOUS
  <2> HIDE DEF g
  <2>5. Is(g, n + 1)
      BY <2>3, <2>4
  <2> QED BY <2>5
<1>3. m \in Possible
  <2> HIDE DEF Possible
  <2>1. Nat \subseteq Possible
      BY <1>1, <1>2, AllNumbers
  <2> QED BY <2>1
<1> DEFINE after == CHOOSE f : Is(f, m)
<1>4. Is(after, m)
  <2>1. \E f : Is(f, m)
      BY <1>3
  <2> HIDE DEF Is
  <2> QED BY <2>1
<1>5. RestoreAll(values, buckets) = after[m]
    BY DEF RestoreAll
<1> HIDE DEF after
<1>6. \A k \in 0 .. m : after[k] = IF k = 0 THEN values ELSE Restored(after[k - 1], buckets[k])
    BY <1>4
<1> DEFINE Done == {k \in Nat : k <= m => <<k, after[k]>> \in S}
<1>7. 0 \in Done
    BY <1>6
<1>8. ASSUME NEW k \in Nat, k \in Done PROVE k + 1 \in Done
  <2>1. SUFFICES ASSUME k + 1 <= m PROVE <<k + 1, after[k + 1]>> \in S
      OBVIOUS
  <2>2. k <= m /\ k \in 0 .. (m - 1) /\ k + 1 \in 0 .. m /\ k + 1 # 0 /\ (k + 1) - 1 = k
      BY <2>1
  <2>3. <<k, after[k]>> \in S
      BY <1>8, <2>2
  <2>4. after[k + 1] = Restored(after[k], buckets[k + 1])
      BY <1>6, <2>2
  <2> QED BY <2>2, <2>3, <2>4
<1> HIDE DEF Done
<1>9. m \in Done
  <2>1. Nat \subseteq Done
      BY <1>7, <1>8, AllNumbers
  <2> QED BY <2>1
<1> QED BY <1>5, <1>9 DEF Done

\* Every selection has a bucket of its own, for the tab it is on.
OwnBuckets(buckets) ==
    /\ \A i, j \in DOMAIN buckets : buckets[i].selection = buckets[j].selection => i = j
    /\ \A i \in DOMAIN buckets : buckets[i].tab = SelectionTab[buckets[i].selection]

\* What the buckets keep is what the page came with.
OriginalBuckets(buckets) ==
    \A i \in DOMAIN buckets : \A p \in DOMAIN buckets[i].previous :
        buckets[i].previous[p] = OriginalValue(p)

\* A value is what the page came with, or in a bucket.
OriginalElsewhere(values, buckets) ==
    \A tab \in Tabs, selector \in Selectors : Found(tab, selector) =>
        \A target \in Written :
            \/ values[tab][selector][target] = OriginalValue(target)
            \/ \E i \in DOMAIN buckets : Covers(buckets[i], tab, selector, target)

\* Buckets without one of them are the others.
LEMMA OtherBuckets ==
    ASSUME NEW buckets \in Seq(Buckets), NEW p \in DOMAIN buckets
    PROVE  LET others == RemoveAt(buckets, p)
           IN  /\ others \in Seq(Buckets)
               /\ \A i \in DOMAIN buckets : i # p => \E k \in DOMAIN others : others[k] = buckets[i]
               /\ \A k \in DOMAIN others : \E i \in DOMAIN buckets : i # p /\ others[k] = buckets[i]
               /\ OwnBuckets(buckets) => OwnBuckets(others)
               /\ OriginalBuckets(buckets) => OriginalBuckets(others)
<1> DEFINE others == RemoveAt(buckets, p)
           place(k) == IF k < p THEN k ELSE k + 1
<1>1. /\ Len(buckets) \in Nat \ {0} /\ others \in Seq(Buckets)
      /\ Len(others) = Len(buckets) - 1
      /\ \A k \in 1 .. (Len(buckets) - 1) :
            others[k] = IF k < p THEN buckets[k] ELSE buckets[k + 1]
    BY RemoveAtFacts
<1>2. DOMAIN buckets = 1 .. Len(buckets) /\ DOMAIN others = 1 .. (Len(buckets) - 1)
      /\ p \in Nat
    BY <1>1, LenProperties
<1>3. ASSUME NEW k \in DOMAIN others
      PROVE  place(k) \in DOMAIN buckets /\ place(k) # p /\ others[k] = buckets[place(k)]
    BY <1>1, <1>2
<1>4. ASSUME NEW k \in DOMAIN others, NEW j \in DOMAIN others, place(k) = place(j) PROVE k = j
    BY <1>2, <1>4
<1>5. ASSUME NEW i \in DOMAIN buckets, i # p
      PROVE  \E k \in DOMAIN others : others[k] = buckets[i]
  <2>1. CASE i < p
    <3>1. i \in DOMAIN others /\ i \in 1 .. (Len(buckets) - 1)
        BY <1>2, <2>1
    <3>2. others[i] = buckets[i]
        BY <1>1, <2>1, <3>1
    <3> QED BY <3>1, <3>2
  <2>2. CASE ~(i < p)
    <3>1. i - 1 \in DOMAIN others /\ i - 1 \in 1 .. (Len(buckets) - 1) /\ ~(i - 1 < p)
          /\ (i - 1) + 1 = i
        BY <1>1, <1>2, <1>5, <2>2
    <3>2. others[i - 1] = buckets[i]
        BY <1>1, <3>1
    <3> QED BY <3>1, <3>2
  <2> QED BY <2>1, <2>2
<1> HIDE DEF others, place
<1>6. \A k \in DOMAIN others : \E i \in DOMAIN buckets : i # p /\ others[k] = buckets[i]
    BY <1>3
<1>7. OwnBuckets(buckets) => OwnBuckets(others)
    BY <1>3, <1>4 DEF OwnBuckets
<1>8. OriginalBuckets(buckets) => OriginalBuckets(others)
    BY <1>3 DEF OriginalBuckets
<1> QED BY <1>1, <1>5, <1>6, <1>7, <1>8 DEF others

\* Restoring one bucket brings back what the page came with.
LEMMA RestoredIsOriginal ==
    ASSUME NEW values \in Pages, NEW buckets \in Seq(Buckets), NEW p \in DOMAIN buckets,
           OriginalBuckets(buckets), OriginalElsewhere(values, buckets)
    PROVE  OriginalElsewhere(Restored(values, buckets[p]), RemoveAt(buckets, p))
<1> DEFINE others == RemoveAt(buckets, p)
           after == Restored(values, buckets[p])
<1>1. \A i \in DOMAIN buckets : i # p => \E k \in DOMAIN others : others[k] = buckets[i]
    BY OtherBuckets
<1>2. buckets[p] \in Buckets
    BY LenProperties, ElementOfSeq
<1>3. \A tab \in Tabs, selector \in Selectors : \A target \in Written :
          after[tab][selector][target] =
             IF Found(tab, selector) /\ Covers(buckets[p], tab, selector, target)
             THEN buckets[p].previous[target] ELSE values[tab][selector][target]
    BY <1>2, RestoredFacts
<1> HIDE DEF others, after
<1>4. ASSUME NEW tab \in Tabs, NEW selector \in Selectors, Found(tab, selector),
             NEW target \in Written
      PROVE  \/ after[tab][selector][target] = OriginalValue(target)
             \/ \E k \in DOMAIN others : Covers(others[k], tab, selector, target)
  <2>1. CASE Covers(buckets[p], tab, selector, target)
    <3>1. after[tab][selector][target] = buckets[p].previous[target]
        BY <1>3, <1>4, <2>1
    <3>2. target \in DOMAIN buckets[p].previous
        BY <2>1 DEF Covers
    <3> QED BY <3>1, <3>2 DEF OriginalBuckets
  <2>2. CASE ~Covers(buckets[p], tab, selector, target)
    <3>1. after[tab][selector][target] = values[tab][selector][target]
        BY <1>3, <2>2
    <3>2. CASE values[tab][selector][target] = OriginalValue(target)
        BY <3>1, <3>2
    <3>3. CASE \E i \in DOMAIN buckets : Covers(buckets[i], tab, selector, target)
      <4>1. PICK i \in DOMAIN buckets : Covers(buckets[i], tab, selector, target)
          BY <3>3
      <4>2. i # p
          BY <2>2, <4>1
      <4> QED BY <1>1, <4>1, <4>2
    <3> QED BY <1>4, <3>2, <3>3 DEF OriginalElsewhere
  <2> QED BY <2>1, <2>2
<1> QED BY <1>4 DEF OriginalElsewhere, others, after

\* All the previews are taken back.
LEMMA RestoreAllFacts ==
    ASSUME NEW values \in Pages, NEW buckets \in Seq(Buckets)
    PROVE  /\ RestoreAll(values, buckets) \in Pages
           /\ OriginalBuckets(buckets) /\ OriginalElsewhere(values, buckets) =>
                 OriginalElsewhere(RestoreAll(values, buckets), <<>>)
<1> DEFINE m == Len(buckets)
           From(v, k) == \A tab \in Tabs, selector \in Selectors : Found(tab, selector) =>
                            \A target \in Written :
                               \/ v[tab][selector][target] = OriginalValue(target)
                               \/ \E i \in DOMAIN buckets :
                                     i > k /\ Covers(buckets[i], tab, selector, target)
           Keeps == OriginalBuckets(buckets) /\ OriginalElsewhere(values, buckets)
           S == {kv \in Nat \X Pages : Keeps => From(kv[2], kv[1])}
<1>1. m \in Nat /\ DOMAIN buckets = 1 .. m /\ \A i \in 1 .. m : buckets[i] \in Buckets
    BY LenProperties, ElementOfSeq
<1>2. <<0, values>> \in S
  <2>1. ASSUME Keeps PROVE From(values, 0)
    <3>1. \A i \in DOMAIN buckets : i > 0
        BY <1>1
    <3> QED BY <2>1, <3>1 DEF OriginalElsewhere
  <2> HIDE DEF From, Keeps
  <2> QED BY <2>1
<1>3. ASSUME NEW k \in 0 .. (m - 1), NEW v, <<k, v>> \in S
      PROVE  <<k + 1, Restored(v, buckets[k + 1])>> \in S
  <2> DEFINE b == buckets[k + 1]
             after == Restored(v, b)
  <2>1. v \in Pages /\ (Keeps => From(v, k))
    <3> HIDE DEF Keeps, From
    <3> QED BY <1>3
  <2>2. k + 1 \in DOMAIN buckets /\ b \in Buckets /\ k \in Nat /\ k + 1 \in Nat
      BY <1>1
  <2>3. /\ after \in Pages
        /\ \A tab \in Tabs, selector \in Selectors : \A target \in Written :
              after[tab][selector][target] =
                 IF Found(tab, selector) /\ Covers(b, tab, selector, target)
                 THEN b.previous[target] ELSE v[tab][selector][target]
    <3> HIDE DEF b
    <3> QED BY <2>1, <2>2, RestoredFacts
  <2> HIDE DEF after
  <2>4. ASSUME Keeps PROVE From(after, k + 1)
    <3>1. SUFFICES ASSUME NEW tab \in Tabs, NEW selector \in Selectors, Found(tab, selector),
                          NEW target \in Written
                   PROVE  \/ after[tab][selector][target] = OriginalValue(target)
                          \/ \E i \in DOMAIN buckets :
                                i > k + 1 /\ Covers(buckets[i], tab, selector, target)
        OBVIOUS
    <3>2. CASE Covers(b, tab, selector, target)
      <4>1. after[tab][selector][target] = b.previous[target] /\ target \in DOMAIN b.previous
          BY <2>3, <3>1, <3>2 DEF Covers
      <4> QED BY <2>2, <2>4, <4>1 DEF OriginalBuckets
    <3>3. CASE ~Covers(b, tab, selector, target)
      <4>1. after[tab][selector][target] = v[tab][selector][target]
          BY <2>3, <3>3
      <4>2. \/ v[tab][selector][target] = OriginalValue(target)
            \/ \E i \in DOMAIN buckets : i > k /\ Covers(buckets[i], tab, selector, target)
          BY <2>1, <2>4, <3>1
      <4>3. ASSUME NEW i \in DOMAIN buckets, i > k, Covers(buckets[i], tab, selector, target)
            PROVE  i > k + 1
        <5>1. i # k + 1
            BY <3>3, <4>3
        <5> QED BY <1>1, <2>2, <4>3, <5>1
      <4> QED BY <4>1, <4>2, <4>3
    <3> QED BY <3>2, <3>3
  <2> HIDE DEF From, Keeps
  <2>5. <<k + 1, after>> \in S
      BY <2>2, <2>3, <2>4
  <2> QED BY <2>5 DEF after
<1>4. <<m, RestoreAll(values, buckets)>> \in S
  <2> HIDE DEF S
  <2>1. \A k \in 0 .. (m - 1) : \A v :
            <<k, v>> \in S => <<k + 1, Restored(v, buckets[k + 1])>> \in S
      BY <1>3
  <2> QED BY <1>1, <1>2, <2>1, RestoreAllSteps
<1> DEFINE after == RestoreAll(values, buckets)
<1> HIDE DEF after
<1>5. after \in Pages /\ (Keeps => From(after, m))
  <2> HIDE DEF Keeps, From
  <2> QED BY <1>4 DEF after
<1>6. From(after, m) => OriginalElsewhere(after, <<>>)
  <2>1. \A i \in DOMAIN buckets : ~(i > m)
      BY <1>1
  <2> QED BY <2>1 DEF OriginalElsewhere
<1> HIDE DEF From
<1> QED BY <1>5, <1>6 DEF after

\* No selection but this one has a bucket for the element.
NotShared(selection, tab, selector) ==
    \A b \in Range(overrides) : <<b.tab, b.selector>> = <<tab, selector>> => b.selection = selection

\* The agent previews on an element its selection overrides already.
LEMMA ApplyMoreStep ==
    ASSUME PageTypes, OwnBuckets(overrides), NEW selection \in Selections,
           NEW selector \in Selectors, NEW styles \in FormMaps(Styles),
           Found(SelectionTab[selection], selector),
           ApplyMore(selection, SelectionTab[selection], selector, styles)
    PROVE  /\ page' \in Pages /\ overrides' \in Seq(Buckets) /\ OwnBuckets(overrides')
           /\ /\ NotShared(selection, SelectionTab[selection], selector)
              /\ OriginalBuckets(overrides) /\ OriginalElsewhere(page, overrides)
              => OriginalBuckets(overrides') /\ OriginalElsewhere(page', overrides')
<1> DEFINE tab == SelectionTab[selection]
           S == DOMAIN styles
<1>0. S \in SUBSET Styles /\ styles \in [S -> Values]
    BY DEF FormMaps
<1> HIDE DEF S
<1>1. tab \in Tabs
    BY PanelAssumption
<1> HIDE DEF tab
<1>2. PICK i \in BucketAt(selection) :
          LET previous == overrides[i].previous
          IN  /\ overrides[i].selector = selector
              /\ overrides' = [overrides EXCEPT ![i].previous =
                                 [p \in DOMAIN previous \cup DOMAIN styles |->
                                    IF p \in DOMAIN previous THEN previous[p]
                                    ELSE ValueOnPage(tab, selector, p)]]
              /\ page' = Overridden(page, tab, selector, styles)
    BY DEF ApplyMore, tab
<1> DEFINE old == overrides[i]
           previous == [p \in DOMAIN old.previous \cup S |->
                          IF p \in DOMAIN old.previous THEN old.previous[p]
                          ELSE page[tab][selector][p]]
           new == [old EXCEPT !.previous = previous]
<1>3. page \in Pages /\ overrides \in Seq(Buckets)
    BY DEF PageTypes, Pages
<1>4. /\ DOMAIN overrides = 1 .. Len(overrides) /\ i \in DOMAIN overrides
      /\ overrides \in [DOMAIN overrides -> Buckets]
      /\ old.selection = selection /\ old \in Buckets
    BY <1>2, <1>3, LenProperties, ElementOfSeq DEF BucketAt
<1>5. old.tab = tab /\ old.selector = selector
    BY <1>2, <1>4 DEF OwnBuckets, tab
<1>6. page[tab][selector] \in [Written -> PageValues] /\ Styles \subseteq Written
      /\ DOMAIN styles = S
    BY <1>0, <1>1, <1>3 DEF Pages, Elements, Written, S
<1>7. DOMAIN old.previous \subseteq Styles /\ \A p \in DOMAIN old.previous : old.previous[p] \in PageValues
    BY <1>4, BucketFacts
<1>8. overrides' = [overrides EXCEPT ![i] = new]
    BY <1>2, <1>4, <1>6 DEF ValueOnPage
<1>9. previous \in [DOMAIN old.previous \cup S -> PageValues] /\ DOMAIN old.previous \cup S \subseteq Styles
    BY <1>0, <1>6, <1>7
<1>10. /\ new \in Buckets
       /\ new.selection = selection /\ new.tab = tab /\ new.selector = selector
       /\ new.previous = previous
  <2> HIDE DEF previous
  <2>1. previous \in UNION {[R -> PageValues] : R \in SUBSET Styles}
      BY <1>9
  <2> HIDE DEF old
  <2> QED BY <1>4, <1>5, <2>1 DEF Buckets
<1>11. DOMAIN previous = DOMAIN old.previous \cup S
    OBVIOUS
<1> HIDE DEF new
<1>12. /\ overrides' \in Seq(Buckets) /\ DOMAIN overrides' = DOMAIN overrides
       /\ overrides'[i] = new
       /\ \A k \in DOMAIN overrides : k # i => overrides'[k] = overrides[k]
  <2>1. i \in 1 .. Len(overrides)
      BY <1>4
  <2>2. overrides' \in Seq(Buckets)
      BY <1>3, <1>8, <1>10, <2>1, ExceptSeq
  <2> QED BY <1>4, <1>8, <2>2
<1>13. /\ page' \in Pages
       /\ \A t \in Tabs, s \in Selectors : \A target \in Written :
             (t = tab /\ s = selector /\ target \in S) \/ page'[t][s][target] = page[t][s][target]
  <2> DEFINE after == Overridden(page, tab, selector, styles)
  <2>1. /\ after \in Pages
        /\ \A t \in Tabs, s \in Selectors : \A target \in Written :
              (t = tab /\ s = selector /\ target \in S) \/ after[t][s][target] = page[t][s][target]
      BY <1>1, <1>3, <1>6, OverriddenFacts
  <2>2. page' = after
      BY <1>1, <1>2, <1>3
  <2> HIDE DEF after
  <2> QED BY <2>1, <2>2
<1>14. OwnBuckets(overrides')
  <2>1. \A k \in DOMAIN overrides :
           overrides'[k].selection = overrides[k].selection /\ overrides'[k].tab = overrides[k].tab
      BY <1>4, <1>5, <1>10, <1>12
  <2> QED BY <1>12, <2>1 DEF OwnBuckets
<1>15. ASSUME NotShared(selection, tab, selector), OriginalBuckets(overrides),
              OriginalElsewhere(page, overrides)
       PROVE  OriginalBuckets(overrides') /\ OriginalElsewhere(page', overrides')
  <2>1. ASSUME NEW p \in S, p \notin DOMAIN old.previous
        PROVE  page[tab][selector][p] = OriginalValue(p)
    <3>1. SUFFICES ASSUME NEW k \in DOMAIN overrides, Covers(overrides[k], tab, selector, p)
                   PROVE  FALSE
        BY <1>0, <1>1, <1>6, <1>15 DEF OriginalElsewhere, tab
    <3>2. overrides[k] \in Range(overrides)
        BY DEF Range
    <3>3. overrides[k].selection = selection
        BY <1>15, <3>1, <3>2 DEF NotShared, Covers
    <3>4. k = i
        BY <1>4, <3>3 DEF OwnBuckets
    <3> QED BY <2>1, <3>1, <3>4 DEF Covers
  <2>2. \A p \in DOMAIN old.previous : old.previous[p] = OriginalValue(p)
      BY <1>4, <1>15 DEF OriginalBuckets
  <2>3. \A p \in DOMAIN previous : previous[p] = OriginalValue(p)
      BY <2>1, <2>2
  <2> HIDE DEF previous
  <2>4. OriginalBuckets(overrides')
      BY <1>10, <1>12, <1>15, <2>3 DEF OriginalBuckets
  <2>5. \A k \in DOMAIN overrides : \A t, s, target :
           Covers(overrides[k], t, s, target) => Covers(overrides'[k], t, s, target)
      BY <1>5, <1>10, <1>11, <1>12 DEF Covers
  <2>6. \A target \in S : Covers(overrides'[i], tab, selector, target)
      BY <1>10, <1>11, <1>12 DEF Covers
  <2>7. OriginalElsewhere(page', overrides')
    <3>1. SUFFICES ASSUME NEW t \in Tabs, NEW s \in Selectors, Found(t, s), NEW target \in Written
                   PROVE  \/ page'[t][s][target] = OriginalValue(target)
                          \/ \E k \in DOMAIN overrides' : Covers(overrides'[k], t, s, target)
        BY DEF OriginalElsewhere
    <3>2. CASE t = tab /\ s = selector /\ target \in S
        BY <1>4, <1>12, <2>6, <3>2
    <3>3. CASE page'[t][s][target] = page[t][s][target]
        BY <1>12, <1>15, <2>5, <3>1, <3>3 DEF OriginalElsewhere
    <3> QED BY <1>13, <3>2, <3>3
  <2> QED BY <2>4, <2>7
<1> QED BY <1>12, <1>13, <1>14, <1>15 DEF tab

\* The selection of the agent gets a bucket, in the place of one for another element.
LEMMA ApplyNewStep ==
    ASSUME PageTypes, OwnBuckets(overrides), NEW selection \in Selections,
           NEW selector \in Selectors, NEW styles \in FormMaps(Styles),
           Found(SelectionTab[selection], selector),
           ApplyNew(selection, SelectionTab[selection], selector, styles)
    PROVE  /\ page' \in Pages /\ overrides' \in Seq(Buckets) /\ OwnBuckets(overrides')
           /\ /\ NotShared(selection, SelectionTab[selection], selector)
              /\ OriginalBuckets(overrides) /\ OriginalElsewhere(page, overrides)
              => OriginalBuckets(overrides') /\ OriginalElsewhere(page', overrides')
<1> DEFINE tab == SelectionTab[selection]
           S == DOMAIN styles
<1>0. S \in SUBSET Styles /\ styles \in [S -> Values]
    BY DEF FormMaps
<1> HIDE DEF S
<1>1. tab \in Tabs
    BY PanelAssumption
<1> HIDE DEF tab
<1>2. PICK i \in {0} \cup BucketAt(selection) :
          LET values == IF i = 0 THEN page ELSE Restored(page, overrides[i])
              others == IF i = 0 THEN overrides ELSE RemoveAt(overrides, i)
              bucket == [selection |-> selection, tab |-> tab, selector |-> selector,
                         previous |-> [p \in DOMAIN styles |-> values[tab][selector][p]]]
          IN  /\ i = 0 <=> BucketAt(selection) = {}
              /\ i # 0 => overrides[i].selector # selector
              /\ overrides' = Append(others, bucket)
              /\ page' = Overridden(values, tab, selector, styles)
    BY DEF ApplyNew, tab
<1> DEFINE values == IF i = 0 THEN page ELSE Restored(page, overrides[i])
           others == IF i = 0 THEN overrides ELSE RemoveAt(overrides, i)
           previous == [p \in S |-> values[tab][selector][p]]
           bucket == [selection |-> selection, tab |-> tab, selector |-> selector,
                      previous |-> previous]
           last == Len(others) + 1
<1>3. page \in Pages /\ overrides \in Seq(Buckets) /\ Styles \subseteq Written /\ DOMAIN styles = S
    BY DEF PageTypes, Pages, Written, S
<1>4. /\ DOMAIN overrides = 1 .. Len(overrides)
      /\ \A k \in DOMAIN overrides : overrides[k] \in Buckets
    BY <1>3, LenProperties, ElementOfSeq
<1>5. i = 0 \/ (i # 0 /\ i \in DOMAIN overrides /\ overrides[i].selection = selection)
    BY <1>2, <1>4 DEF BucketAt
<1>6. /\ values \in Pages /\ others \in Seq(Buckets) /\ OwnBuckets(others)
      /\ \A k \in DOMAIN others : others[k].selection # selection
      /\ \A k \in DOMAIN others : \E j \in DOMAIN overrides : others[k] = overrides[j]
      /\ OriginalBuckets(overrides) => OriginalBuckets(others)
      /\ OriginalBuckets(overrides) /\ OriginalElsewhere(page, overrides) =>
            OriginalElsewhere(values, others)
  <2>1. CASE i = 0
    <3>1. values = page /\ others = overrides /\ BucketAt(selection) = {}
        BY <1>2, <2>1
    <3> HIDE DEF values, others
    <3> QED BY <1>3, <3>1 DEF BucketAt
  <2>2. CASE i # 0 /\ i \in DOMAIN overrides /\ overrides[i].selection = selection
    <3>1. values = Restored(page, overrides[i]) /\ others = RemoveAt(overrides, i)
        BY <2>2
    <3> HIDE DEF values, others
    <3>2. values \in Pages
        BY <1>3, <1>4, <2>2, <3>1, RestoredFacts
    <3>3. /\ others \in Seq(Buckets) /\ OwnBuckets(others)
          /\ \A k \in DOMAIN others : \E j \in DOMAIN overrides : j # i /\ others[k] = overrides[j]
          /\ OriginalBuckets(overrides) => OriginalBuckets(others)
        BY <1>3, <2>2, <3>1, OtherBuckets
    <3>4. \A k \in DOMAIN others : others[k].selection # selection
        BY <2>2, <3>3 DEF OwnBuckets
    <3>5. OriginalBuckets(overrides) /\ OriginalElsewhere(page, overrides) =>
              OriginalElsewhere(values, others)
        BY <1>3, <2>2, <3>1, RestoredIsOriginal
    <3> QED BY <3>2, <3>3, <3>4, <3>5
  <2> QED BY <1>5, <2>1, <2>2
<1>7. overrides' = Append(others, bucket) /\ page' = Overridden(values, tab, selector, styles)
    BY <1>2, <1>3
<1> HIDE DEF values, others
<1>8. values[tab][selector] \in [Written -> PageValues]
    BY <1>1, <1>6 DEF Pages, Elements
<1>9. previous \in [S -> PageValues]
    BY <1>0, <1>3, <1>8
<1>10. /\ bucket \in Buckets /\ bucket.selection = selection /\ bucket.tab = tab
       /\ bucket.selector = selector /\ bucket.previous = previous
  <2>1. DOMAIN previous = S
      OBVIOUS
  <2>3. S \in SUBSET Styles
      BY <1>0
  <2> HIDE DEF previous
  <2>2. previous \in UNION {[R -> PageValues] : R \in SUBSET Styles}
      BY <1>9, <2>3
  <2> QED BY <1>1, <2>2 DEF Buckets
<1> HIDE DEF bucket
<1>11. /\ overrides' \in Seq(Buckets) /\ DOMAIN overrides' = DOMAIN others \cup {last}
       /\ overrides'[last] = bucket /\ last \notin DOMAIN others
       /\ \A k \in DOMAIN others : overrides'[k] = others[k]
  <2>1. /\ Append(others, bucket) \in Seq(Buckets) /\ Len(others) \in Nat
        /\ DOMAIN others = 1 .. Len(others)
        /\ DOMAIN Append(others, bucket) = 1 .. last
        /\ \A k \in 1 .. Len(others) : Append(others, bucket)[k] = others[k]
        /\ Append(others, bucket)[last] = bucket
      BY <1>6, <1>10, AppendFacts
  <2>2. 1 .. last = (1 .. Len(others)) \cup {last} /\ last \notin 1 .. Len(others)
      BY <2>1
  <2> QED BY <1>7, <2>1, <2>2
<1>12. /\ page' \in Pages
       /\ \A t \in Tabs, s \in Selectors : \A target \in Written :
             (t = tab /\ s = selector /\ target \in S) \/ page'[t][s][target] = values[t][s][target]
  <2> DEFINE after == Overridden(values, tab, selector, styles)
  <2>1. /\ after \in Pages
        /\ \A t \in Tabs, s \in Selectors : \A target \in Written :
              (t = tab /\ s = selector /\ target \in S) \/ after[t][s][target] = values[t][s][target]
      BY <1>1, <1>3, <1>6, OverriddenFacts
  <2>2. page' = after
      BY <1>1, <1>6, <1>7
  <2> HIDE DEF after
  <2> QED BY <2>1, <2>2
<1> HIDE DEF last
<1>13. OwnBuckets(overrides')
    BY <1>6, <1>10, <1>11 DEF OwnBuckets, tab
<1>14. ASSUME NotShared(selection, tab, selector), OriginalBuckets(overrides),
              OriginalElsewhere(page, overrides)
       PROVE  OriginalBuckets(overrides') /\ OriginalElsewhere(page', overrides')
  <2>1. OriginalBuckets(others) /\ OriginalElsewhere(values, others)
      BY <1>6, <1>14
  <2>2. ASSUME NEW p \in S PROVE values[tab][selector][p] = OriginalValue(p)
    <3>1. SUFFICES ASSUME NEW k \in DOMAIN others, Covers(others[k], tab, selector, p)
                   PROVE  FALSE
        BY <1>0, <1>1, <1>3, <2>1 DEF OriginalElsewhere, tab
    <3>2. PICK j \in DOMAIN overrides : others[k] = overrides[j]
        BY <1>6
    <3>3. others[k] \in Range(overrides)
        BY <3>2 DEF Range
    <3>4. others[k].selection = selection
        BY <1>14, <3>1, <3>3 DEF NotShared, Covers
    <3> QED BY <1>6, <3>4
  <2>3. DOMAIN previous = S /\ \A p \in DOMAIN previous : previous[p] = OriginalValue(p)
      BY <2>2
  <2> HIDE DEF previous
  <2>4. OriginalBuckets(overrides')
      BY <1>10, <1>11, <2>1, <2>3 DEF OriginalBuckets
  <2>5. \A target \in S : Covers(overrides'[last], tab, selector, target)
      BY <1>10, <1>11, <2>3 DEF Covers
  <2>6. OriginalElsewhere(page', overrides')
    <3>1. SUFFICES ASSUME NEW t \in Tabs, NEW s \in Selectors, Found(t, s), NEW target \in Written
                   PROVE  \/ page'[t][s][target] = OriginalValue(target)
                          \/ \E k \in DOMAIN overrides' : Covers(overrides'[k], t, s, target)
        BY DEF OriginalElsewhere
    <3>2. CASE t = tab /\ s = selector /\ target \in S
        BY <1>11, <2>5, <3>2
    <3>3. CASE page'[t][s][target] = values[t][s][target]
      <4>1. \/ values[t][s][target] = OriginalValue(target)
            \/ \E k \in DOMAIN others : Covers(others[k], t, s, target)
          BY <2>1, <3>1 DEF OriginalElsewhere
      <4> QED BY <1>11, <3>3, <4>1
    <3> QED BY <1>12, <3>2, <3>3
  <2> QED BY <2>4, <2>6
<1> QED BY <1>11, <1>12, <1>13, <1>14 DEF tab


\* The agent previews.
LEMMA AgentPreviewsStep ==
    ASSUME PageTypes, OwnBuckets(overrides), NEW selection \in Selections, AgentPreviews(selection)
    PROVE  /\ "agent" \in scenario /\ UNCHANGED <<missing, scenario, online>>
           /\ page' \in Pages /\ overrides' \in Seq(Buckets) /\ OwnBuckets(overrides')
           /\ "shared" \notin scenario /\ OriginalBuckets(overrides) /\ OriginalElsewhere(page, overrides)
              => OriginalBuckets(overrides') /\ OriginalElsewhere(page', overrides')
<1> DEFINE tab == SelectionTab[selection]
<1>1. /\ "agent" \in scenario /\ UNCHANGED <<scenario, online>>
      /\ \E selector \in IF "moved" \in scenario THEN Selectors ELSE {SelectorOf[selection]} :
         \E S \in SUBSET Styles \ {{}} : \E styles \in [S -> Values] :
            /\ \/ "shared" \in scenario
               \/ NotShared(selection, tab, selector)
            /\ AgentApply(selection, tab, selector, styles)
    BY DEF AgentPreviews, NotShared
<1>2. PICK selector \in IF "moved" \in scenario THEN Selectors ELSE {SelectorOf[selection]} :
         \E S \in SUBSET Styles \ {{}} : \E styles \in [S -> Values] :
            /\ \/ "shared" \in scenario
               \/ NotShared(selection, tab, selector)
            /\ AgentApply(selection, tab, selector, styles)
    BY <1>1
<1>3. selector \in Selectors
    BY PanelAssumption
<1>4. \E styles \in FormMaps(Styles) :
            /\ \/ "shared" \in scenario
               \/ NotShared(selection, tab, selector)
            /\ AgentApply(selection, tab, selector, styles)
    BY <1>2 DEF FormMaps
<1>5. PICK styles \in FormMaps(Styles) :
            /\ \/ "shared" \in scenario
               \/ NotShared(selection, tab, selector)
            /\ AgentApply(selection, tab, selector, styles)
    BY <1>4
<1>6. /\ Found(tab, selector) /\ UNCHANGED missing
      /\ ApplyMore(selection, tab, selector, styles) \/ ApplyNew(selection, tab, selector, styles)
    BY <1>5 DEF AgentApply
<1>7. /\ page' \in Pages /\ overrides' \in Seq(Buckets) /\ OwnBuckets(overrides')
      /\ /\ NotShared(selection, tab, selector)
         /\ OriginalBuckets(overrides) /\ OriginalElsewhere(page, overrides)
         => OriginalBuckets(overrides') /\ OriginalElsewhere(page', overrides')
  <2>1. CASE ApplyMore(selection, tab, selector, styles)
      BY <1>3, <1>6, <2>1, ApplyMoreStep
  <2>2. CASE ApplyNew(selection, tab, selector, styles)
      BY <1>3, <1>6, <2>2, ApplyNewStep
  <2> QED BY <1>6, <2>1, <2>2
<1> QED BY <1>1, <1>5, <1>6, <1>7

\* The agent takes previews back.
LEMMA AgentClearsStep ==
    ASSUME PageTypes, OwnBuckets(overrides), AgentClears
    PROVE  /\ UNCHANGED <<missing, scenario, online>> /\ overrides # <<>>
           /\ page' \in Pages /\ overrides' \in Seq(Buckets) /\ OwnBuckets(overrides')
           /\ OriginalBuckets(overrides) /\ OriginalElsewhere(page, overrides)
              => OriginalBuckets(overrides') /\ OriginalElsewhere(page', overrides')
<1>1. page \in Pages /\ overrides \in Seq(Buckets)
    BY DEF PageTypes, Pages
<1>2. UNCHANGED <<scenario, online>>
    BY DEF AgentClears, panelVars
<1>3. CASE AgentClearAll
  <2>1. /\ overrides # <<>> /\ page' = RestoreAll(page, overrides) /\ overrides' = <<>>
        /\ UNCHANGED missing
      BY <1>3 DEF AgentClearAll
  <2>2. /\ page' \in Pages
        /\ OriginalBuckets(overrides) /\ OriginalElsewhere(page, overrides)
              => OriginalElsewhere(page', <<>>)
      BY <1>1, <2>1, RestoreAllFacts
  <2>3. <<>> \in Seq(Buckets) /\ OwnBuckets(<<>>) /\ OriginalBuckets(<<>>)
      BY DEF OwnBuckets, OriginalBuckets
  <2> QED BY <1>2, <2>1, <2>2, <2>3
<1>4. CASE \E selection \in Selections : AgentClear(selection)
  <2>1. PICK selection \in Selections : AgentClear(selection)
      BY <1>4
  <2>2. PICK i \in BucketAt(selection) :
            page' = Restored(page, overrides[i]) /\ overrides' = RemoveAt(overrides, i)
      BY <2>1 DEF AgentClear
  <2>3. i \in DOMAIN overrides /\ UNCHANGED missing
      BY <2>1, <2>2 DEF AgentClear, BucketAt
  <2>4. overrides[i] \in Buckets /\ overrides # <<>>
      BY <1>1, <2>3, LenProperties, ElementOfSeq
  <2>5. page' \in Pages
      BY <1>1, <2>2, <2>4, RestoredFacts
  <2>6. /\ overrides' \in Seq(Buckets) /\ OwnBuckets(overrides')
        /\ OriginalBuckets(overrides) => OriginalBuckets(overrides')
      BY <1>1, <2>2, <2>3, OtherBuckets
  <2>7. OriginalBuckets(overrides) /\ OriginalElsewhere(page, overrides) =>
            OriginalElsewhere(page', overrides')
      BY <1>1, <2>2, <2>3, RestoredIsOriginal
  <2> QED BY <1>2, <2>3, <2>4, <2>5, <2>6, <2>7
<1> QED BY <1>3, <1>4 DEF AgentClears

PageInv == PageTypes /\ OwnBuckets(overrides)

\* At the start nothing is overridden.
LEMMA PageInit == Init => PageInv
<1> SUFFICES ASSUME Init PROVE PageInv
    OBVIOUS
<1>1. /\ page = [tab \in Tabs |-> [selector \in Selectors |->
                   [target \in Written |-> OriginalValue(target)]]]
      /\ missing = {} /\ overrides = <<>> /\ online = TRUE /\ updates = <<>>
    BY DEF Init
<1>2. page \in [Tabs -> [Selectors -> Elements]]
  <2>1. \A target \in Written : OriginalValue(target) \in PageValues
      BY DEF OriginalValue, PageValues
  <2> QED BY <1>1, <2>1 DEF Elements
<1>3. OwnBuckets(overrides) /\ overrides \in Seq(Buckets)
    BY <1>1 DEF OwnBuckets
<1> QED BY <1>1, <1>2, <1>3 DEF PageInv, PageTypes

\* Every step keeps the types of the page, and what circumstances rule out does not happen.
LEMMA PageStep == EditInv /\ PageInv /\ [Next]_vars => PageInv'
<1> SUFFICES ASSUME EditTypes, PageTypes, OwnBuckets(overrides), [Next]_vars
             PROVE  PageTypes' /\ OwnBuckets(overrides')
    BY DEF EditInv, PageInv
<1>1. /\ page \in Pages /\ overrides \in Seq(Buckets)
      /\ "agent" \notin scenario => overrides = <<>>
      /\ "gone" \notin scenario => missing = {}
      /\ "offline" \notin scenario => online = TRUE
      /\ "sourced" \notin scenario => updates = <<>>
    BY DEF PageTypes, Pages
<1>2. ASSUME /\ page' \in Pages /\ overrides' \in Seq(Buckets) /\ scenario' = scenario
             /\ "agent" \notin scenario => overrides' = <<>>
             /\ "gone" \notin scenario => missing' = {}
             /\ "offline" \notin scenario => online' = TRUE
             /\ "sourced" \notin scenario => updates' = <<>>
      PROVE  PageTypes'
    BY <1>2 DEF PageTypes, Pages, Elements, PageValues, Buckets
<1>3. CASE HandleMessage
  <2>1. /\ page' \in Pages /\ UNCHANGED <<missing, overrides>>
        /\ "sourced" \notin scenario => UNCHANGED updates
      BY <1>3, HandleOnPage DEF Pages
  <2>2. UNCHANGED <<scenario, online>>
      BY <1>3 DEF HandleMessage
  <2> QED BY <1>1, <1>2, <2>1, <2>2
<1>4. CASE \E selection \in Selections : AgentPreviews(selection)
  <2>1. PICK selection \in Selections : AgentPreviews(selection)
      BY <1>4
  <2>2. /\ "agent" \in scenario /\ UNCHANGED <<missing, scenario, online>>
        /\ page' \in Pages /\ overrides' \in Seq(Buckets) /\ OwnBuckets(overrides')
      BY <2>1, AgentPreviewsStep
  <2>3. UNCHANGED updates
      BY <2>1 DEF AgentPreviews
  <2> QED BY <1>1, <1>2, <2>2, <2>3
<1>5. CASE AgentClears
  <2>1. /\ UNCHANGED <<missing, scenario, online>> /\ overrides # <<>>
        /\ page' \in Pages /\ overrides' \in Seq(Buckets) /\ OwnBuckets(overrides')
      BY <1>5, AgentClearsStep
  <2>2. UNCHANGED updates
      BY <1>5 DEF AgentClears, panelVars
  <2> QED BY <1>1, <1>2, <2>1, <2>2
<1>6. CASE \E tab \in Tabs, selector \in Selectors : ReplaceElement(tab, selector)
    BY <1>1, <1>2, <1>6 DEF ReplaceElement, panelVars
<1>7. CASE Reconnect
    BY <1>1, <1>2, <1>7 DEF Reconnect, pageVars
<1>9. CASE \E i \in DOMAIN updates : UpdateEnds(i)
  <2>1. "sourced" \in scenario
      BY <1>1, <1>9
  <2>2. UNCHANGED <<page, missing, overrides, scenario, online>>
      BY <1>9 DEF UpdateEnds, pageVars
  <2> QED BY <1>1, <1>2, <2>1, <2>2
<1>8. CASE \/ ClickApply \/ \E n \in DOMAIN designs : ContinueApply(n)
           \/ \E id \in 1 .. tracker.lastId : ClickRevert(id)
           \/ ClickClear \/ ClickUndo \/ ClickRedo \/ Reselect \/ SwitchTab \/ UNCHANGED vars
  <2>1. UNCHANGED <<page, missing, overrides, scenario, online, updates>>
      BY <1>8 DEF ClickApply, ContinueApply, ClickRevert, ClickClear, ClickUndo, ClickRedo,
                  Reselect, SwitchTab, elsewhereVars, pageVars, vars, panelVars
  <2> QED BY <1>1, <1>2, <2>1
<1> QED BY <1>3, <1>4, <1>5, <1>6, <1>7, <1>8, <1>9 DEF Next

\* The page keeps values of its kind, a selection of the agent has one bucket at most, and
\* the bucket is of the selection's tab (agent-preview.ts: applyAgentPreview).
THEOREM PageInvariant == Spec => [](EditInv /\ PageInv)
<1>1. Init => EditInv /\ PageInv
    BY EditInit, PageInit
<1>2. EditInv /\ PageInv /\ [Next]_vars => (EditInv /\ PageInv)'
    BY EditStep, PageStep
<1> QED BY <1>1, <1>2, PTL DEF Spec


-------------------------------------------------------------------------------
(* The agent leaves nothing behind                                         *)

ClearOfNothing == [type : {"clear"}, selector : Selectors, changes : {<<>>}]

\* As long as no change has got an id, nothing is edited or on its way to the page.
NothingEdited ==
    /\ tracker.changes = <<>> /\ tracker.undo = <<>> /\ tracker.redo = <<>>
    /\ DOMAIN designs = {}
    /\ queue \in Seq(ClearOfNothing)

\* Nothing but what is in the buckets differs from what the page came with.
AsItCame == OriginalBuckets(overrides) /\ OriginalElsewhere(page, overrides)

CleanInv ==
    tracker.lastId = 0 =>
        /\ NothingEdited
        /\ "shared" \notin scenario => AsItCame

\* An edit has an id.
LEMMA EditHasId ==
    ASSUME EditTypes, tracker.lastId = 0 => NothingEdited,
           NEW form \in FormMaps(EditTargets), form # EmptyMap, NEW n, NEW selector,
           SendField(n, tracker, form, selector)
    PROVE  tracker'.lastId # 0
<1> DEFINE T == EditTargets
           field == FirstField(form)
           new == form[field]
           x == EditedChange(tracker, field, Empty, new)
<1>1. tracker \in Trackers(T) /\ T \subseteq Targets
    BY DEF EditTypes, EditTargets
<1> HIDE DEF T
<1>2. field \in T /\ new \in Values
    BY <1>1, FirstFieldFacts DEF T
<1>3. tracker' = TrackEdit(tracker, field, Empty, new)
    BY DEF SendField
<1> HIDE DEF field, new
<1>4. /\ tracker'.lastId = IF x.id > tracker.lastId THEN x.id ELSE tracker.lastId
      /\ x \in Changes(T)
      /\ PendingAt(tracker.changes, field) = {} => x.id = tracker.lastId + 1
  <2>1. \A target \in T : \A v \in Values :
            TrackEdit(tracker, target, Empty, v).lastId =
               IF EditedChange(tracker, target, Empty, v).id > tracker.lastId
               THEN EditedChange(tracker, target, Empty, v).id ELSE tracker.lastId
      BY <1>1, TrackEditFacts
  <2>2. /\ x \in Changes(T)
        /\ PendingAt(tracker.changes, field) = {} => x.id = tracker.lastId + 1
      BY <1>1, <1>2, EditedChangeFacts
  <2> QED BY <1>2, <1>3, <2>1, <2>2
<1> HIDE DEF x
<1>5. x.id \in Nat /\ tracker.lastId \in Nat
    BY <1>1, <1>4 DEF Changes, Trackers
<1>6. CASE tracker.lastId = 0
  <2>1. tracker.changes = <<>>
      BY <1>6 DEF NothingEdited
  <2>2. PendingAt(tracker.changes, field) = {}
      BY <2>1 DEF PendingAt
  <2> QED BY <1>4, <1>6, <2>2
<1> QED BY <1>4, <1>5, <1>6

\* A clear of nothing changes nothing.
LEMMA NothingIsCleared ==
    ASSUME EditTypes, PageTypes, NothingEdited, HandleMessage
    PROVE  NothingEdited' /\ UNCHANGED pageVars
<1>1. /\ queue # <<>> /\ queue' = Tail(queue) /\ UNCHANGED tracker
      /\ HandleEdit(Head(queue)) \/ HandleRevert(Head(queue)) \/ HandleClear(Head(queue))
    BY DEF HandleMessage
<1>2. Head(queue) \in ClearOfNothing /\ queue' \in Seq(ClearOfNothing)
  <2>1. queue \in Seq(ClearOfNothing)
      BY DEF NothingEdited
  <2> QED BY <1>1, <2>1, TailFacts
<1>3. DOMAIN designs' = DOMAIN designs
    BY HandleMessageStep
<1>4. HandleClear(Head(queue))
  <2>1. Head(queue).type = "clear"
      BY <1>2 DEF ClearOfNothing
  <2>2. HandleEdit(Head(queue)) => Head(queue).type = "edit"
      BY DEF HandleEdit
  <2>3. HandleRevert(Head(queue)) => Head(queue).type = "revert"
      BY DEF HandleRevert
  <2> QED BY <1>1, <2>1, <2>2, <2>3
<1> DEFINE tab == activeTab
           selector == Head(queue).selector
<1>5. tab \in Tabs /\ selector \in Selectors /\ Head(queue).changes = <<>>
    BY <1>2 DEF EditTypes, ClearOfNothing
<1>6. ClearUserValues(tab, selector, <<>>) \/ UNCHANGED pageVars
    BY <1>4, <1>5 DEF HandleClear, Unreachable
<1> HIDE DEF tab, selector
<1>7. \A s : PendingAt(<<>>, s) = {}
    BY DEF PendingAt
<1>8. page' = page
  <2>1. page \in [Tabs -> [Selectors -> Elements]] /\ page[tab][selector] \in [Written -> PageValues]
      BY <1>5 DEF PageTypes, Elements
  <2>2. \/ page' = page
        \/ page' = [page EXCEPT ![tab][selector] = [s \in Written |-> page[tab][selector][s]]]
      BY <1>6, <1>7 DEF ClearUserValues, pageVars
  <2>3. [s \in Written |-> page[tab][selector][s]] = page[tab][selector]
      BY <2>1
  <2>4. [page EXCEPT ![tab][selector] = page[tab][selector]] = page
      BY <2>1
  <2> QED BY <2>2, <2>3, <2>4
<1>9. UNCHANGED <<missing, overrides>>
    BY <1>6 DEF ClearUserValues, pageVars
<1> QED BY <1>1, <1>2, <1>3, <1>8, <1>9 DEF NothingEdited, pageVars

\* At the start the page is as it came.
LEMMA CleanInit == Init => CleanInv
<1> SUFFICES ASSUME Init PROVE NothingEdited /\ AsItCame
    BY DEF CleanInv
<1>1. NothingEdited
    BY DEF Init, NewTracker, EmptyMap, NothingEdited
<1>2. OriginalBuckets(overrides)
    BY DEF Init, OriginalBuckets
<1>3. OriginalElsewhere(page, overrides)
    BY DEF Init, OriginalElsewhere
<1> QED BY <1>1, <1>2, <1>3 DEF AsItCame

\* Every step keeps it, or gives the first id.
LEMMA CleanStep == EditInv /\ PageInv /\ CleanInv /\ [Next]_vars => CleanInv'
<1> SUFFICES ASSUME EditTypes, HistoryIsExact, PageTypes, OwnBuckets(overrides), CleanInv, [Next]_vars,
                    tracker'.lastId = 0
             PROVE  NothingEdited' /\ ("shared" \notin scenario' => AsItCame')
    BY DEF EditInv, PageInv, CleanInv
<1>1. tracker.lastId = 0 => NothingEdited /\ ("shared" \notin scenario => AsItCame)
    BY DEF CleanInv
<1>2. ASSUME UNCHANGED <<page, overrides, missing, scenario>> PROVE AsItCame = AsItCame'
    BY <1>2 DEF AsItCame, OriginalBuckets, OriginalElsewhere, OriginalValue, Found, Covers
<1>3. ASSUME UNCHANGED <<missing, scenario>>, OriginalBuckets(overrides'), OriginalElsewhere(page', overrides')
      PROVE  AsItCame'
    BY <1>3 DEF AsItCame, OriginalBuckets, OriginalElsewhere, OriginalValue, Found, Covers
<1>4. ASSUME UNCHANGED <<tracker, designs, queue>> PROVE NothingEdited => NothingEdited'
    BY <1>4 DEF NothingEdited
<1>5. CASE ClickApply
  <2>1. PICK form \in FormMaps(EditTargets) :
            form # EmptyMap /\ SendField(clicks + 1, tracker, form, selected)
      BY <1>5, ClickApplyStep
  <2> QED BY <1>1, <2>1, EditHasId
<1>6. CASE \E n \in DOMAIN designs : ContinueApply(n)
  <2>1. PICK n \in DOMAIN designs : ContinueApply(n)
      BY <1>6
  <2> DEFINE design == designs[n]
  <2>2. \/ tracker' = tracker
        \/ /\ design.form # EmptyMap /\ design.form \in FormMaps(EditTargets)
           /\ SendField(n, tracker, design.form, design.selector)
      BY <2>1, ContinueApplyStep
  <2> HIDE DEF design
  <2>3. CASE tracker' = tracker
      BY <1>1, <2>1, <2>3 DEF NothingEdited
  <2>4. CASE /\ design.form # EmptyMap /\ design.form \in FormMaps(EditTargets)
             /\ SendField(n, tracker, design.form, design.selector)
      BY <1>1, <2>4, EditHasId
  <2> QED BY <2>2, <2>3, <2>4
<1>7. ASSUME UNCHANGED elsewhereVars, tracker' = tracker, queue' \in Seq(ClearOfNothing)
      PROVE  NothingEdited' /\ ("shared" \notin scenario' => AsItCame')
  <2>1. UNCHANGED <<page, overrides, missing, scenario, designs>>
      BY <1>7 DEF elsewhereVars, pageVars
  <2> QED BY <1>1, <1>2, <1>7, <2>1 DEF NothingEdited
<1>8. CASE \E id \in 1 .. tracker.lastId : ClickRevert(id)
  <2>1. PICK id \in 1 .. tracker.lastId : ClickRevert(id)
      BY <1>8
  <2>2. tracker'.lastId = tracker.lastId /\ CanRevert(tracker, id)
      BY <2>1, ClickRevertStep DEF Clicking, ClickRevert
  <2> QED BY <1>1, <2>2 DEF NothingEdited, CanRevert, Indexes
<1>9. CASE ClickClear
  <2> DEFINE m == [type |-> "clear", selector |-> selected, changes |-> tracker.changes]
  <2>1. tracker'.lastId = tracker.lastId
      BY <1>9, ClickClearStep DEF Clicking
  <2>2. tracker.changes = <<>> /\ queue \in Seq(ClearOfNothing)
      BY <1>1, <2>1 DEF NothingEdited
  <2>3. tracker' = tracker /\ queue' = Append(queue, m) /\ UNCHANGED elsewhereVars
      BY <1>9, <2>2 DEF ClickClear, TrackClear, Send
  <2>4. m \in ClearOfNothing
      BY <2>2 DEF EditTypes, ClearOfNothing
  <2>5. queue' \in Seq(ClearOfNothing)
      BY <2>2, <2>3, <2>4, AppendFacts
  <2> QED BY <1>7, <2>3, <2>5
<1>10. CASE ClickUndo
  <2>1. tracker'.lastId = tracker.lastId /\ tracker.undo # <<>>
      BY <1>10, ClickUndoStep DEF Clicking, ClickUndo, CanUndo
  <2> QED BY <1>1, <2>1 DEF NothingEdited
<1>11. CASE ClickRedo
  <2>1. tracker'.lastId = tracker.lastId /\ tracker.redo # <<>>
      BY <1>11, ClickRedoStep DEF Clicking, ClickRedo
  <2> QED BY <1>1, <2>1 DEF NothingEdited
<1>12. CASE HandleMessage
  <2>1. UNCHANGED <<tracker, scenario>>
      BY <1>12 DEF HandleMessage
  <2>2. NothingEdited' /\ UNCHANGED <<page, overrides, missing>>
      BY <1>1, <1>12, <2>1, NothingIsCleared DEF pageVars
  <2> QED BY <1>1, <1>2, <2>1, <2>2
<1>13. CASE \/ \E i \in DOMAIN updates : UpdateEnds(i)
            \/ Reselect \/ SwitchTab \/ Reconnect \/ UNCHANGED vars
  <2>1. UNCHANGED <<page, overrides, missing, scenario, tracker, designs, queue>>
      BY <1>13 DEF UpdateEnds, Reselect, SwitchTab, Reconnect, pageVars, vars, panelVars
  <2> QED BY <1>1, <1>2, <1>4, <2>1
<1>14. CASE \E tab \in Tabs, selector \in Selectors : ReplaceElement(tab, selector)
  <2>1. PICK tab \in Tabs, selector \in Selectors : ReplaceElement(tab, selector)
      BY <1>14
  <2>2. /\ UNCHANGED <<page, overrides, scenario, tracker, designs, queue>>
        /\ missing \subseteq missing'
      BY <2>1 DEF ReplaceElement, panelVars
  <2>3. AsItCame => AsItCame'
      BY <2>2 DEF AsItCame, OriginalBuckets, OriginalElsewhere, OriginalValue, Found, Covers
  <2> QED BY <1>1, <1>4, <2>2, <2>3
<1>15. CASE \E selection \in Selections : AgentPreviews(selection)
  <2>1. PICK selection \in Selections : AgentPreviews(selection)
      BY <1>15
  <2>2. /\ UNCHANGED <<missing, scenario>>
        /\ "shared" \notin scenario /\ AsItCame =>
              OriginalBuckets(overrides') /\ OriginalElsewhere(page', overrides')
      BY <2>1, AgentPreviewsStep DEF AsItCame
  <2>3. UNCHANGED <<tracker, designs, queue>>
      BY <2>1 DEF AgentPreviews
  <2> QED BY <1>1, <1>3, <1>4, <2>2, <2>3
<1>16. CASE AgentClears
  <2>1. /\ UNCHANGED <<missing, scenario>>
        /\ AsItCame => OriginalBuckets(overrides') /\ OriginalElsewhere(page', overrides')
      BY <1>16, AgentClearsStep DEF AsItCame
  <2>2. UNCHANGED <<tracker, designs, queue>>
      BY <1>16 DEF AgentClears, panelVars
  <2> QED BY <1>1, <1>3, <1>4, <2>1, <2>2
<1> QED BY <1>5, <1>6, <1>8, <1>9, <1>10, <1>11, <1>12, <1>13, <1>14, <1>15, <1>16 DEF Next

\* Once the agent's previews are taken back, one by one or all, the page is as it came, for
\* selections that share no element and a user who edits nothing, wherever the selections
\* have moved to (agent-preview.ts: applyAgentPreview, restoreSelection).
THEOREM AgentRestoresPage == Spec => []AgentLeavesNothing
<1>1. EditInv /\ PageInv /\ CleanInv => AgentLeavesNothing
  <2> SUFFICES ASSUME CleanInv, "shared" \notin scenario, overrides = <<>>, tracker.lastId = 0,
                      NEW tab \in Tabs, NEW selector \in Selectors, Found(tab, selector),
                      NEW target \in Written
               PROVE  page[tab][selector][target] = OriginalValue(target)
      BY DEF AgentLeavesNothing, Absent
  <2>1. OriginalElsewhere(page, <<>>)
      BY DEF CleanInv, AsItCame
  <2> QED BY <2>1 DEF OriginalElsewhere
<1>2. Init => CleanInv
    BY CleanInit
<1>3. (EditInv /\ PageInv) /\ CleanInv /\ [Next]_vars => CleanInv'
    BY CleanStep
<1> QED BY <1>1, <1>2, <1>3, PageInvariant, PTL DEF Spec


-------------------------------------------------------------------------------
(* The page follows the list                                               *)

\* The panel sends for the selection that it shows, or that one of its forms is for.
PanelSends ==
    \E selector \in Selectors :
        /\ Sent(selector)
        /\ selector = selected \/ \E n \in DOMAIN designs : selector = designs[n].selector
        /\ FormsFor(selector)
        /\ merged => merged'
        /\ UNCHANGED <<pageVars, scenario, selected, activeTab, online, gateway>>

PanelKeeps ==
    /\ FormsKept
    /\ UNCHANGED <<pageVars, scenario, tracker, selected, activeTab, queue, online, gateway, merged>>

\* What the steps of the panel have in common.
LEMMA PanelSteps ==
    ASSUME EditInv,
           \/ ClickApply \/ \E n \in DOMAIN designs : ContinueApply(n)
           \/ \E id \in 1 .. tracker.lastId : ClickRevert(id)
           \/ ClickClear \/ ClickUndo \/ ClickRedo \/ UNCHANGED vars
    PROVE  PanelSends \/ PanelKeeps
<1>1. EditTypes /\ HistoryIsExact /\ selected \in Selectors
    BY DEF EditInv, EditTypes
<1>2. ASSUME NEW form \in FormMaps(EditTargets), form # EmptyMap, NEW m \in Nat,
             NEW selector \in Selectors, SendField(m, tracker, form, selector),
             selector = selected \/ \E n \in DOMAIN designs : selector = designs[n].selector,
             UNCHANGED <<pageVars, scenario, selected, activeTab, online, gateway>>
      PROVE  PanelSends
  <2>1. Sent(selector) /\ FormsFor(selector) /\ (merged => merged')
      BY <1>1, <1>2, SendFieldStep
  <2> QED BY <1>2, <2>1 DEF PanelSends
<1>3. ASSUME Clicking, UNCHANGED elsewhereVars PROVE PanelSends
  <2>1. Sent(selected)
      BY <1>3 DEF Clicking
  <2>2. designs' = designs /\ merged' = merged
        /\ UNCHANGED <<pageVars, scenario, selected, activeTab, online, gateway>>
      BY <1>3 DEF elsewhereVars
  <2>3. FormsFor(selected)
      BY <2>2 DEF FormsFor
  <2> QED BY <1>1, <2>1, <2>2, <2>3 DEF PanelSends
<1>4. CASE ClickApply
  <2>1. PICK form \in FormMaps(EditTargets) :
            form # EmptyMap /\ SendField(clicks + 1, tracker, form, selected)
      BY <1>1, <1>4, ClickApplyStep
  <2>3. clicks + 1 \in Nat
      BY <1>1 DEF EditTypes
  <2>2. UNCHANGED <<pageVars, scenario, selected, activeTab, online, gateway>>
      BY <1>4 DEF ClickApply
  <2> QED BY <1>1, <1>2, <2>1, <2>2, <2>3
<1>5. CASE \E n \in DOMAIN designs : ContinueApply(n)
  <2>1. PICK n \in DOMAIN designs : ContinueApply(n)
      BY <1>5
  <2>2. UNCHANGED <<pageVars, scenario, selected, activeTab, online, gateway>>
      BY <2>1 DEF ContinueApply
  <2> DEFINE design == designs[n]
  <2>3. /\ n \in Nat
        /\ \/ /\ tracker' = tracker /\ UNCHANGED <<queue, merged>>
              /\ FormsKept
           \/ /\ design.form # EmptyMap /\ design.form \in FormMaps(EditTargets)
              /\ design.selector \in Selectors
              /\ SendField(n, tracker, design.form, design.selector)
      BY <1>1, <2>1, ContinueApplyStep
  <2>4. \E k \in DOMAIN designs : design.selector = designs[k].selector
      OBVIOUS
  <2> HIDE DEF design
  <2>5. CASE tracker' = tracker /\ UNCHANGED <<queue, merged>> /\ FormsKept
      BY <2>2, <2>5 DEF PanelKeeps
  <2>6. CASE /\ design.form # EmptyMap /\ design.form \in FormMaps(EditTargets)
             /\ design.selector \in Selectors
             /\ SendField(n, tracker, design.form, design.selector)
      BY <1>2, <2>2, <2>3, <2>4, <2>6
  <2> QED BY <2>3, <2>5, <2>6
<1>6. CASE \E id \in 1 .. tracker.lastId : ClickRevert(id)
  <2>1. PICK id \in 1 .. tracker.lastId : ClickRevert(id)
      BY <1>6
  <2>2. Clicking /\ UNCHANGED elsewhereVars
      BY <1>1, <2>1, ClickRevertStep DEF ClickRevert
  <2> QED BY <1>3, <2>2
<1>7. CASE ClickClear
  <2>1. Clicking /\ UNCHANGED elsewhereVars
      BY <1>1, <1>7, ClickClearStep DEF ClickClear
  <2> QED BY <1>3, <2>1
<1>8. CASE ClickUndo
  <2>1. Clicking /\ UNCHANGED elsewhereVars
      BY <1>1, <1>8, ClickUndoStep DEF ClickUndo
  <2> QED BY <1>3, <2>1
<1>9. CASE ClickRedo
  <2>1. Clicking /\ UNCHANGED elsewhereVars
      BY <1>1, <1>9, ClickRedoStep DEF ClickRedo
  <2> QED BY <1>3, <2>1
<1>10. CASE UNCHANGED vars
    BY <1>10 DEF vars, panelVars, PanelKeeps, FormsKept
<1> QED BY <1>4, <1>5, <1>6, <1>7, <1>8, <1>9, <1>10

\* As long as the selection shown is the same and a Clear all is not taken back, all that is
\* on its way is for this selection.
SelectorInv ==
    "unclear" \notin scenario /\ "reselect" \notin scenario /\ ~merged =>
        /\ \A k \in DOMAIN queue : queue[k].selector = selected
        /\ \A n \in DOMAIN designs : designs[n].selector = selected

\* At the start nothing is on its way.
LEMMA SelectorInit == Init => SelectorInv
BY DEF Init, SelectorInv, EmptyMap

\* Every step sends for this selection.
LEMMA SelectorStep == EditInv /\ SelectorInv /\ [Next]_vars => SelectorInv'
<1> SUFFICES ASSUME EditInv, SelectorInv, [Next]_vars,
                    "unclear" \notin scenario', "reselect" \notin scenario', ~merged'
             PROVE  /\ \A k \in DOMAIN queue' : queue'[k].selector = selected'
                    /\ \A n \in DOMAIN designs' : designs'[n].selector = selected'
    BY DEF SelectorInv
<1> DEFINE Goal == /\ \A k \in DOMAIN queue' : queue'[k].selector = selected'
                   /\ \A n \in DOMAIN designs' : designs'[n].selector = selected'
<1>1. queue \in Seq(Messages(EditTargets)) /\ EditTypes
    BY DEF EditInv, EditTypes
<1>2. ASSUME scenario' = scenario, ~merged
      PROVE  /\ \A k \in DOMAIN queue : queue[k].selector = selected
             /\ \A n \in DOMAIN designs : designs[n].selector = selected
    BY <1>2 DEF SelectorInv
<1>3. ASSUME PanelSends PROVE Goal
  <2>1. PICK selector \in Selectors :
            /\ Sent(selector)
            /\ selector = selected \/ \E n \in DOMAIN designs : selector = designs[n].selector
            /\ FormsFor(selector)
            /\ merged => merged'
            /\ UNCHANGED <<scenario, selected>>
      BY <1>3 DEF PanelSends
  <2>2. selector = selected
      BY <1>2, <2>1
  <2>3. PICK m \in Messages(EditTargets) : queue' = Append(queue, m) /\ m.selector = selector
      BY <2>1 DEF Sent
  <2>4. \A k \in DOMAIN queue' : queue'[k].selector = selected'
    <3>1. /\ Len(queue) \in Nat /\ DOMAIN queue = 1 .. Len(queue)
          /\ DOMAIN queue' = 1 .. (Len(queue) + 1)
          /\ \A k \in 1 .. Len(queue) : queue'[k] = queue[k]
          /\ queue'[Len(queue) + 1] = m
        BY <1>1, <2>3, AppendFacts
    <3>2. \A k \in DOMAIN queue' : k \in DOMAIN queue \/ k = Len(queue) + 1
        BY <3>1
    <3> QED BY <1>2, <2>1, <2>2, <2>3, <3>1, <3>2
  <2>5. \A n \in DOMAIN designs' : designs'[n].selector = selected'
      BY <1>2, <2>1, <2>2 DEF FormsFor
  <2> QED BY <2>4, <2>5
<1>4. ASSUME PanelKeeps PROVE Goal
    BY <1>2, <1>4 DEF PanelKeeps, FormsKept
<1>5. ASSUME HandleMessage PROVE Goal
  <2>1. /\ queue # <<>> /\ queue' = Tail(queue)
        /\ FormsKept
        /\ UNCHANGED <<scenario, selected, merged>>
      BY <1>1, <1>5, HandleMessageStep DEF HandleMessage
  <2>2. \A k \in DOMAIN queue' : \E j \in DOMAIN queue : queue'[k] = queue[j]
    <3>1. /\ Len(queue) \in Nat \ {0} /\ DOMAIN queue = 1 .. Len(queue)
          /\ queue' \in Seq(Messages(EditTargets)) /\ Len(queue') = Len(queue) - 1
          /\ \A k \in 1 .. (Len(queue) - 1) : queue'[k] = queue[k + 1]
        BY <1>1, <2>1, TailFacts
    <3>2. DOMAIN queue' = 1 .. (Len(queue) - 1)
        BY <3>1, LenProperties
    <3>3. \A k \in 1 .. (Len(queue) - 1) : k + 1 \in DOMAIN queue
        BY <3>1
    <3> QED BY <3>1, <3>2, <3>3
  <2>3. \A n \in DOMAIN designs' : designs'[n].selector = selected'
      BY <1>2, <2>1 DEF FormsKept
  <2> QED BY <1>2, <2>1, <2>2, <2>3
<1>6. ASSUME \/ \E i \in DOMAIN updates : UpdateEnds(i)
             \/ Reselect \/ SwitchTab \/ Reconnect
             \/ \E tab \in Tabs, selector \in Selectors : ReplaceElement(tab, selector)
             \/ \E selection \in Selections : AgentPreviews(selection)
             \/ AgentClears
      PROVE  Goal
  <2>1. UNCHANGED <<scenario, selected, designs, queue, merged>>
      BY <1>6 DEF UpdateEnds, Reselect, SwitchTab, Reconnect, ReplaceElement, AgentPreviews, AgentClears, panelVars
  <2> QED BY <1>2, <2>1
<1> HIDE DEF Goal
<1>7. Goal
  <2>1. CASE \/ ClickApply \/ \E n \in DOMAIN designs : ContinueApply(n)
             \/ \E id \in 1 .. tracker.lastId : ClickRevert(id)
             \/ ClickClear \/ ClickUndo \/ ClickRedo \/ UNCHANGED vars
      BY <1>3, <1>4, <2>1, PanelSteps
  <2> QED BY <1>5, <1>6, <2>1 DEF Next
<1> QED BY <1>7 DEF Goal

\* The last message that writes a style writes what the list shows; when none is on its
\* way, the page has it.
Follows(s) ==
    /\ LastIn(queue, Touching(s, EditTargets), Showing(s, EditTargets, tracker.changes))
    /\ NoneIn(queue, Touching(s, EditTargets)) =>
          Shows(tracker.changes, s, page[activeTab][selected][s])

\* A change of the list is sent.
LEMMA SentFollows ==
    ASSUME EditInv, EditInv', UNCHANGED <<scenario, selected, activeTab, page>>,
           NEW selector, Sent(selector), ~merged, ~merged', "unclear" \notin scenario,
           NEW s, Follows(s)
    PROVE  Follows(s)'
<1> DEFINE T == EditTargets
           b == tracker.changes
           c == tracker'.changes
           M == Touching(s, T)
           value == page[activeTab][selected][s]
<1>1. T' = T
    BY DEF EditTargets
<1>2. b \in Lists(T, tracker.lastId)
  <2>1. tracker \in Trackers(T) /\ History(tracker, T)
      BY DEF EditInv, EditTypes, HistoryIsExact
  <2> QED BY <2>1, HistoryHasList
<1>3. c \in Lists(T, tracker'.lastId)
  <2>1. tracker' \in Trackers(T) /\ History(tracker', T)
      BY <1>1 DEF EditInv, EditTypes, HistoryIsExact
  <2> QED BY <2>1, HistoryHasList
<1>4. queue \in Seq(Messages(T))
    BY DEF EditInv, EditTypes
<1>5. PICK m \in Messages(T) : queue' = Append(queue, m) /\ Reports(m, b, c, T)
    BY DEF Sent
<1>6. LastIn(queue, M, Showing(s, T, b)) /\ (NoneIn(queue, M) => Shows(b, s, value))
    BY DEF Follows
<1>7. SUFFICES LastIn(queue', M, Showing(s, T, c)) /\ (NoneIn(queue', M) => Shows(c, s, value))
    BY <1>1 DEF Follows, Touching, Showing
<1> HIDE DEF T, b, c, value
<1>8. /\ m \in M => m \in Showing(s, T, c)
      /\ m \notin M => \A v : Shows(b, s, v) => Shows(c, s, v)
    BY <1>2, <1>3, <1>5, ReportsShown
<1>9. CASE m \in M
  <2> HIDE DEF M
  <2> QED BY <1>4, <1>5, <1>8, <1>9, SentDecides
<1>10. CASE m \notin M
  <2>1. \A e \in Messages(T) : e \in Showing(s, T, b) => e \in Showing(s, T, c)
      BY <1>8, <1>10 DEF Showing
  <2> HIDE DEF M
  <2>2. NoneIn(queue', M) => NoneIn(queue, M)
      BY <1>4, <1>5, <1>10, SentKeeps
  <2>3. LastIn(queue', M, Showing(s, T, c))
      BY <1>4, <1>5, <1>6, <1>10, <2>1, SentKeeps
  <2> QED BY <1>6, <1>8, <1>10, <2>2, <2>3
<1> QED BY <1>9, <1>10

\* A message is handled.
LEMMA HandledFollows ==
    ASSUME EditInv, PageTypes, HandleMessage, Head(queue).selector = selected,
           Reached(selected), NEW s \in Styles, Follows(s)
    PROVE  Follows(s)'
<1> DEFINE T == EditTargets
           l == tracker.changes
           M == Touching(s, T)
           G == Showing(s, T, l)
           m == Head(queue)
<1>1. T' = T /\ l' = l /\ queue # <<>> /\ queue' = Tail(queue)
      /\ UNCHANGED <<selected, activeTab>>
    BY DEF EditTargets, HandleMessage
<1>2. queue \in Seq(Messages(T)) /\ EditTypes
    BY DEF EditInv, EditTypes
<1>3. /\ m \notin M => page'[activeTab][selected][s] = page[activeTab][selected][s]
      /\ m \in M /\ m \in G => Shows(l, s, page'[activeTab][selected][s])
    BY <1>2, HandleOnPage
<1>4. LastIn(queue, M, G) /\ (NoneIn(queue, M) => Shows(l, s, page[activeTab][selected][s]))
    BY DEF Follows
<1>5. SUFFICES LastIn(queue', M, G) /\ (NoneIn(queue', M) => Shows(l, s, page'[activeTab][selected][s]))
    BY <1>1 DEF Follows, Touching, Showing
<1> HIDE DEF T, l, M, G, m
<1>6. /\ LastIn(queue', M, G)
      /\ NoneIn(queue', M) /\ m \in M => m \in G
      /\ NoneIn(queue', M) /\ m \notin M => NoneIn(queue, M)
    BY <1>1, <1>2, <1>4, TakenDecides DEF m
<1> QED BY <1>3, <1>4, <1>6

\* One element in one tab, without inline values of its own, styles and comments only.
PlainEdits == Absent(Circumstances \ {"again", "offline", "refused", "sourced"}) /\ ~merged

PlainInv ==
    PlainEdits =>
        /\ \A s \in Styles : Follows(s)
        /\ page[activeTab][selected]["text"] = Original

\* What does not happen then.
LEMMA PlainCircumstances ==
    ASSUME PlainEdits
    PROVE  /\ "styled" \notin scenario /\ "text" \notin scenario /\ "unclear" \notin scenario
           /\ "reselect" \notin scenario /\ "switch" \notin scenario /\ "gone" \notin scenario
           /\ "agent" \notin scenario /\ "unreachable" \notin scenario
           /\ ~merged /\ "text" \notin EditTargets
<1>1. \A e \in {"styled", "text", "unclear", "reselect", "switch", "gone", "agent", "unreachable"} :
          e \in Circumstances \ {"again", "offline", "refused", "sourced"}
    BY DEF Circumstances
<1>2. \A e \in {"styled", "text", "unclear", "reselect", "switch", "gone", "agent", "unreachable"} :
          e \notin scenario
    BY <1>1 DEF PlainEdits, Absent
<1>3. "text" \notin EditTargets
    BY <1>2 DEF EditTargets
<1> QED BY <1>2, <1>3 DEF PlainEdits

\* At the start the list is empty and the page as it came.
LEMMA PlainInit == Init => PlainInv
<1> SUFFICES ASSUME Init, PlainEdits
             PROVE  /\ \A s \in Styles : Follows(s)
                    /\ page[activeTab][selected]["text"] = Original
    BY DEF PlainInv
<1>1. "styled" \notin scenario
    BY PlainCircumstances
<1>2. /\ tracker = NewTracker /\ selected \in Selectors /\ activeTab \in Tabs /\ queue = <<>>
      /\ page = [tab \in Tabs |-> [selector \in Selectors |->
                   [target \in Written |-> OriginalValue(target)]]]
    BY DEF Init
<1>3. \A target \in Written : page[activeTab][selected][target] = OriginalValue(target)
    BY <1>2
<1>4. "text" \in Written /\ Styles \subseteq Written /\ "text" \notin Styles
    BY StylesAssumption DEF Written
<1>5. ASSUME NEW s \in Styles PROVE Follows(s)
  <2>1. page[activeTab][selected][s] = Empty
      BY <1>1, <1>3, <1>4 DEF OriginalValue
  <2>2. PendingAt(tracker.changes, s) = {}
      BY <1>2 DEF NewTracker, PendingAt
  <2> QED BY <1>2, <2>1, <2>2 DEF Follows, LastIn, Shows
<1>6. page[activeTab][selected]["text"] = Original
    BY <1>3, <1>4 DEF OriginalValue
<1> QED BY <1>5, <1>6

\* Every step keeps the page following the list.
LEMMA PlainStep ==
    EditInv /\ EditInv' /\ PageInv /\ SelectorInv /\ PlainInv /\ [Next]_vars => PlainInv'
<1> SUFFICES ASSUME EditInv, EditInv', PageInv, SelectorInv, PlainInv, [Next]_vars, PlainEdits'
             PROVE  /\ \A s \in Styles : Follows(s)'
                    /\ page'[activeTab'][selected']["text"] = Original
    BY DEF PlainInv
<1> DEFINE Goal == /\ \A s \in Styles : Follows(s)'
                   /\ page'[activeTab'][selected']["text"] = Original
<1>1. ASSUME scenario' = scenario, merged => merged'
      PROVE  /\ PlainEdits
             /\ \A s \in Styles : Follows(s)
             /\ page[activeTab][selected]["text"] = Original
             /\ "unclear" \notin scenario /\ ~merged /\ ~merged'
  <2>1. PlainEdits /\ ~merged'
      BY <1>1 DEF PlainEdits, Absent
  <2> QED BY <2>1, PlainCircumstances DEF PlainInv
<1>2. ASSUME PanelSends PROVE Goal
  <2>1. PICK selector : Sent(selector)
      BY <1>2 DEF PanelSends
  <2>2. (merged => merged') /\ UNCHANGED <<scenario, selected, activeTab, page>>
      BY <1>2 DEF PanelSends, pageVars
  <2> QED BY <1>1, <2>1, <2>2, SentFollows
<1>3. ASSUME UNCHANGED <<scenario, tracker, selected, activeTab, queue, merged, page>> PROVE Goal
  <2>1. \A s \in Styles : Follows(s) => Follows(s)'
      BY <1>3 DEF Follows, Touching, Showing, EditTargets
  <2> QED BY <1>1, <1>3, <2>1
<1>4. ASSUME HandleMessage PROVE Goal
  <2>1. UNCHANGED <<scenario, selected, activeTab, merged>>
      BY <1>4 DEF HandleMessage
  <2>2. /\ "gone" \notin scenario /\ "reselect" \notin scenario /\ "text" \notin EditTargets
        /\ "unclear" \notin scenario /\ "unreachable" \notin scenario /\ ~merged
      BY <1>1, <2>1, PlainCircumstances
  <2>3. Reached(selected)
      BY <2>2 DEF PageInv, PageTypes, Found, Reached
  <2>4. Head(queue).selector = selected
    <3>1. queue # <<>> /\ queue \in Seq(Messages(EditTargets))
        BY <1>4 DEF HandleMessage, EditInv, EditTypes
    <3>2. 1 \in DOMAIN queue /\ Head(queue) = queue[1]
        BY <3>1, TailFacts
    <3> QED BY <2>2, <3>2 DEF SelectorInv
  <2>5. \A s \in Styles : Follows(s)'
      BY <1>1, <1>4, <2>1, <2>3, <2>4, HandledFollows DEF PageInv
  <2>6. page'[activeTab][selected]["text"] = page[activeTab][selected]["text"]
      BY <1>4, <2>2, <2>3, <2>4, HandleOnPage DEF EditInv, PageInv
  <2> QED BY <1>1, <2>1, <2>5, <2>6
<1>5. ASSUME \/ \E i \in DOMAIN updates : UpdateEnds(i)
             \/ Reselect \/ SwitchTab \/ Reconnect
             \/ \E tab \in Tabs, selector \in Selectors : ReplaceElement(tab, selector)
             \/ \E selection \in Selections : AgentPreviews(selection)
             \/ AgentClears
      PROVE  Goal
  <2>1. UNCHANGED <<scenario, tracker, queue, merged>>
      BY <1>5 DEF UpdateEnds, Reselect, SwitchTab, Reconnect, ReplaceElement, AgentPreviews, AgentClears, panelVars
  <2>2. "reselect" \notin scenario /\ "switch" \notin scenario /\ "agent" \notin scenario
      BY <1>1, <2>1, PlainCircumstances
  <2>3. ~AgentClears
      BY <2>2, AgentClearsStep DEF PageInv, PageTypes
  <2>4. UNCHANGED <<selected, activeTab, page>>
      BY <1>5, <2>2, <2>3 DEF UpdateEnds, Reselect, SwitchTab, Reconnect, ReplaceElement, AgentPreviews,
                               panelVars, pageVars
  <2> QED BY <1>3, <2>1, <2>4
<1> HIDE DEF Goal
<1>6. Goal
  <2>1. CASE \/ ClickApply \/ \E n \in DOMAIN designs : ContinueApply(n)
             \/ \E id \in 1 .. tracker.lastId : ClickRevert(id)
             \/ ClickClear \/ ClickUndo \/ ClickRedo \/ UNCHANGED vars
    <3>1. PanelKeeps => UNCHANGED <<scenario, tracker, selected, activeTab, queue, merged, page>>
        BY DEF PanelKeeps, pageVars
    <3> QED BY <1>2, <1>3, <2>1, <3>1, PanelSteps
  <2> QED BY <1>4, <1>5, <2>1 DEF Next
<1> QED BY <1>6 DEF Goal

\* When all messages are handled, the page shows what the list says: every style its pending
\* change, or else nothing, whatever was reverted, cleared, undone and redone in between
\* (sidepanel.ts: applyStyle, revert; service-worker.ts: handleMessage).
THEOREM PageFollowsEdits == Spec => []PageShowsPlainEdits
<1>1. EditInv /\ PlainInv => PageShowsPlainEdits
  <2> SUFFICES ASSUME EditInv, PlainInv, PlainEdits, queue = <<>>, NEW target \in Written
               PROVE  page[activeTab][selected][target] =
                         LET pending == PendingAt(tracker.changes, target)
                         IN  IF pending = {} THEN OriginalValue(target)
                             ELSE tracker.changes[Max(pending)].new
      BY DEF PageShowsPlainEdits, PageShowsTracker, PlainEdits, Idle
  <2> DEFINE l == tracker.changes
             T == EditTargets
  <2>1. /\ "styled" \notin scenario /\ "text" \notin T /\ ~merged
        /\ \A s \in Styles : Follows(s)
        /\ page[activeTab][selected]["text"] = Original
      BY PlainCircumstances DEF PlainInv
  <2>2. tracker \in Trackers(T) /\ l \in Seq(Changes(T)) /\ l \in Lists(T, tracker.lastId)
    <3>1. tracker \in Trackers(T) /\ History(tracker, T)
        BY <2>1 DEF EditInv, EditTypes, HistoryIsExact
    <3> QED BY <3>1, HistoryHasList DEF Trackers
  <2> HIDE DEF T, l
  <2>3. CASE target = "text"
    <3>1. PendingAt(l, "text") = {}
      <4>1. \A i \in PendingAt(l, "text") : l[i] \in Changes(T) /\ l[i].target = "text"
          BY <2>2, PendingPlaces
      <4> QED BY <2>1, <4>1 DEF Changes
    <3> QED BY <2>1, <2>3, <3>1 DEF OriginalValue, l
  <2>4. CASE target \in Styles
    <3>1. NoneIn(queue, Touching(target, T))
        BY DEF NoneIn
    <3>2. Shows(l, target, page[activeTab][selected][target])
        BY <2>1, <2>4, <3>1 DEF Follows, l, T
    <3>3. CASE PendingAt(l, target) = {}
        BY <2>1, <2>4, <3>2, <3>3, StylesAssumption DEF Shows, OriginalValue, l
    <3>4. CASE PendingAt(l, target) # {}
      <4>1. PICK i \in PendingAt(l, target) : page[activeTab][selected][target] = l[i].new
          BY <3>2, <3>4 DEF Shows
      <4>2. Max(PendingAt(l, target)) \in PendingAt(l, target)
          BY <2>2, <3>4, PendingPlaces
      <4>3. target \in T
        <5>1. l[i] \in Changes(T) /\ l[i].target = target
            BY <2>2, <4>1, PendingPlaces
        <5> QED BY <5>1 DEF Changes
      <4>4. Max(PendingAt(l, target)) = i
          BY <2>2, <4>1, <4>2, <4>3 DEF Lists
      <4> QED BY <3>4, <4>1, <4>4 DEF l
    <3> QED BY <3>3, <3>4
  <2> QED BY <2>3, <2>4 DEF Written
<1>2. Init => SelectorInv /\ PlainInv
    BY SelectorInit, PlainInit
<1>3. (EditInv /\ PageInv) /\ (EditInv /\ PageInv)' /\ (SelectorInv /\ PlainInv) /\ [Next]_vars
          => (SelectorInv /\ PlainInv)'
    BY SelectorStep, PlainStep
<1> QED BY <1>1, <1>2, <1>3, PageInvariant, PTL DEF Spec


-------------------------------------------------------------------------------
(* What the gateway has to be told of a list                               *)

Entries(l, id) == {l[i] : i \in {j \in DOMAIN l : l[j].id = id}}

Told(x) == [status |-> x.status, new |-> x.new]

\* What the gateway was last told of a change is right.
Agrees(l, id, what) ==
    IF Entries(l, id) = {} THEN what.status = "reverted"
    ELSE \E x \in Entries(l, id) : what = Told(x)

\* The messages that tell of a change, and those of them that tell what the list has.
About(id, T) ==
    {m \in Messages(T) : \/ m.type \in {"edit", "revert"} /\ m.change.id = id
                         \/ m.type = "clear" /\ \E x \in PendingIn(m.changes) : x.id = id}

Telling(id, T, l) ==
    {m \in Messages(T) :
        \/ m.type \in {"edit", "revert"} /\ Agrees(l, id, Told(m.change))
        \/ /\ m.type = "clear"
           /\ \A x \in PendingIn(m.changes) : x.id = id => Agrees(l, id, Told(Reverted(x)))}

\* The parts of a change that is reverted.
LEMMA RevertedParts ==
    ASSUME NEW T, NEW x \in Changes(T)
    PROVE  /\ Reverted(x).id = x.id /\ Reverted(x).new = x.new
           /\ Reverted(x).status = "reverted"
BY DEF Reverted, Changes

\* An edit brings its change.
LEMMA ApplyEntries ==
    ASSUME NEW T, NEW n, NEW b \in Lists(T, n), NEW a \in Actions(T), NEW c,
           LinkedApply(b, a, c)
    PROVE  /\ Entries(b, a.change.id) = {} /\ a.change \in Entries(c, a.change.id)
           /\ \A id : id # a.change.id => Entries(b, id) = Entries(c, id)
<1> DEFINE x == a.change
           last == Len(b) + 1
<1>1. /\ x \in Changes(T) /\ c = Append(b, x) /\ \A i \in DOMAIN b : b[i].id # x.id
    BY DEF LinkedApply, Actions
<1> HIDE DEF x
<1>2. /\ Len(b) \in Nat /\ DOMAIN b = 1 .. Len(b) /\ DOMAIN c = 1 .. last
      /\ \A i \in 1 .. Len(b) : c[i] = b[i]
      /\ c[last] = x
    BY <1>1, AppendFacts, ListElements
<1>3. DOMAIN c = DOMAIN b \cup {last} /\ last \notin DOMAIN b
      /\ \A i \in DOMAIN b : c[i] = b[i]
    BY <1>2
<1>4. Entries(b, x.id) = {}
    BY <1>1 DEF Entries
<1>5. x \in Entries(c, x.id)
    BY <1>2, <1>3 DEF Entries
<1>6. ASSUME NEW id, id # x.id PROVE Entries(b, id) = Entries(c, id)
  <2>1. \A j \in DOMAIN c : c[j].id = id => j \in DOMAIN b
      BY <1>2, <1>3, <1>6
  <2> QED BY <1>3, <2>1 DEF Entries
<1> QED BY <1>4, <1>5, <1>6 DEF x

\* A revert changes its change in place.
LEMMA RevertEntries ==
    ASSUME NEW T, NEW n, NEW b \in Lists(T, n), NEW a \in Actions(T), NEW c,
           LinkedRevert(b, a, c)
    PROVE  /\ a.change \in Entries(b, a.change.id)
           /\ Reverted(a.change) \in Entries(c, a.change.id)
           /\ \A id : id # a.change.id => Entries(b, id) = Entries(c, id)
<1> DEFINE x == a.change
<1>1. x \in Changes(T)
    BY DEF LinkedRevert, Actions
<1>2. PICK p \in DOMAIN b : b[p] = x /\ c = [b EXCEPT ![p] = Reverted(x)]
    BY DEF LinkedRevert
<1> HIDE DEF x
<1>3. Reverted(x).id = x.id
    BY <1>1, RevertedParts
<1>4. /\ DOMAIN c = DOMAIN b /\ c[p] = Reverted(x)
      /\ \A i \in DOMAIN b : i # p => c[i] = b[i]
  <2>1. b \in [DOMAIN b -> Changes(T)]
      BY ListElements, LenProperties
  <2> QED BY <1>2, <2>1
<1>5. x \in Entries(b, x.id) /\ Reverted(x) \in Entries(c, x.id)
    BY <1>2, <1>3, <1>4 DEF Entries
<1>6. ASSUME NEW id, id # x.id PROVE Entries(b, id) = Entries(c, id)
  <2>1. \A j \in DOMAIN b : b[j].id = id \/ c[j].id = id => j # p
      BY <1>2, <1>3, <1>4, <1>6
  <2> QED BY <1>4, <2>1 DEF Entries
<1> QED BY <1>5, <1>6 DEF x

\* Clear all changes the pending ones in place.
LEMMA ClearEntries ==
    ASSUME NEW T, NEW n, NEW b \in Lists(T, n), NEW id
    PROVE  LET c == AllReverted(b)
           IN  /\ \A x \in PendingIn(b) : x.id = id => Reverted(x) \in Entries(c, id)
               /\ (\A x \in PendingIn(b) : x.id # id) => Entries(b, id) = Entries(c, id)
<1> DEFINE c == AllReverted(b)
<1>1. b \in Seq(Changes(T))
    BY DEF Lists
<1>2. /\ DOMAIN c = DOMAIN b
      /\ \A i \in DOMAIN b :
            /\ b[i] \in Changes(T)
            /\ b[i].status = "pending" => c[i] = Reverted(b[i])
            /\ b[i].status # "pending" => c[i] = b[i]
            /\ c[i].id = b[i].id
    BY <1>1, AllRevertedFacts
<1> HIDE DEF c
<1>3. ASSUME NEW x \in PendingIn(b), x.id = id PROVE Reverted(x) \in Entries(c, id)
  <2>1. PICK i \in DOMAIN b : b[i] = x /\ b[i].status = "pending"
      BY <1>3 DEF PendingIn
  <2>2. c[i] = Reverted(x) /\ c[i].id = id
      BY <1>2, <1>3, <2>1
  <2> QED BY <1>2, <2>1, <2>2 DEF Entries
<1>4. ASSUME \A x \in PendingIn(b) : x.id # id PROVE Entries(b, id) = Entries(c, id)
  <2>1. \A i \in DOMAIN b : b[i].id = id => b[i].status # "pending"
      BY <1>4 DEF PendingIn
  <2>2. \A i \in DOMAIN b : b[i].id = id => c[i] = b[i]
      BY <1>2, <2>1
  <2> QED BY <1>2, <2>2 DEF Entries
<1> QED BY <1>3, <1>4 DEF c

\* A message of the panel tells what the new list has, or the list has the same.
LEMMA ReportsTold ==
    ASSUME NEW T, NEW n, NEW b \in Lists(T, n), NEW k, NEW c \in Lists(T, k),
           NEW m \in Messages(T), Reports(m, b, c, T), NEW id
    PROVE  /\ m \in About(id, T) => m \in Telling(id, T, c)
           /\ m \notin About(id, T) => Entries(b, id) = Entries(c, id)
<1> PICK a \in Actions(T) :
        \/ /\ m.type = "edit" /\ m.change = a.change
           /\ LinkedApply(b, a, c) \/ LinkedRevert(c, a, b)
        \/ /\ m.type = "revert" /\ m.change = Reverted(a.change)
           /\ LinkedRevert(b, a, c) \/ LinkedApply(c, a, b)
        \/ m.type = "clear" /\ m.changes = b /\ LinkedClear(b, a, c)
    BY DEF Reports
<1> DEFINE x == a.change
<1>1. CASE /\ m.type = "edit" /\ m.change = x
           /\ LinkedApply(b, a, c) \/ LinkedRevert(c, a, b)
  <2>1. /\ x \in Entries(c, x.id)
        /\ id # x.id => Entries(b, id) = Entries(c, id)
      BY <1>1, ApplyEntries, RevertEntries
  <2>2. m \in About(id, T) <=> id = x.id
      BY <1>1 DEF About
  <2>3. Agrees(c, x.id, Told(x))
      BY <2>1 DEF Agrees
  <2> QED BY <1>1, <2>1, <2>2, <2>3 DEF Telling
<1>2. CASE /\ m.type = "revert" /\ m.change = Reverted(x)
           /\ LinkedRevert(b, a, c) \/ LinkedApply(c, a, b)
  <2>1. x \in Changes(T)
      BY <1>2 DEF LinkedRevert, LinkedApply, Actions
  <2>2. Reverted(x).id = x.id /\ Told(Reverted(x)).status = "reverted"
      BY <2>1, RevertedParts DEF Told
  <2>3. /\ Reverted(x) \in Entries(c, x.id) \/ Entries(c, x.id) = {}
        /\ id # x.id => Entries(b, id) = Entries(c, id)
      BY <1>2, ApplyEntries, RevertEntries
  <2>4. m \in About(id, T) <=> id = x.id
      BY <1>2, <2>2 DEF About
  <2>5. Agrees(c, x.id, Told(Reverted(x)))
      BY <2>2, <2>3 DEF Agrees
  <2> QED BY <1>2, <2>3, <2>4, <2>5 DEF Telling
<1>3. CASE m.type = "clear" /\ m.changes = b /\ LinkedClear(b, a, c)
  <2>1. c = AllReverted(b)
      BY <1>3 DEF LinkedClear
  <2>2. /\ \A y \in PendingIn(b) : y.id = id => Reverted(y) \in Entries(c, id)
        /\ (\A y \in PendingIn(b) : y.id # id) => Entries(b, id) = Entries(c, id)
      BY <2>1, ClearEntries
  <2>3. \A y \in PendingIn(b) : y.id = id => Agrees(c, id, Told(Reverted(y)))
      BY <2>2 DEF Agrees
  <2> QED BY <1>3, <2>2, <2>3 DEF About, Telling
<1> QED BY <1>1, <1>2, <1>3

\* The gateway has what it is told of some changes, and otherwise what it had.
Pushed(selector, S) ==
    /\ DOMAIN gateway' = DOMAIN gateway \cup {<<selector, x.id>> : x \in S}
    /\ \A id : IF \E x \in S : x.id = id
               THEN \E x \in S : x.id = id /\ gateway'[<<selector, id>>] = Told(x)
               ELSE /\ <<selector, id>> \in DOMAIN gateway' <=> <<selector, id>> \in DOMAIN gateway
                    /\ <<selector, id>> \in DOMAIN gateway =>
                          gateway'[<<selector, id>>] = gateway[<<selector, id>>]

\* The gateway is told of some changes.
LEMMA PushFacts ==
    ASSUME online = TRUE, "refused" \notin scenario, "sourced" \notin scenario
    PROVE  \A selector, S : Push(selector, S) => Pushed(selector, S)
<1> SUFFICES ASSUME NEW selector, NEW S, Push(selector, S) PROVE Pushed(selector, S)
    OBVIOUS
<1> DEFINE told(key) == {[status |-> c.status, new |-> c.new] :
                            c \in {d \in S : key = <<selector, d.id>>}}
           keys == DOMAIN gateway \cup {<<selector, x.id>> : x \in S}
<1>1. gateway' = [key \in keys |-> IF told(key) = {} THEN gateway[key]
                                   ELSE CHOOSE what \in told(key) : TRUE]
  <2>1. Taken(S) = {S}
      BY DEF Taken
  <2>2. gateway' = WithChanges(gateway, selector, S)
      BY <2>1 DEF Push
  <2> QED BY <2>2 DEF WithChanges
<1>2. \A id : told(<<selector, id>>) = {Told(x) : x \in {y \in S : y.id = id}}
    BY DEF Told
<1>3. \A id : <<selector, id>> \in {<<selector, x.id>> : x \in S} <=> \E x \in S : x.id = id
    OBVIOUS
<1> HIDE DEF told
<1>4. ASSUME NEW id, \E x \in S : x.id = id
      PROVE  \E x \in S : x.id = id /\ gateway'[<<selector, id>>] = Told(x)
  <2>1. told(<<selector, id>>) # {} /\ <<selector, id>> \in keys
      BY <1>2, <1>3, <1>4
  <2>2. gateway'[<<selector, id>>] \in told(<<selector, id>>)
      BY <1>1, <2>1
  <2> QED BY <1>2, <2>2
<1>5. ASSUME NEW id, ~(\E x \in S : x.id = id)
      PROVE  /\ <<selector, id>> \in keys <=> <<selector, id>> \in DOMAIN gateway
             /\ <<selector, id>> \in DOMAIN gateway =>
                   gateway'[<<selector, id>>] = gateway[<<selector, id>>]
  <2>1. told(<<selector, id>>) = {}
      BY <1>2, <1>5
  <2> QED BY <1>1, <1>3, <1>5, <2>1
<1> QED BY <1>1, <1>4, <1>5 DEF Pushed

\* What a message has the gateway told.
LEMMA HandlePushes ==
    ASSUME EditTypes, HandleMessage, Reached(Head(queue).selector)
    PROVE  LET m == Head(queue)
               T == EditTargets
           IN  \E S : /\ Push(m.selector, S)
                      /\ \A x \in S : x.id \in Nat
                      /\ \A id : m \in About(id, T) <=> \E x \in S : x.id = id
                      /\ \A id, l : m \in Telling(id, T, l) =>
                            \A x \in S : x.id = id => Agrees(l, id, Told(x))
<1> DEFINE m == Head(queue)
           T == EditTargets
           Goal == \E S : /\ Push(m.selector, S)
                          /\ \A x \in S : x.id \in Nat
                          /\ \A id : m \in About(id, T) <=> \E x \in S : x.id = id
                          /\ \A id, l : m \in Telling(id, T, l) =>
                                \A x \in S : x.id = id => Agrees(l, id, Told(x))
<1> HIDE DEF T
<1>1. m \in Messages(T)
    BY HandleMessageStep DEF T
<1>2. HandleEdit(m) \/ HandleRevert(m) \/ HandleClear(m)
    BY DEF HandleMessage
<1>3. Found(activeTab, m.selector) /\ "unreachable" \notin scenario
    BY DEF Reached
<1> HIDE DEF m
<1>4. ASSUME NEW x \in Changes(T), m.change = x, m.type \in {"edit", "revert"},
             Push(m.selector, {x})
      PROVE  Goal
  <2>1. \A y \in {x} : y.id \in Nat
      BY DEF Changes
  <2>2. \A id : m \in About(id, T) <=> \E y \in {x} : y.id = id
      BY <1>1, <1>4 DEF About
  <2>3. \A id, l : m \in Telling(id, T, l) => \A y \in {x} : y.id = id => Agrees(l, id, Told(y))
      BY <1>4 DEF Telling
  <2> QED BY <1>4, <2>1, <2>2, <2>3
<1>5. ASSUME HandleEdit(m) PROVE Goal
  <2>1. m.type = "edit" /\ m.change \in Changes(T)
      BY <1>1, <1>5, MessageKinds DEF HandleEdit
  <2>2. \A v : WorkerChange(m.change, v) = m.change
      BY <2>1, WorkerKeepsChange
  <2>3. Push(m.selector, {m.change})
      BY <1>3, <1>5, <2>2 DEF HandleEdit, Unreachable
  <2> QED BY <1>4, <2>1, <2>3
<1>6. ASSUME HandleRevert(m) PROVE Goal
  <2>1. m.type = "revert" /\ m.change \in Changes(T)
      BY <1>1, <1>6, MessageKinds DEF HandleRevert
  <2>2. Push(m.selector, {m.change})
      BY <1>3, <1>6 DEF HandleRevert, Unreachable
  <2> QED BY <1>4, <2>1, <2>2
<1>7. ASSUME HandleClear(m) PROVE Goal
  <2> DEFINE P == PendingIn(m.changes)
             S == {Reverted(x) : x \in P}
  <2>1. m.type = "clear" /\ m.changes \in Seq(Changes(T))
      BY <1>1, <1>7, MessageKinds DEF HandleClear
  <2>2. Push(m.selector, S)
      BY <1>3, <1>7 DEF HandleClear, Reverted, Unreachable
  <2>3. P \subseteq Changes(T)
      BY <2>1, LenProperties, ElementOfSeq DEF PendingIn
  <2>4. \A x \in P : Reverted(x).id = x.id /\ x.id \in Nat
      BY <2>3, RevertedParts DEF Changes
  <2>5. \A x \in S : x.id \in Nat
      BY <2>4
  <2>6. \A id : m \in About(id, T) <=> \E x \in P : x.id = id
      BY <1>1, <2>1 DEF About
  <2>7. \A id, l : m \in Telling(id, T, l) =>
            \A x \in P : x.id = id => Agrees(l, id, Told(Reverted(x)))
      BY <2>1 DEF Telling
  <2> HIDE DEF P
  <2>8. \A id : m \in About(id, T) <=> \E x \in S : x.id = id
      BY <2>4, <2>6
  <2>9. \A id, l : m \in Telling(id, T, l) => \A x \in S : x.id = id => Agrees(l, id, Told(x))
      BY <2>4, <2>7
  <2> HIDE DEF S
  <2> QED BY <2>2, <2>5, <2>8, <2>9
<1>8. Goal
    BY <1>2, <1>5, <1>6, <1>7
<1> QED BY <1>8 DEF m, T

\* The last message about a change tells what the list has; when none is on its way, the
\* gateway was told so, or the list never had the change.
Tells(id) ==
    /\ LastIn(queue, About(id, EditTargets), Telling(id, EditTargets, tracker.changes))
    /\ NoneIn(queue, About(id, EditTargets)) =>
          IF <<selected, id>> \in DOMAIN gateway
          THEN Agrees(tracker.changes, id, gateway[<<selected, id>>])
          ELSE Entries(tracker.changes, id) = {}

OrderlyEdits ==
    Absent({"unclear", "reselect", "gone", "unreachable", "offline", "refused", "sourced"}) /\ ~merged

GatewayInv ==
    OrderlyEdits =>
        /\ \A key \in DOMAIN gateway : \E id \in Nat : key = <<selected, id>>
        /\ \A id \in Nat : Tells(id)

\* What does not happen then.
LEMMA OrderlyCircumstances ==
    ASSUME OrderlyEdits
    PROVE  /\ "unclear" \notin scenario /\ "reselect" \notin scenario
           /\ "gone" \notin scenario /\ "unreachable" \notin scenario /\ "offline" \notin scenario
           /\ "refused" \notin scenario /\ "sourced" \notin scenario /\ ~merged
BY DEF OrderlyEdits, Absent

\* A change of the list is sent.
LEMMA SentTells ==
    ASSUME EditInv, EditInv', UNCHANGED <<scenario, selected, gateway>>,
           NEW selector, Sent(selector), ~merged, ~merged', "unclear" \notin scenario,
           NEW id, Tells(id)
    PROVE  Tells(id)'
<1> DEFINE T == EditTargets
           b == tracker.changes
           c == tracker'.changes
           M == About(id, T)
           Right(l) == IF <<selected, id>> \in DOMAIN gateway
                       THEN Agrees(l, id, gateway[<<selected, id>>]) ELSE Entries(l, id) = {}
<1>1. T' = T
    BY DEF EditTargets
<1>2. b \in Lists(T, tracker.lastId)
  <2>1. tracker \in Trackers(T) /\ History(tracker, T)
      BY DEF EditInv, EditTypes, HistoryIsExact
  <2> QED BY <2>1, HistoryHasList
<1>3. c \in Lists(T, tracker'.lastId)
  <2>1. tracker' \in Trackers(T) /\ History(tracker', T)
      BY <1>1 DEF EditInv, EditTypes, HistoryIsExact
  <2> QED BY <2>1, HistoryHasList
<1>4. queue \in Seq(Messages(T))
    BY DEF EditInv, EditTypes
<1>5. PICK m \in Messages(T) : queue' = Append(queue, m) /\ Reports(m, b, c, T)
    BY DEF Sent
<1>6. LastIn(queue, M, Telling(id, T, b)) /\ (NoneIn(queue, M) => Right(b))
    BY DEF Tells
<1>7. SUFFICES LastIn(queue', M, Telling(id, T, c)) /\ (NoneIn(queue', M) => Right(c))
    BY <1>1 DEF Tells, About, Telling
<1> HIDE DEF T, b, c
<1>8. /\ m \in M => m \in Telling(id, T, c)
      /\ m \notin M => Entries(b, id) = Entries(c, id)
    BY <1>2, <1>3, <1>5, ReportsTold
<1>9. CASE m \in M
  <2> HIDE DEF M, Right
  <2> QED BY <1>4, <1>5, <1>8, <1>9, SentDecides
<1>10. CASE m \notin M
  <2>1. \A what : Agrees(b, id, what) => Agrees(c, id, what)
      BY <1>8, <1>10 DEF Agrees
  <2>2. \A e \in Messages(T) : e \in Telling(id, T, b) => e \in Telling(id, T, c)
      BY <2>1 DEF Telling
  <2>3. Right(b) => Right(c)
      BY <1>8, <1>10, <2>1
  <2> HIDE DEF M, Right
  <2>4. NoneIn(queue', M) => NoneIn(queue, M)
      BY <1>4, <1>5, <1>10, SentKeeps
  <2>5. LastIn(queue', M, Telling(id, T, c))
      BY <1>4, <1>5, <1>6, <1>10, <2>2, SentKeeps
  <2> QED BY <1>6, <2>3, <2>4, <2>5
<1> QED BY <1>9, <1>10

\* A message is handled.
LEMMA HandledTells ==
    ASSUME EditInv, HandleMessage, Head(queue).selector = selected, online = TRUE,
           "refused" \notin scenario, "sourced" \notin scenario, Reached(selected),
           \A key \in DOMAIN gateway : \E id \in Nat : key = <<selected, id>>
    PROVE  /\ \A key \in DOMAIN gateway' : \E id \in Nat : key = <<selected, id>>
           /\ \A id : Tells(id) => Tells(id)'
<1> DEFINE T == EditTargets
           l == tracker.changes
           m == Head(queue)
<1>1. T' = T /\ l' = l /\ queue # <<>> /\ queue' = Tail(queue) /\ UNCHANGED selected
    BY DEF EditTargets, HandleMessage
<1>2. queue \in Seq(Messages(T)) /\ EditTypes
    BY DEF EditInv, EditTypes
<1>3. PICK S : /\ Push(selected, S)
               /\ \A x \in S : x.id \in Nat
               /\ \A id : m \in About(id, T) <=> \E x \in S : x.id = id
               /\ \A id, list : m \in Telling(id, T, list) =>
                     \A x \in S : x.id = id => Agrees(list, id, Told(x))
  <2>1. Reached(Head(queue).selector)
      OBVIOUS
  <2>2. \E S : /\ Push(m.selector, S)
               /\ \A x \in S : x.id \in Nat
               /\ \A id : m \in About(id, T) <=> \E x \in S : x.id = id
               /\ \A id, list : m \in Telling(id, T, list) =>
                     \A x \in S : x.id = id => Agrees(list, id, Told(x))
      BY <1>2, <2>1, HandlePushes
  <2> QED BY <2>2
<1>4. Pushed(selected, S)
    BY <1>3, PushFacts
<1>5. \A key \in DOMAIN gateway' : \E id \in Nat : key = <<selected, id>>
    BY <1>3, <1>4 DEF Pushed
<1>6. ASSUME NEW id, Tells(id) PROVE Tells(id)'
  <2> DEFINE M == About(id, T)
             G == Telling(id, T, l)
             key == <<selected, id>>
             Right == IF key \in DOMAIN gateway THEN Agrees(l, id, gateway[key])
                      ELSE Entries(l, id) = {}
             RightThen == IF key \in DOMAIN gateway' THEN Agrees(l, id, gateway'[key])
                          ELSE Entries(l, id) = {}
  <2>1. LastIn(queue, M, G) /\ (NoneIn(queue, M) => Right)
      BY <1>6 DEF Tells
  <2>2. SUFFICES LastIn(queue', M, G) /\ (NoneIn(queue', M) => RightThen)
      BY <1>1 DEF Tells, About, Telling
  <2>3. m \in M /\ m \in G => RightThen
    <3>1. SUFFICES ASSUME m \in M, m \in G PROVE RightThen
        OBVIOUS
    <3>2. PICK x \in S : x.id = id /\ gateway'[key] = Told(x)
        BY <1>3, <1>4, <3>1 DEF Pushed
    <3>3. key \in DOMAIN gateway' /\ Agrees(l, id, Told(x))
        BY <1>3, <1>4, <3>1, <3>2 DEF Pushed
    <3> QED BY <3>2, <3>3
  <2>4. m \notin M /\ Right => RightThen
      BY <1>3, <1>4 DEF Pushed
  <2> HIDE DEF T, l, M, G, m, Right, RightThen
  <2>5. /\ LastIn(queue', M, G)
        /\ NoneIn(queue', M) /\ m \in M => m \in G
        /\ NoneIn(queue', M) /\ m \notin M => NoneIn(queue, M)
      BY <1>1, <1>2, <2>1, TakenDecides DEF m
  <2> QED BY <2>1, <2>3, <2>4, <2>5
<1> QED BY <1>5, <1>6

\* At the start nothing was told.
LEMMA GatewayInit == Init => GatewayInv
<1> SUFFICES ASSUME Init, NEW id \in Nat PROVE DOMAIN gateway = {} /\ Tells(id)
    BY DEF GatewayInv
<1>1. tracker.changes = <<>> /\ queue = <<>> /\ DOMAIN gateway = {}
    BY DEF Init, NewTracker, EmptyMap
<1>2. Entries(tracker.changes, id) = {}
    BY <1>1 DEF Entries
<1> QED BY <1>1, <1>2 DEF Tells, LastIn

\* Every step keeps the gateway following the list.
LEMMA GatewayStep ==
    EditInv /\ EditInv' /\ PageInv /\ SelectorInv /\ GatewayInv /\ [Next]_vars => GatewayInv'
<1> SUFFICES ASSUME EditInv, EditInv', PageInv, SelectorInv, GatewayInv, [Next]_vars, OrderlyEdits'
             PROVE  /\ \A key \in DOMAIN gateway' : \E id \in Nat : key = <<selected', id>>
                    /\ \A id \in Nat : Tells(id)'
    BY DEF GatewayInv
<1> DEFINE Goal == /\ \A key \in DOMAIN gateway' : \E id \in Nat : key = <<selected', id>>
                   /\ \A id \in Nat : Tells(id)'
<1>1. ASSUME scenario' = scenario, merged => merged'
      PROVE  /\ OrderlyEdits
             /\ \A key \in DOMAIN gateway : \E id \in Nat : key = <<selected, id>>
             /\ \A id \in Nat : Tells(id)
             /\ "unclear" \notin scenario /\ ~merged /\ ~merged'
  <2>1. OrderlyEdits /\ ~merged'
      BY <1>1 DEF OrderlyEdits, Absent
  <2> QED BY <2>1, OrderlyCircumstances DEF GatewayInv
<1>2. ASSUME PanelSends PROVE Goal
  <2>1. PICK selector : Sent(selector)
      BY <1>2 DEF PanelSends
  <2>2. (merged => merged') /\ UNCHANGED <<scenario, selected, gateway>>
      BY <1>2 DEF PanelSends
  <2>3. \A id \in Nat : Tells(id)'
      BY <1>1, <2>1, <2>2, SentTells
  <2> QED BY <1>1, <2>2, <2>3
<1>3. ASSUME UNCHANGED <<scenario, tracker, selected, queue, merged, gateway>> PROVE Goal
  <2>1. \A id \in Nat : Tells(id) => Tells(id)'
      BY <1>3 DEF Tells, About, Telling, EditTargets
  <2> QED BY <1>1, <1>3, <2>1
<1>4. ASSUME HandleMessage PROVE Goal
  <2>1. UNCHANGED <<scenario, selected, merged>>
      BY <1>4 DEF HandleMessage
  <2>2. /\ "gone" \notin scenario /\ "reselect" \notin scenario /\ "offline" \notin scenario
        /\ "unclear" \notin scenario /\ "unreachable" \notin scenario
        /\ "refused" \notin scenario /\ "sourced" \notin scenario /\ ~merged
      BY <1>1, <2>1, OrderlyCircumstances
  <2>3. Reached(selected) /\ online = TRUE
      BY <2>2 DEF PageInv, PageTypes, Found, Reached
  <2>4. Head(queue).selector = selected
    <3>1. queue # <<>> /\ queue \in Seq(Messages(EditTargets))
        BY <1>4 DEF HandleMessage, EditInv, EditTypes
    <3>2. 1 \in DOMAIN queue /\ Head(queue) = queue[1]
        BY <3>1, TailFacts
    <3> QED BY <2>2, <3>2 DEF SelectorInv
  <2>5. /\ \A key \in DOMAIN gateway' : \E id \in Nat : key = <<selected, id>>
        /\ \A id : Tells(id) => Tells(id)'
      BY <1>1, <1>4, <2>1, <2>2, <2>3, <2>4, HandledTells
  <2> QED BY <1>1, <2>1, <2>5
<1>5. ASSUME \/ \E i \in DOMAIN updates : UpdateEnds(i)
             \/ Reselect \/ SwitchTab \/ Reconnect
             \/ \E tab \in Tabs, selector \in Selectors : ReplaceElement(tab, selector)
             \/ \E selection \in Selections : AgentPreviews(selection)
             \/ AgentClears
      PROVE  Goal
  <2>0. UNCHANGED <<scenario, tracker, queue, merged>>
      BY <1>5 DEF UpdateEnds, Reselect, SwitchTab, Reconnect, ReplaceElement, AgentPreviews,
                  AgentClears, panelVars
  <2>2. "reselect" \notin scenario /\ "sourced" \notin scenario
      BY <1>1, <2>0, OrderlyCircumstances
  <2>a. DOMAIN updates = {}
      BY <2>2 DEF PageInv, PageTypes
  <2>1. UNCHANGED <<scenario, tracker, queue, merged, gateway>>
      BY <1>5, <2>0, <2>a DEF Reselect, SwitchTab, Reconnect, ReplaceElement, AgentPreviews,
                       AgentClears, panelVars
  <2>3. UNCHANGED selected
      BY <1>5, <2>2, <2>a DEF Reselect, SwitchTab, Reconnect, ReplaceElement, AgentPreviews, AgentClears,
                       panelVars
  <2> QED BY <1>3, <2>1, <2>3
<1> HIDE DEF Goal
<1>6. Goal
  <2>1. CASE \/ ClickApply \/ \E n \in DOMAIN designs : ContinueApply(n)
             \/ \E id \in 1 .. tracker.lastId : ClickRevert(id)
             \/ ClickClear \/ ClickUndo \/ ClickRedo \/ UNCHANGED vars
    <3>1. PanelKeeps => UNCHANGED <<scenario, tracker, selected, queue, merged, gateway>>
        BY DEF PanelKeeps
    <3> QED BY <1>2, <1>3, <2>1, <3>1, PanelSteps
  <2> QED BY <1>4, <1>5, <2>1 DEF Next
<1> QED BY <1>6 DEF Goal

\* When all messages are handled, the gateway has the status and the value of every change
\* of the list, and every other change it has as reverted, as long as each push happens, is
\* taken, and is alone with its chip (sidepanel.ts: applyStyle, revert; service-worker.ts:
\* pushChangeUpdate).
THEOREM GatewayFollowsEdits == Spec => []GatewayHasTracker
<1>1. EditInv /\ GatewayInv => GatewayHasTracker
  <2> SUFFICES ASSUME EditInv, GatewayInv, OrderlyEdits, queue = <<>>
               PROVE  /\ \A c \in Range(tracker.changes) :
                            /\ <<selected, c.id>> \in DOMAIN gateway
                            /\ gateway[<<selected, c.id>>] = [status |-> c.status, new |-> c.new]
                      /\ \A key \in DOMAIN gateway :
                            Indexes(tracker, key[2]) = {} => gateway[key].status = "reverted"
      BY DEF GatewayHasTracker, OrderlyEdits, Idle
  <2> DEFINE l == tracker.changes
             T == EditTargets
  <2>1. /\ \A key \in DOMAIN gateway : \E id \in Nat : key = <<selected, id>>
        /\ \A id \in Nat : Tells(id)
        /\ ~merged
      BY OrderlyCircumstances DEF GatewayInv
  <2>2. \A id \in Nat :
            IF <<selected, id>> \in DOMAIN gateway THEN Agrees(l, id, gateway[<<selected, id>>])
            ELSE Entries(l, id) = {}
      BY <2>1 DEF Tells, NoneIn
  <2>3. tracker \in Trackers(T) /\ l \in Lists(T, tracker.lastId)
    <3>1. tracker \in Trackers(T) /\ History(tracker, T)
        BY <2>1 DEF EditInv, EditTypes, HistoryIsExact
    <3> QED BY <3>1, HistoryHasList
  <2>4. ASSUME NEW c \in Range(l)
        PROVE  <<selected, c.id>> \in DOMAIN gateway /\ gateway[<<selected, c.id>>] = Told(c)
    <3>1. PICK i \in DOMAIN l : l[i] = c
        BY DEF Range
    <3>2. c \in Entries(l, c.id)
        BY <3>1 DEF Entries
    <3>3. c.id \in Nat
      <4>1. c \in Changes(T)
          BY <2>3, <3>1, LenProperties, ElementOfSeq DEF Lists
      <4> QED BY <4>1 DEF Changes
    <3>4. <<selected, c.id>> \in DOMAIN gateway /\ Agrees(l, c.id, gateway[<<selected, c.id>>])
        BY <2>2, <3>2, <3>3
    <3>5. PICK x \in Entries(l, c.id) : gateway[<<selected, c.id>>] = Told(x)
        BY <3>2, <3>4 DEF Agrees
    <3>6. PICK j \in DOMAIN l : l[j] = x /\ l[j].id = c.id
        BY <3>5 DEF Entries
    <3>7. j = i
        BY <2>3, <3>1, <3>6 DEF Lists
    <3> QED BY <3>1, <3>4, <3>5, <3>6, <3>7
  <2>5. ASSUME NEW key \in DOMAIN gateway, Indexes(tracker, key[2]) = {}
        PROVE  gateway[key].status = "reverted"
    <3>1. PICK id \in Nat : key = <<selected, id>>
        BY <2>1
    <3>2. Entries(l, id) = {}
        BY <2>5, <3>1 DEF Indexes, Entries
    <3> QED BY <2>2, <3>1, <3>2 DEF Agrees
  <2> QED BY <2>4, <2>5 DEF Told
<1>2. Init => SelectorInv /\ GatewayInv
    BY SelectorInit, GatewayInit
<1>3. (EditInv /\ PageInv) /\ (EditInv /\ PageInv)' /\ (SelectorInv /\ GatewayInv) /\ [Next]_vars
          => (SelectorInv /\ GatewayInv)'
    BY SelectorStep, GatewayStep
<1> QED BY <1>1, <1>2, <1>3, PageInvariant, PTL DEF Spec

===============================================================================
