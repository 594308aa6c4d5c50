---------------------------- MODULE MailboxLemmas ----------------------------
(***************************************************************************)
(* A mailbox is a sequence: a message joins it at the end and is handled   *)
(* when it comes first.  What these two steps do to the messages that a    *)
(* mailbox holds, how often and in which order.                            *)
(***************************************************************************)
EXTENDS Naturals, Sequences, TLAPS

InBox(b, m) == \E i \in 1..Len(b) : b[i] = m
Single(b, m) == \A i, j \in 1..Len(b) : b[i] = m /\ b[j] = m => i = j
Before(b, m, n) == \A i, j \in 1..Len(b) : b[i] = m /\ b[j] = n => i < j

(* What the first message's leaving does to a mailbox.                     *)
LEMMA TailBox ==
    ASSUME NEW S, NEW b \in Seq(S), b # <<>>
    PROVE  /\ Tail(b) \in Seq(S)
           /\ Head(b) \in S /\ InBox(b, Head(b))
           /\ \A m : InBox(Tail(b), m) => InBox(b, m)
           /\ \A m : m # Head(b) /\ InBox(b, m) => InBox(Tail(b), m)
           /\ \A m : Single(b, m) => Single(Tail(b), m)
           /\ Single(b, Head(b)) => ~InBox(Tail(b), Head(b))
<1> DEFINE t == Tail(b)
<1>1. /\ t \in Seq(S) /\ Len(b) \in Nat \ {0} /\ Len(t) = Len(b) - 1
      /\ \A i \in 1..Len(t) : t[i] = b[i + 1]
      /\ Head(b) = b[1] /\ Head(b) \in S
  OBVIOUS
<1>2. \A i \in 1..Len(t) : i + 1 \in 1..Len(b)
  BY <1>1
<1>3. \A i \in 1..Len(b) : i # 1 => i - 1 \in 1..Len(t) /\ t[i - 1] = b[i]
  BY <1>1
<1>4. InBox(b, Head(b))
  BY <1>1 DEF InBox
<1>5. \A m : InBox(t, m) => InBox(b, m)
  BY <1>1, <1>2 DEF InBox
<1>6. \A m : m # Head(b) /\ InBox(b, m) => InBox(t, m)
  BY <1>1, <1>3 DEF InBox
<1>7. \A m : Single(b, m) => Single(t, m)
  <2>1. SUFFICES ASSUME NEW m, Single(b, m), NEW i \in 1..Len(t), NEW j \in 1..Len(t),
                        t[i] = m, t[j] = m
                 PROVE  i = j
    BY DEF Single
  <2>2. i + 1 = j + 1
    BY <1>1, <1>2, <2>1 DEF Single
  <2>3. QED
    BY <2>2
<1>8. Single(b, Head(b)) => ~InBox(t, Head(b))
  <2>1. SUFFICES ASSUME Single(b, Head(b)), NEW i \in 1..Len(t), t[i] = Head(b)
                 PROVE  FALSE
    BY DEF InBox
  <2>2. b[i + 1] = Head(b) /\ b[1] = Head(b) /\ i + 1 \in 1..Len(b) /\ 1 \in 1..Len(b)
    BY <1>1, <1>2, <2>1
  <2>3. i + 1 = 1
    BY <2>1, <2>2 DEF Single
  <2>4. QED
    BY <2>3
<1>9. QED
  BY <1>1, <1>4, <1>5, <1>6, <1>7, <1>8

(* What a new message does to a mailbox.                                   *)
LEMMA AppendBox ==
    ASSUME NEW S, NEW b \in Seq(S), NEW x \in S
    PROVE  /\ Append(b, x) \in Seq(S)
           /\ Len(Append(b, x)) = Len(b) + 1
           /\ \A m : InBox(Append(b, x), m) <=> InBox(b, m) \/ m = x
           /\ \A m : Single(b, m) /\ (m = x => ~InBox(b, m)) => Single(Append(b, x), m)
<1> DEFINE a == Append(b, x)
<1>1. /\ a \in Seq(S) /\ Len(b) \in Nat /\ Len(a) = Len(b) + 1
      /\ \A i \in 1..Len(b) : a[i] = b[i]
      /\ a[Len(a)] = x
  OBVIOUS
<1>2. \A i \in 1..Len(a) : i \in 1..Len(b) \/ i = Len(a)
  BY <1>1
<1>3. \A i \in 1..Len(b) : i \in 1..Len(a)
  BY <1>1
<1>4. Len(a) \in 1..Len(a)
  BY <1>1
<1> HIDE DEF a
<1>5. \A m : InBox(a, m) <=> InBox(b, m) \/ m = x
  BY <1>1, <1>2, <1>3, <1>4 DEF InBox
<1>6. \A m : Single(b, m) /\ (m = x => ~InBox(b, m)) => Single(a, m)
  <2>1. SUFFICES ASSUME NEW m, Single(b, m), m = x => ~InBox(b, m),
                        NEW i \in 1..Len(a), NEW j \in 1..Len(a), a[i] = m, a[j] = m
                 PROVE  i = j
    BY DEF Single
  <2>2. CASE m = x
    BY <1>1, <1>2, <2>1, <2>2 DEF InBox
  <2>3. CASE m # x
    BY <1>1, <1>2, <2>1, <2>3 DEF Single
  <2>4. QED
    BY <2>2, <2>3
<1>7. QED
  BY <1>1, <1>5, <1>6 DEF a

(* The order of the messages that stay is what it was, and whatever comes  *)
(* before the first message is not there.                                  *)
LEMMA TailOrder ==
    ASSUME NEW S, NEW b \in Seq(S), b # <<>>
    PROVE  /\ \A m, n : Before(b, m, n) => Before(Tail(b), m, n)
           /\ \A m : Before(b, m, Head(b)) => ~InBox(b, m)
<1> DEFINE t == Tail(b)
<1>1. /\ t \in Seq(S) /\ Len(b) \in Nat \ {0} /\ Len(t) = Len(b) - 1
      /\ \A i \in 1..Len(t) : t[i] = b[i + 1]
      /\ Head(b) = b[1]
  OBVIOUS
<1>2. ASSUME NEW m, NEW n, Before(b, m, n)
      PROVE  Before(t, m, n)
  <2>1. SUFFICES ASSUME NEW i \in 1..Len(t), NEW j \in 1..Len(t), t[i] = m, t[j] = n
                 PROVE  i < j
    BY DEF Before
  <2>2. i + 1 \in 1..Len(b) /\ j + 1 \in 1..Len(b) /\ b[i + 1] = m /\ b[j + 1] = n
    BY <1>1, <2>1
  <2>3. i + 1 < j + 1
    BY <1>2, <2>2 DEF Before
  <2>4. QED
    BY <2>3
<1>3. ASSUME NEW m, Before(b, m, Head(b)), InBox(b, m)
      PROVE  FALSE
  <2>1. PICK i \in 1..Len(b) : b[i] = m
    BY <1>3 DEF InBox
  <2>2. 1 \in 1..Len(b) /\ b[1] = Head(b)
    BY <1>1
  <2>3. i < 1
    BY <1>3, <2>1, <2>2 DEF Before
  <2>4. QED
    BY <2>1, <2>3
<1>4. QED
  BY <1>2, <1>3

(* A new message comes after all the others.                               *)
LEMMA AppendOrder ==
    ASSUME NEW S, NEW b \in Seq(S), NEW x \in S
    PROVE  \A m, n : m # n /\ Before(b, m, n) /\ (m = x => ~InBox(b, n))
                       => Before(Append(b, x), m, n)
<1> DEFINE a == Append(b, x)
<1>1. /\ Len(b) \in Nat /\ Len(a) = Len(b) + 1
      /\ \A i \in 1..Len(b) : a[i] = b[i]
      /\ a[Len(a)] = x
  OBVIOUS
<1>2. \A i \in 1..Len(a) : i \in 1..Len(b) \/ i = Len(a)
  BY <1>1
<1> HIDE DEF a
<1>3. SUFFICES ASSUME NEW m, NEW n, m # n, Before(b, m, n), m = x => ~InBox(b, n),
                      NEW i \in 1..Len(a), NEW j \in 1..Len(a), a[i] = m, a[j] = n
               PROVE  i < j
  BY DEF Before, a
<1>4. CASE i = Len(a)
  BY <1>1, <1>2, <1>3, <1>4 DEF InBox
<1>5. CASE i # Len(a) /\ j = Len(a)
  BY <1>1, <1>2, <1>5
<1>6. CASE i # Len(a) /\ j # Len(a)
  BY <1>1, <1>2, <1>3, <1>6 DEF Before
<1>7. QED
  BY <1>4, <1>5, <1>6

(* Two mailboxes' messages in one.                                         *)
LEMMA JoinBox ==
    ASSUME NEW S, NEW b \in Seq(S), NEW c \in Seq(S)
    PROVE  /\ b \o c \in Seq(S)
           /\ \A m : InBox(b \o c, m) <=> InBox(b, m) \/ InBox(c, m)
<1> DEFINE j == b \o c
<1>1. /\ j \in Seq(S) /\ Len(b) \in Nat /\ Len(c) \in Nat /\ Len(j) = Len(b) + Len(c)
      /\ \A i \in 1..Len(j) : j[i] = IF i <= Len(b) THEN b[i] ELSE c[i - Len(b)]
  OBVIOUS
<1> HIDE DEF j
<1>2. ASSUME NEW m, InBox(j, m)
      PROVE  InBox(b, m) \/ InBox(c, m)
  <2>1. PICK i \in 1..Len(j) : j[i] = m
    BY <1>2 DEF InBox
  <2>2. CASE i <= Len(b)
    BY <1>1, <2>1, <2>2 DEF InBox
  <2>3. CASE ~(i <= Len(b))
    <3>1. i - Len(b) \in 1..Len(c) /\ c[i - Len(b)] = m
      BY <1>1, <2>1, <2>3
    <3>2. QED
      BY <3>1 DEF InBox
  <2>4. QED
    BY <2>2, <2>3
<1>3. ASSUME NEW m, InBox(b, m)
      PROVE  InBox(j, m)
  <2>1. PICK i \in 1..Len(b) : b[i] = m
    BY <1>3 DEF InBox
  <2>2. i \in 1..Len(j) /\ j[i] = m
    BY <1>1, <2>1
  <2>3. QED
    BY <2>2 DEF InBox
<1>4. ASSUME NEW m, InBox(c, m)
      PROVE  InBox(j, m)
  <2>1. PICK i \in 1..Len(c) : c[i] = m
    BY <1>4 DEF InBox
  <2>2. i + Len(b) \in 1..Len(j) /\ ~(i + Len(b) <= Len(b)) /\ (i + Len(b)) - Len(b) = i
    BY <1>1, <2>1
  <2>3. j[i + Len(b)] = m
    BY <1>1, <2>1, <2>2
  <2>4. QED
    BY <2>2, <2>3 DEF InBox
<1>5. QED
  BY <1>1, <1>2, <1>3, <1>4 DEF j

(* The only message's leaving empties a mailbox.                           *)
LEMMA OnlyOneLeaves ==
    ASSUME NEW S, NEW q \in Seq(S), Len(q) = 1
    PROVE  Tail(q) = <<>>
<1>1. Tail(q) \in Seq(S) /\ Len(Tail(q)) = 0
  <2>1. q # <<>>
    OBVIOUS
  <2>2. QED
    BY <2>1
<1>2. \A x \in Seq(S) : Len(x) = 0 => x = <<>>
  OBVIOUS
<1>3. QED
  BY <1>1, <1>2

(* A mailbox of at most three messages.                                    *)
LEMMA ShortLists ==
    /\ \A x : ~InBox(<<>>, x)
    /\ \A a, x : InBox(<<a>>, x) <=> x = a
    /\ \A a, b, x : InBox(<<a, b>>, x) <=> x = a \/ x = b
    /\ \A a, b, c, x : InBox(<<a, b, c>>, x) <=> x = a \/ x = b \/ x = c
<1>1. \A x : ~InBox(<<>>, x)
  BY DEF InBox
<1>2. \A a, x : InBox(<<a>>, x) <=> x = a
  <2> SUFFICES ASSUME NEW a, NEW x PROVE InBox(<<a>>, x) <=> x = a
    OBVIOUS
  <2>1. Len(<<a>>) = 1 /\ <<a>>[1] = a /\ \A i \in 1..1 : i = 1
    OBVIOUS
  <2>2. 1 \in 1..1
    OBVIOUS
  <2>3. QED
    BY <2>1, <2>2 DEF InBox
<1>3. \A a, b, x : InBox(<<a, b>>, x) <=> x = a \/ x = b
  <2> SUFFICES ASSUME NEW a, NEW b, NEW x PROVE InBox(<<a, b>>, x) <=> x = a \/ x = b
    OBVIOUS
  <2>1. /\ Len(<<a, b>>) = 2 /\ <<a, b>>[1] = a /\ <<a, b>>[2] = b
        /\ \A i \in 1..2 : i = 1 \/ i = 2
    OBVIOUS
  <2>2. 1 \in 1..2 /\ 2 \in 1..2
    OBVIOUS
  <2>3. QED
    BY <2>1, <2>2 DEF InBox
<1>4. \A a, b, c, x : InBox(<<a, b, c>>, x) <=> x = a \/ x = b \/ x = c
  <2> SUFFICES ASSUME NEW a, NEW b, NEW c, NEW x
               PROVE  InBox(<<a, b, c>>, x) <=> x = a \/ x = b \/ x = c
    OBVIOUS
  <2>1. /\ Len(<<a, b, c>>) = 3
        /\ <<a, b, c>>[1] = a /\ <<a, b, c>>[2] = b /\ <<a, b, c>>[3] = c
        /\ \A i \in 1..3 : i = 1 \/ i = 2 \/ i = 3
    OBVIOUS
  <2>2. 1 \in 1..3 /\ 2 \in 1..3 /\ 3 \in 1..3
    OBVIOUS
  <2>3. QED
    BY <2>1, <2>2 DEF InBox
<1>5. QED
  BY <1>1, <1>2, <1>3, <1>4
=============================================================================
