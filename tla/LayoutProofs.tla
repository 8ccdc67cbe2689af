---------------------------- MODULE LayoutProofs ----------------------------
(***************************************************************************)
(* How the transfers of a TransferTransaction are merged, sorted, grouped  *)
(* and read back, for any transfers, and how the arguments of a contract   *)
(* call are laid out, for any arguments. What a loop leaves behind is a    *)
(* recursive function of the number of steps; that an invariant of the     *)
(* loop holds after every step is shown by looking at the first step after *)
(* which it would not (LeastNat).                                          *)
(***************************************************************************)
EXTENDS Transfers, ContractAbi, WellFoundedInduction, TLAPS

\* ---- Numbers and sequences

(* A set of numbers has a least one. *)
LEMMA LeastNat ==
    ASSUME NEW S, S \subseteq Nat, S # {}
    PROVE  \E x \in S : \A y \in S : x <= y
<1>1. PICK x \in S : \A y \in S : ~ (<<y, x>> \in OpToRel(<, Nat))
  BY NatLessThanWellFounded, WFMin, Zenon
<1>2. ASSUME NEW y \in S, y < x
      PROVE  FALSE
  <2>1. <<y, x>> \in {ss \in Nat \X Nat : ss[1] < ss[2]}
    BY <1>2
  <2>2. <<y, x>> \in OpToRel(<, Nat)
    BY <2>1, Zenon DEF OpToRel
  <2> QED
    BY <1>1, <2>2, Zenon
<1> QED
  BY <1>2

(* The elements of a concatenation. *)
LEMMA ConcatElements ==
    ASSUME NEW S, NEW s \in Seq(S), NEW t \in Seq(S)
    PROVE  /\ s \o t \in Seq(S) /\ Len(s \o t) = Len(s) + Len(t)
           /\ \A j \in 1..Len(s) : (s \o t)[j] = s[j]
           /\ \A j \in 1..Len(t) : (s \o t)[Len(s) + j] = t[j]
<1>1. s \o t \in Seq(S) /\ Len(s \o t) = Len(s) + Len(t)
  OBVIOUS
<1>2. \A j \in 1..(Len(s) + Len(t)) :
        (s \o t)[j] = IF j <= Len(s) THEN s[j] ELSE t[j - Len(s)]
  OBVIOUS
<1>3. Len(s) \in Nat /\ Len(t) \in Nat
  OBVIOUS
<1>4. ASSUME NEW j \in 1..Len(t)
      PROVE  (s \o t)[Len(s) + j] = t[j]
  <2>1. Len(s) + j \in 1..(Len(s) + Len(t)) /\ ~ (Len(s) + j <= Len(s))
        /\ (Len(s) + j) - Len(s) = j
    BY <1>3
  <2> QED
    BY <1>2, <2>1
<1>5. ASSUME NEW j \in 1..Len(s)
      PROVE  (s \o t)[j] = s[j]
  BY <1>2, <1>3
<1> QED
  BY <1>1, <1>4, <1>5

\* ---- The layout of a call

(* An argument or a value of an array, encoded: one word has to be there. *)
Encoded == [dynamic : BOOLEAN, value : Seq(Word)]
Encodings == {args \in Seq(Encoded) :
                \A j \in DOMAIN args : args[j].dynamic \/ args[j].value # <<>>}

(* A value stands in words behind the k-th one. *)
Holds(words, k, value) ==
  /\ k + Len(value) <= Len(words)
  /\ \A m \in 1..Len(value) : words[k + m] = value[m]

(* What the loop has done after m steps. *)
LaidOut(args, m, l) ==
  /\ l.head \in Seq(Word) /\ Len(l.head) = m
  /\ l.tail \in Seq(Word)
  /\ \A j \in 1..m :
       IF args[j].dynamic
       THEN \E k \in Nat :
              /\ l.head[j] = Num(WordBytes * (Len(args) + k))
              /\ Holds(l.tail, k, args[j].value)
       ELSE l.head[j] = args[j].value[1]

LEMMA PrefixedElements ==
    ASSUME NEW S, NEW x \in S, NEW t \in Seq(S)
    PROVE  /\ <<x>> \o t \in Seq(S) /\ Len(<<x>> \o t) = 1 + Len(t)
           /\ (<<x>> \o t)[1] = x
           /\ \A j \in 1..Len(t) : (<<x>> \o t)[1 + j] = t[j]
<1> DEFINE s == <<x>>
<1>1. s \in Seq(S) /\ Len(s) = 1 /\ s[1] = x
  OBVIOUS
<1> HIDE DEF s
<1>2. /\ s \o t \in Seq(S) /\ Len(s \o t) = Len(s) + Len(t)
      /\ \A j \in 1..Len(s) : (s \o t)[j] = s[j]
      /\ \A j \in 1..Len(t) : (s \o t)[Len(s) + j] = t[j]
  BY <1>1, ConcatElements
<1>3. /\ s \o t \in Seq(S) /\ Len(s \o t) = 1 + Len(t)
      /\ (s \o t)[1] = x
      /\ \A j \in 1..Len(t) : (s \o t)[1 + j] = t[j]
  BY <1>1, <1>2
<1> QED
  BY <1>3 DEF s

(* What stands in the second of two sequences, or in the first, stands in   *)
(* both together.                                                           *)
LEMMA HoldsBehind ==
    ASSUME NEW S, NEW s \in Seq(S), NEW t \in Seq(S)
    PROVE  Holds(s \o t, Len(s), t)
<1> DEFINE u == s \o t
<1>1. /\ Len(u) = Len(s) + Len(t)
      /\ \A j \in 1..Len(t) : u[Len(s) + j] = t[j]
  BY ConcatElements
<1>2. Len(s) \in Nat /\ Len(t) \in Nat
  OBVIOUS
<1> HIDE DEF u
<1>3. Holds(u, Len(s), t)
  <2>1. Len(s) + Len(t) <= Len(u)
    BY <1>1, <1>2
  <2> QED
    BY <1>1, <2>1, Zenon DEF Holds
<1> QED
  BY <1>3 DEF u

LEMMA HoldsBefore ==
    ASSUME NEW S, NEW s \in Seq(S), NEW t \in Seq(S), NEW k \in Nat,
           NEW v \in Seq(S), Holds(s, k, v)
    PROVE  Holds(s \o t, k, v)
<1> DEFINE u == s \o t
<1>1. /\ Len(u) = Len(s) + Len(t)
      /\ \A j \in 1..Len(s) : u[j] = s[j]
  BY ConcatElements
<1>2. Len(s) \in Nat /\ Len(t) \in Nat /\ Len(v) \in Nat
  OBVIOUS
<1>3. k + Len(v) <= Len(s) /\ \A j \in 1..Len(v) : s[k + j] = v[j]
  BY DEF Holds
<1> HIDE DEF u
<1>4. \A j \in 1..Len(v) : k + j \in 1..Len(s)
  BY <1>2, <1>3
<1>5. \A j \in 1..Len(v) : u[k + j] = v[j]
  BY <1>1, <1>3, <1>4
<1>6. Holds(u, k, v)
  BY <1>1, <1>2, <1>3, <1>5 DEF Holds
<1> QED
  BY <1>6 DEF u

LEMMA HoldsAfter ==
    ASSUME NEW S, NEW s \in Seq(S), NEW t \in Seq(S), NEW k \in Nat,
           NEW v \in Seq(S), Holds(t, k, v)
    PROVE  Holds(s \o t, Len(s) + k, v)
<1> DEFINE u == s \o t
<1>1. /\ Len(u) = Len(s) + Len(t)
      /\ \A j \in 1..Len(t) : u[Len(s) + j] = t[j]
  BY ConcatElements
<1>2. Len(s) \in Nat /\ Len(t) \in Nat /\ Len(v) \in Nat
  OBVIOUS
<1>3. k + Len(v) <= Len(t) /\ \A j \in 1..Len(v) : t[k + j] = v[j]
  BY DEF Holds
<1> HIDE DEF u
<1>4. \A j \in 1..Len(v) :
        k + j \in 1..Len(t) /\ Len(s) + k + j = Len(s) + (k + j)
  BY <1>2, <1>3
<1>5. \A j \in 1..Len(v) : u[Len(s) + k + j] = v[j]
  BY <1>1, <1>3, <1>4
<1>6. Holds(u, Len(s) + k, v)
  BY <1>1, <1>2, <1>3, <1>5 DEF Holds
<1> QED
  BY <1>6 DEF u

(* The loop has a result after each of its steps: what is laid out is       *)
(* defined by recursion over their number.                                  *)
LEMMA LayoutSteps ==
    ASSUME NEW args, Len(args) \in Nat
    PROVE  Layout(args) =
             [i \in 0..Len(args) |->
                IF i = 0 THEN [head |-> <<>>, tail |-> <<>>]
                ELSE Placed(Layout(args)[i - 1], args[i], Len(args))]
<1> DEFINE Empty == [head |-> <<>>, tail |-> <<>>]
           Upto(g, m) == g = [i \in 0..m |->
                                IF i = 0 THEN Empty
                                ELSE Placed(g[i - 1], args[i], Len(args))]
           Stuck == {m \in Nat : ~ \E g : Upto(g, m)}
<1>1. Stuck = {}
  <2>1. SUFFICES ASSUME Stuck # {} PROVE FALSE
    OBVIOUS
  <2>2. PICK m \in Stuck : \A y \in Stuck : m <= y
    BY <2>1, LeastNat
  <2>3. CASE m = 0
    <3> DEFINE g == [i \in 0..0 |-> Empty]
    <3>1. Upto(g, 0)
      OBVIOUS
    <3> QED
      BY <2>2, <2>3, <3>1
  <2>4. CASE m # 0
    <3>1. m - 1 \in Nat /\ m - 1 \notin Stuck
      <4> HIDE DEF Upto
      <4>1. m \in Nat /\ m - 1 \in Nat /\ ~ (m <= m - 1)
        BY <2>4
      <4> HIDE DEF Stuck
      <4> QED
        BY <2>2, <4>1
    <3>2. PICK g : Upto(g, m - 1)
      BY <3>1
    <3> DEFINE h == [i \in 0..m |->
                       IF i = m THEN Placed(g[m - 1], args[m], Len(args))
                       ELSE g[i]]
    <3>3. ASSUME NEW i \in 0..m
          PROVE  h[i] = IF i = 0 THEN Empty
                        ELSE Placed(h[i - 1], args[i], Len(args))
      <4> HIDE DEF Empty
      <4>1. CASE i = 0
        BY <2>2, <2>4, <3>2, <4>1
      <4>2. CASE i = m
        <5>1. h[m - 1] = g[m - 1]
          BY <3>1
        <5> QED
          BY <2>2, <2>4, <4>2, <5>1
      <4>3. CASE i # 0 /\ i # m
        <5>1. i \in 0..(m - 1) /\ i - 1 \in 0..m /\ i - 1 # m
          BY <2>2, <4>3
        <5>2. h[i] = g[i] /\ h[i - 1] = g[i - 1]
          BY <4>3, <5>1
        <5>3. g[i] = Placed(g[i - 1], args[i], Len(args))
          BY <3>2, <4>3, <5>1
        <5> QED
          BY <4>3, <5>2, <5>3
      <4> QED
        BY <4>1, <4>2, <4>3
    <3>4. Upto(h, m)
      <4> HIDE DEF Empty
      <4> QED
        BY <3>3
    <3> QED
      BY <2>2, <3>4
  <2> QED
    BY <2>3, <2>4
<1>2. \E g : Upto(g, Len(args))
  BY <1>1
<1>3. Layout(args) = CHOOSE g : Upto(g, Len(args))
  BY DEF Layout
<1>4. Upto(Layout(args), Len(args))
  <2> HIDE DEF Upto
  <2> QED
    BY <1>2, <1>3
<1> QED
  BY <1>4

(* A step of the loop puts one argument in its place. *)
LEMMA PlacedRight ==
    ASSUME NEW args \in Encodings, NEW m \in 1..Len(args), NEW l,
           LaidOut(args, m - 1, l)
    PROVE  LaidOut(args, m, Placed(l, args[m], Len(args)))
<1> DEFINE a == args[m]
           p == Placed(l, a, Len(args))
<1>1. a \in Encoded /\ (a.dynamic \/ a.value # <<>>) /\ args \in Seq(Encoded)
      /\ Len(args) \in Nat
  BY DEF Encodings
<1>2. l.head \in Seq(Word) /\ Len(l.head) = m - 1 /\ l.tail \in Seq(Word)
  BY DEF LaidOut
<1>3. CASE a.dynamic
  <2> DEFINE w == Num(WordBytes * (Len(args) + Len(l.tail)))
  <2>1. p.head = Append(l.head, w) /\ p.tail = l.tail \o a.value
    BY <1>3 DEF Placed
  <2>2. w \in Word /\ a.value \in Seq(Word)
    BY <1>1, <1>2 DEF Num, WordBytes, Word, Encoded
  <2> HIDE DEF w, p
  <2>3. p.head \in Seq(Word) /\ Len(p.head) = m /\ p.tail \in Seq(Word)
        /\ p.head[m] = w
        /\ \A j \in 1..(m - 1) : p.head[j] = l.head[j]
    BY <1>2, <2>1, <2>2
  <2>4. \A j \in 1..m : args[j].value \in Seq(Word)
    <3>1. \A j \in 1..m : args[j] \in Encoded
      BY <1>1
    <3> QED
      BY <3>1 DEF Encoded
  <2>5. Holds(p.tail, Len(l.tail), a.value)
    BY <1>2, <2>1, <2>2, HoldsBehind
  <2>6. ASSUME NEW j \in 1..m, NEW k \in Nat,
               Holds(l.tail, k, args[j].value)
        PROVE  Holds(p.tail, k, args[j].value)
    BY <1>2, <2>1, <2>2, <2>4, <2>6, HoldsBefore
  <2>7. ASSUME NEW j \in 1..m
        PROVE  IF args[j].dynamic
               THEN \E k \in Nat :
                      /\ p.head[j] = Num(WordBytes * (Len(args) + k))
                      /\ Holds(p.tail, k, args[j].value)
               ELSE p.head[j] = args[j].value[1]
    <3>1. CASE j = m
      BY <1>2, <1>3, <2>3, <2>5, <3>1 DEF w
    <3>2. CASE j # m
      <4>1. j \in 1..(m - 1)
        BY <3>2
      <4> QED
        BY <2>3, <2>6, <4>1 DEF LaidOut
    <3> QED
      BY <3>1, <3>2
  <2> QED
    BY <2>3, <2>7 DEF LaidOut, p
<1>4. CASE ~ a.dynamic
  <2>1. p.head = Append(l.head, a.value[1]) /\ p.tail = l.tail
    BY <1>4 DEF Placed
  <2>2. a.value[1] \in Word
    BY <1>1, <1>4 DEF Encoded
  <2>3. p.head \in Seq(Word) /\ Len(p.head) = m
        /\ p.head[m] = a.value[1]
        /\ \A j \in 1..(m - 1) : p.head[j] = l.head[j]
    BY <1>2, <2>1, <2>2
  <2>4. ASSUME NEW j \in 1..m
        PROVE  IF args[j].dynamic
               THEN \E k \in Nat :
                      /\ p.head[j] = Num(WordBytes * (Len(args) + k))
                      /\ Holds(p.tail, k, args[j].value)
               ELSE p.head[j] = args[j].value[1]
    <3>1. CASE j = m
      BY <1>4, <2>3, <3>1
    <3>2. CASE j # m
      <4>1. j \in 1..(m - 1)
        BY <3>2
      <4> QED
        BY <2>1, <2>3, <4>1 DEF LaidOut
    <3> QED
      BY <3>1, <3>2
  <2> QED
    BY <1>2, <2>1, <2>3, <2>4 DEF LaidOut
<1> QED
  BY <1>1, <1>3, <1>4 DEF Encoded

(* So do all its steps. *)
LEMMA LayoutRight ==
    ASSUME NEW args \in Encodings
    PROVE  LaidOut(args, Len(args), Layout(args)[Len(args)])
<1> DEFINE Wrong == {m \in 0..Len(args) : ~ LaidOut(args, m, Layout(args)[m])}
<1>1. Len(args) \in Nat
  BY DEF Encodings
<1>2. \A i \in 0..Len(args) :
        Layout(args)[i] =
          IF i = 0 THEN [head |-> <<>>, tail |-> <<>>]
          ELSE Placed(Layout(args)[i - 1], args[i], Len(args))
  <2> DEFINE F(i) == IF i = 0 THEN [head |-> <<>>, tail |-> <<>>]
                     ELSE Placed(Layout(args)[i - 1], args[i], Len(args))
  <2>1. Layout(args) = [i \in 0..Len(args) |-> F(i)]
    BY <1>1, LayoutSteps
  <2> HIDE DEF F
  <2>2. \A i \in 0..Len(args) : Layout(args)[i] = F(i)
    BY <2>1
  <2> QED
    BY <2>2 DEF F
<1>3. SUFFICES ASSUME Wrong # {} PROVE FALSE
  BY <1>1
<1>4. PICK m \in Wrong : \A y \in Wrong : m <= y
  <2>1. Wrong \subseteq Nat
    BY <1>1
  <2> HIDE DEF Wrong
  <2> QED
    BY <1>3, <2>1, LeastNat
<1>5. CASE m = 0
  <2>1. Layout(args)[0] = [head |-> <<>>, tail |-> <<>>]
    BY <1>1, <1>2
  <2>2. LaidOut(args, 0, [head |-> <<>>, tail |-> <<>>])
    BY DEF LaidOut
  <2> QED
    BY <1>4, <1>5, <2>1, <2>2
<1>6. CASE m # 0
  <2>1. m - 1 \in 0..Len(args) /\ m - 1 \notin Wrong /\ m \in 1..Len(args)
    BY <1>1, <1>4, <1>6
  <2>2. LaidOut(args, m - 1, Layout(args)[m - 1])
    BY <2>1
  <2>3. Layout(args)[m] = Placed(Layout(args)[m - 1], args[m], Len(args))
    BY <1>2, <1>6, <2>1
  <2> QED
    BY <1>4, <2>1, <2>2, <2>3, PlacedRight
<1> QED
  BY <1>5, <1>6

(* Every argument can be found in what was built, at an offset of whole     *)
(* words.                                                                   *)
LEMMA BuildRight ==
    ASSUME NEW args \in Encodings
    PROVE  /\ Build(args) \in Seq(Word) /\ Len(args) <= Len(Build(args))
           /\ \A j \in DOMAIN args :
                IF args[j].dynamic
                THEN \E k \in Nat :
                       /\ Build(args)[j] = Num(WordBytes * k)
                       /\ Holds(Build(args), k, args[j].value)
                ELSE Build(args)[j] = args[j].value[1]
<1> DEFINE n == Len(args)
           l == Layout(args)[n]
           words == l.head \o l.tail
<1>1. LaidOut(args, n, l)
  BY LayoutRight
<1>2. l.head \in Seq(Word) /\ Len(l.head) = n /\ l.tail \in Seq(Word)
      /\ n \in Nat /\ args \in Seq(Encoded)
  BY <1>1 DEF LaidOut, Encodings
<1>3. Build(args) = words
  BY DEF Build
<1> HIDE DEF l
<1>4. /\ words \in Seq(Word) /\ n <= Len(words)
      /\ \A j \in 1..n : words[j] = l.head[j]
  <2> DEFINE head == l.head
             tail == l.tail
  <2>1. head \in Seq(Word) /\ tail \in Seq(Word) /\ Len(head) = n
        /\ n \in Nat
    BY <1>2
  <2> HIDE DEF head, tail
  <2>2. /\ head \o tail \in Seq(Word) /\ Len(head) <= Len(head \o tail)
        /\ \A j \in 1..Len(head) : (head \o tail)[j] = head[j]
    BY <2>1, ConcatElements
  <2> QED
    BY <2>1, <2>2 DEF head, tail
<1>5. ASSUME NEW j \in DOMAIN args, args[j].dynamic
      PROVE  \E k \in Nat : /\ words[j] = Num(WordBytes * k)
                            /\ Holds(words, k, args[j].value)
  <2>1. j \in 1..n /\ args[j].value \in Seq(Word)
    <3>1. j \in 1..n /\ args[j] \in Encoded
      BY <1>2
    <3> QED
      BY <3>1 DEF Encoded
  <2>2. PICK k \in Nat : /\ l.head[j] = Num(WordBytes * (n + k))
                         /\ Holds(l.tail, k, args[j].value)
    BY <1>1, <1>5, <2>1 DEF LaidOut
  <2>3. Holds(words, Len(l.head) + k, args[j].value)
    BY <1>2, <2>1, <2>2, HoldsAfter
  <2>4. n + k \in Nat
    BY <1>2
  <2> HIDE DEF words
  <2> QED
    BY <1>2, <1>4, <2>1, <2>2, <2>3, <2>4
<1>6. ASSUME NEW j \in DOMAIN args, ~ args[j].dynamic
      PROVE  words[j] = args[j].value[1]
  <2>1. j \in 1..n
    BY <1>2
  <2>2. l.head[j] = args[j].value[1]
    BY <1>1, <1>6, <2>1 DEF LaidOut
  <2> HIDE DEF words
  <2> QED
    BY <1>4, <2>1, <2>2
<1> HIDE DEF words
<1> QED
  BY <1>2, <1>3, <1>4, <1>5, <1>6

(* ---- Reading *)

LEMMA WholeWords ==
    ASSUME NEW k \in Nat
    PROVE  (WordBytes * k) \div WordBytes = k /\ Words(k) \in Nat
BY DEF WordBytes, Words

(* The getters of one word look at the word of the index. *)
LEMMA WordRead ==
    ASSUME NEW words, NEW j \in Nat, j # 0
    PROVE  GetWord(words, j - 1) = words[j]
<1>1. j - 1 \in Nat /\ (j - 1) + 1 = j
  OBVIOUS
<1>2. (WordBytes * (j - 1)) \div WordBytes = j - 1
  BY <1>1, WholeWords
<1> QED
  BY <1>1, <1>2 DEF GetWord, At

(* Those of bytes and texts follow the offset. *)
LEMMA BytesRead ==
    ASSUME NEW words \in Seq(Word), NEW j \in Nat, j # 0, NEW k \in Nat,
           NEW v \in Bytes, words[j] = Num(WordBytes * k),
           Holds(words, k, DynamicToBytes(v))
    PROVE  GetBytes(words, j - 1)
             = [len |-> v.len, words |-> [i \in 1..Words(v.len) |-> Piece(v, i)]]
<1> DEFINE w == Words(v.len)
           content == [i \in 1..w |-> Piece(v, i)]
           value == <<Num(v.len)>> \o content
<1>1. v.len \in Nat /\ w \in Nat /\ v.id \in Int
  BY WholeWords DEF Bytes
<1> HIDE DEF w
<1>2. content \in Seq(Word) /\ <<Num(v.len)>> \in Seq(Word)
      /\ Len(content) = w
  BY <1>1 DEF Piece, Word, Num
<1>3. /\ Len(value) = 1 + w
      /\ value[1] = Num(v.len)
      /\ \A i \in 1..w : value[1 + i] = content[i]
  <2>1. Num(v.len) \in Word /\ content \in Seq(Word)
    BY <1>1, <1>2 DEF Num, Word
  <2> HIDE DEF content
  <2> QED
    BY <1>2, <2>1, PrefixedElements
<1>4. Holds(words, k, value)
  BY DEF DynamicToBytes, w
<1> HIDE DEF value
<1>5. /\ k + 1 + w <= Len(words)
      /\ words[k + 1] = Num(v.len)
      /\ \A i \in 1..w : words[k + 1 + i] = content[i]
  <2>1. \A i \in 1..(1 + w) : words[k + i] = value[i]
    BY <1>3, <1>4 DEF Holds
  <2>2. \A i \in 1..w : 1 + i \in 1..(1 + w) /\ k + 1 + i = k + (1 + i)
    BY <1>1
  <2>3. 1 \in 1..(1 + w) /\ k + 1 + w = k + (1 + w)
    BY <1>1
  <2> HIDE DEF content
  <2> QED
    BY <1>3, <1>4, <2>1, <2>2, <2>3 DEF Holds
<1>6. GetWord(words, j - 1)[2] = WordBytes * k
  BY WordRead DEF Num
<1>7. (WordBytes * k) \div WordBytes = k
  BY WholeWords
<1>8. At(words, WordBytes * k)[2] = v.len
  BY <1>5, <1>7 DEF At, Num
<1>9. SubSeq(words, k + 2, k + 1 + w) = content
  <2> DEFINE sub == SubSeq(words, k + 2, k + 1 + w)
  <2>1. sub = [i \in 1..(k + 1 + w - (k + 2) + 1) |-> words[i + (k + 2) - 1]]
    BY <1>1
  <2>2. k + 1 + w - (k + 2) + 1 = w
    BY <1>1
  <2>3. \A i \in 1..w : i + (k + 2) - 1 = k + 1 + i
    BY <1>1
  <2> HIDE DEF sub
  <2>4. sub = [i \in 1..w |-> words[k + 1 + i]]
    BY <2>1, <2>2, <2>3
  <2> QED
    BY <1>5, <2>4 DEF sub
<1> HIDE DEF content
<1>10. GetBytes(words, j - 1) = [len |-> v.len, words |-> content]
  BY <1>6, <1>7, <1>8, <1>9 DEF GetBytes, BytesAt, w
<1> QED
  BY <1>10 DEF content, w

(* The values of an array of type ty, encoded. *)
Items(ty, values) ==
  [i \in DOMAIN values |-> [dynamic |-> ty \in Unbounded,
                            value |-> ValueToBytes(ty, values[i])]]

Values(ty) == Seq(IF ty \in OneWord THEN Number ELSE Bytes)

LEMMA ValueEncoded ==
    ASSUME NEW ty \in OneWord \cup Unbounded,
           NEW v \in IF ty \in OneWord THEN Number ELSE Bytes
    PROVE  ValueToBytes(ty, v) \in Seq(Word) /\ ValueToBytes(ty, v) # <<>>
<1>1. CASE ty \in OneWord
  <2>1. v.n \in Int
    BY <1>1 DEF Number
  <2>2. Num(v.n) \in Word /\ Trailing(v.n) \in Word
    BY <2>1 DEF Num, Trailing, Word
  <2>3. PICK w \in Word : ValueToBytes(ty, v) = <<w>>
    BY <1>1, <2>2 DEF ValueToBytes, StaticToBytes
  <2> QED
    BY <2>3
<1>2. CASE ty \notin OneWord
  <2> DEFINE content == [i \in 1..Words(v.len) |-> Piece(v, i)]
  <2>1. v.len \in Nat /\ Words(v.len) \in Nat /\ v.id \in Int
    BY <1>2, WholeWords DEF Bytes
  <2>2. Num(v.len) \in Word /\ content \in Seq(Word) /\ Len(content) \in Nat
    BY <2>1 DEF Piece, Word, Num
  <2>3. ValueToBytes(ty, v) = <<Num(v.len)>> \o content
    BY <1>2 DEF ValueToBytes, DynamicToBytes
  <2> HIDE DEF content
  <2>4. ValueToBytes(ty, v) \in Seq(Word)
        /\ Len(ValueToBytes(ty, v)) = 1 + Len(content)
    BY <2>2, <2>3, PrefixedElements
  <2> QED
    BY <2>2, <2>4
<1> QED
  BY <1>1, <1>2

(* What is found of a value: its one word, or its length and content. *)
LEMMA OneWordFound ==
    ASSUME NEW ty \in OneWord, NEW v
    PROVE  ValueToBytes(ty, v)[1] = Found(ty, v)
<1>1. CASE ty = "function"
  BY <1>1 DEF ValueToBytes, StaticToBytes, Found
<1>2. CASE ty # "function"
  BY <1>2 DEF ValueToBytes, StaticToBytes, Found, Expected
<1> QED
  BY <1>1, <1>2

LEMMA BytesFound ==
    ASSUME NEW ty, ty \notin OneWord, NEW v
    PROVE  Found(ty, v)
             = [len |-> v.len, words |-> [k \in 1..Words(v.len) |-> Piece(v, k)]]
<1>1. ty # "function"
  BY DEF OneWord
<1> QED
  BY <1>1 DEF Found, Expected

LEMMA ItemsEncoded ==
    ASSUME NEW ty \in OneWord \cup Unbounded, NEW values \in Values(ty)
    PROVE  Items(ty, values) \in Encodings
           /\ Len(Items(ty, values)) = Len(values)
<1>1. \A i \in DOMAIN values :
        values[i] \in IF ty \in OneWord THEN Number ELSE Bytes
  BY DEF Values
<1>2. \A i \in DOMAIN values :
        /\ ValueToBytes(ty, values[i]) \in Seq(Word)
        /\ ValueToBytes(ty, values[i]) # <<>>
  BY <1>1, ValueEncoded
<1>3. DOMAIN values = 1..Len(values) /\ Len(values) \in Nat
  BY DEF Values
<1>4. \A i \in DOMAIN values :
        /\ Items(ty, values)[i] \in Encoded
        /\ Items(ty, values)[i].value # <<>>
  BY <1>2 DEF Items, Encoded
<1>5. DOMAIN Items(ty, values) = 1..Len(values)
      /\ Items(ty, values) = [i \in 1..Len(values) |-> Items(ty, values)[i]]
  BY <1>3 DEF Items
<1>6. Items(ty, values) \in Seq(Encoded) /\ Len(Items(ty, values)) = Len(values)
  BY <1>3, <1>4, <1>5
<1> QED
  BY <1>3, <1>4, <1>5, <1>6 DEF Encodings

(* The decoder of an array finds its values. *)
LEMMA ArrayRead ==
    ASSUME NEW ty \in OneWord \cup Unbounded, NEW values \in Values(ty),
           NEW words \in Seq(Word), NEW j \in Nat, j # 0, NEW k \in Nat,
           words[j] = Num(WordBytes * k),
           Holds(words, k, ArrayToBytes(ty, values))
    PROVE  GetArray(ty, words, j - 1)
             = [i \in DOMAIN values |-> Found(ty, values[i])]
<1> DEFINE items == Items(ty, values)
           built == Build(items)
           n == Len(values)
           whole == <<Num(n)>> \o built
           rest == SubSeq(words, k + 2, Len(words))
<1>1. items \in Encodings /\ Len(items) = n /\ n \in Nat
      /\ DOMAIN values = 1..n
  BY ItemsEncoded DEF Values
<1>2. built \in Seq(Word) /\ n <= Len(built)
  BY <1>1, BuildRight
<1>3. ArrayToBytes(ty, values) = whole
  BY DEF ArrayToBytes, Items
<1>4. /\ Len(whole) = 1 + Len(built) /\ whole[1] = Num(n)
      /\ \A i \in 1..Len(built) : whole[1 + i] = built[i]
  <2>1. Num(n) \in Word /\ built \in Seq(Word)
    BY <1>1, <1>2 DEF Num, Word
  <2> HIDE DEF built, n
  <2> QED
    BY <2>1, PrefixedElements
<1> HIDE DEF built, whole
<1>5. /\ k + 1 + Len(built) <= Len(words)
      /\ words[k + 1] = Num(n)
      /\ \A i \in 1..Len(built) : words[k + 1 + i] = built[i]
  <2>1. Holds(words, k, whole) /\ Len(built) \in Nat
    BY <1>2, <1>3
  <2>2. \A i \in 1..(1 + Len(built)) : words[k + i] = whole[i]
    BY <1>4, <2>1 DEF Holds
  <2>3. \A i \in 1..Len(built) :
          1 + i \in 1..(1 + Len(built)) /\ k + 1 + i = k + (1 + i)
    BY <2>1
  <2>4. 1 \in 1..(1 + Len(built)) /\ k + 1 + Len(built) = k + (1 + Len(built))
    BY <2>1
  <2> QED
    BY <1>4, <2>1, <2>2, <2>3, <2>4 DEF Holds
<1>6. /\ rest \in Seq(Word) /\ Len(built) <= Len(rest)
      /\ \A i \in 1..Len(built) : rest[i] = built[i]
  <2>1. Len(words) \in Nat /\ Len(built) \in Nat
    BY <1>2
  <2>2. rest = [i \in 1..(Len(words) - (k + 2) + 1) |-> words[i + (k + 2) - 1]]
    BY <2>1
  <2>3. rest \in Seq(Word) /\ Len(rest) = Len(words) - (k + 1)
    BY <1>5, <2>1
  <2> HIDE DEF rest
  <2>4. \A i \in 1..Len(built) :
          i \in 1..(Len(words) - (k + 2) + 1) /\ i + (k + 2) - 1 = k + 1 + i
    BY <1>5, <2>1
  <2>5. \A i \in 1..Len(built) : rest[i] = words[k + 1 + i]
    BY <2>2, <2>4
  <2> QED
    BY <1>5, <2>1, <2>3, <2>5
<1>7. GetWord(words, j - 1)[2] = WordBytes * k
      /\ (WordBytes * k) \div WordBytes = k
  <2>1. GetWord(words, j - 1) = words[j]
    BY WordRead
  <2> QED
    BY <2>1, WholeWords DEF Num
<1>8. At(words, WordBytes * k)[2] = n
  BY <1>5, <1>7 DEF At, Num
<1>9. GetArray(ty, words, j - 1)
        = [i \in 1..n |-> IF ty \in OneWord THEN GetWord(rest, i - 1)
                          ELSE GetBytes(rest, i - 1)]
  BY <1>7, <1>8 DEF GetArray
<1> HIDE DEF rest
<1>10. ASSUME NEW i \in 1..n
       PROVE  Found(ty, values[i]) = IF ty \in OneWord
                                        THEN GetWord(rest, i - 1)
                                        ELSE GetBytes(rest, i - 1)
  <2>1. i \in DOMAIN items /\ i \in DOMAIN values /\ i \in 1..Len(built)
        /\ i \in Nat /\ i # 0
    BY <1>1, <1>2 DEF Items
  <2>2. items[i] = [dynamic |-> ty \in Unbounded,
                    value |-> ValueToBytes(ty, values[i])]
    BY <2>1 DEF Items
  <2>3. IF ty \in Unbounded
        THEN \E b \in Nat : /\ built[i] = Num(WordBytes * b)
                            /\ Holds(built, b, ValueToBytes(ty, values[i]))
        ELSE built[i] = ValueToBytes(ty, values[i])[1]
    <3>1. IF items[i].dynamic
          THEN \E b \in Nat : /\ built[i] = Num(WordBytes * b)
                              /\ Holds(built, b, items[i].value)
          ELSE built[i] = items[i].value[1]
      <4> HIDE DEF items
      <4> QED
        BY <1>1, <2>1, BuildRight DEF built
    <3>2. items[i].value = ValueToBytes(ty, values[i])
      BY <2>2
    <3>3. items[i].dynamic <=> ty \in Unbounded
      <4> DEFINE d == ty \in Unbounded
                 v == ValueToBytes(ty, values[i])
      <4>1. items[i] = [dynamic |-> d, value |-> v]
        BY <2>2
      <4> HIDE DEF d, v, items
      <4>2. items[i].dynamic = d
        BY <4>1
      <4> QED
        BY <4>2, Zenon DEF d
    <3> HIDE DEF items
    <3> QED
      BY <3>1, <3>2, <3>3
  <2>4. CASE ty \in OneWord
    <3>1. ty \notin Unbounded
      BY <2>4 DEF OneWord, Unbounded, Integers8To256
    <3>2. built[i] = Found(ty, values[i])
      BY <2>3, <2>4, <3>1, OneWordFound
    <3> QED
      BY <1>6, <2>1, <2>4, <3>2, WordRead
  <2>5. CASE ty \notin OneWord
    <3>1. values[i] \in Bytes
      BY <2>1, <2>5 DEF Values
    <3>2. ValueToBytes(ty, values[i]) = DynamicToBytes(values[i])
      BY <2>5 DEF ValueToBytes
    <3>3. PICK b \in Nat : /\ built[i] = Num(WordBytes * b)
                           /\ Holds(built, b, DynamicToBytes(values[i]))
      BY <2>3, <2>5, <3>2
    <3>4. Holds(rest, b, DynamicToBytes(values[i]))
      <4> DEFINE bytes == DynamicToBytes(values[i])
      <4>1. Len(bytes) \in Nat /\ Len(rest) \in Nat /\ Len(built) \in Nat
        BY <1>2, <1>6, <2>1, <2>5, <3>1, <3>2, ValueEncoded
      <4> HIDE DEF bytes
      <4>2. b + Len(bytes) <= Len(built)
            /\ \A m \in 1..Len(bytes) : built[b + m] = bytes[m]
        BY <3>3 DEF Holds, bytes
      <4>3. \A m \in 1..Len(bytes) : b + m \in 1..Len(built)
        BY <4>1, <4>2
      <4>4. b + Len(bytes) <= Len(rest)
            /\ \A m \in 1..Len(bytes) : rest[b + m] = bytes[m]
        BY <1>6, <4>1, <4>2, <4>3
      <4> QED
        BY <4>4, Zenon DEF Holds, bytes
    <3>5. rest[i] = Num(WordBytes * b)
      BY <1>6, <2>1, <3>3
    <3>6. GetBytes(rest, i - 1)
            = [len |-> values[i].len,
               words |-> [m \in 1..Words(values[i].len) |-> Piece(values[i], m)]]
      BY <1>6, <2>1, <3>1, <3>4, <3>5, BytesRead
    <3> QED
      BY <2>5, <3>6, BytesFound
  <2> QED
    BY <2>4, <2>5
<1> QED
  BY <1>1, <1>9, <1>10

(* ---- Calls *)

(* What an argument that was added is encoded to. *)
LEMMA ArgumentEncoded ==
    ASSUME NEW c \in Arguments, Encodable(c)
    PROVE  /\ AddParam(c) \in Encoded
           /\ AddParam(c).dynamic \/ AddParam(c).value # <<>>
           /\ AddParam(c).dynamic <=> (c.array \/ c.ty \in Unbounded)
           /\ AddParam(c).value = IF c.array THEN ArrayToBytes(c.ty, c.values)
                                  ELSE ValueToBytes(c.ty, c.values[1])
           /\ c.values \in Values(c.ty)
           /\ ~ c.array => 1 \in DOMAIN c.values
<1>1. /\ c.ty \in OneWord \cup Unbounded /\ c.array \in BOOLEAN
      /\ c.values \in Values(c.ty) /\ (c.array \/ Len(c.values) = 1)
  BY ArgumentsAssumption DEF Values
<1>2. AddParam(c).dynamic <=> (c.array \/ c.ty \in Unbounded)
  BY Zenon DEF AddParam
<1>3. AddParam(c).value = IF c.array THEN ArrayToBytes(c.ty, c.values)
                          ELSE ValueToBytes(c.ty, c.values[1])
  BY DEF AddParam
<1>4. ~ c.array => 1 \in DOMAIN c.values
  BY <1>1 DEF Values
<1>5. ~ c.array => ValueToBytes(c.ty, c.values[1]) \in Seq(Word)
                   /\ ValueToBytes(c.ty, c.values[1]) # <<>>
  <2>1. SUFFICES ASSUME ~ c.array
                 PROVE  ValueToBytes(c.ty, c.values[1]) \in Seq(Word)
                        /\ ValueToBytes(c.ty, c.values[1]) # <<>>
    OBVIOUS
  <2>2. c.values[1] \in IF c.ty \in OneWord THEN Number ELSE Bytes
    BY <1>1, <1>4, <2>1 DEF Values
  <2> QED
    BY <1>1, <2>2, ValueEncoded
<1>6. ArrayToBytes(c.ty, c.values) \in Seq(Word)
  <2> DEFINE built == Build(Items(c.ty, c.values))
  <2>1. built \in Seq(Word)
    BY <1>1, ItemsEncoded, BuildRight
  <2>2. Num(Len(c.values)) \in Word
    BY <1>1 DEF Num, Word, Values
  <2>3. ArrayToBytes(c.ty, c.values) = <<Num(Len(c.values))>> \o built
    BY DEF ArrayToBytes, Items
  <2> HIDE DEF built
  <2> QED
    BY <2>1, <2>2, <2>3, PrefixedElements
<1>7. AddParam(c) \in Encoded
  <2>1. AddParam(c) = [dynamic |-> c.array \/ c.ty \in Unbounded,
                       value |-> AddParam(c).value]
    BY Zenon DEF AddParam
  <2>2. (c.array \/ c.ty \in Unbounded) \in BOOLEAN
    OBVIOUS
  <2>3. AddParam(c).value \in Seq(Word)
    BY <1>1, <1>3, <1>5, <1>6
  <2> DEFINE d == c.array \/ c.ty \in Unbounded
             v == AddParam(c).value
  <2>4. d \in BOOLEAN /\ v \in Seq(Word) /\ AddParam(c) = [dynamic |-> d, value |-> v]
    BY <2>1, <2>2, <2>3, Zenon
  <2> HIDE DEF d, v
  <2> QED
    BY <2>4 DEF Encoded
<1>8. AddParam(c).dynamic \/ AddParam(c).value # <<>>
  <2>1. c.array => AddParam(c).dynamic
    BY <1>2
  <2>2. ~ c.array => AddParam(c).value # <<>>
    BY <1>3, <1>5
  <2> QED
    BY <2>1, <2>2
<1> QED
  BY <1>1, <1>2, <1>3, <1>4, <1>7, <1>8

(* The arguments are those that were added, encoded; the types are theirs   *)
(* unless a call threw, which leaves its type behind.                       *)
AbiInv ==
  /\ added \in Seq(Arguments) /\ Len(arguments) = Len(added)
  /\ arguments \in Seq(Encoded)
  /\ \A i \in DOMAIN added :
       Encodable(added[i]) /\ arguments[i] = AddParam(added[i])
  /\ paramTypes \in Seq([ty : OneWord \cup Unbounded, array : BOOLEAN])
  /\ threw \in BOOLEAN
  /\ threw => Len(added) < Len(paramTypes)
  /\ ~ threw => /\ Len(paramTypes) = Len(added)
                /\ \A i \in DOMAIN added :
                     paramTypes[i] = [ty |-> added[i].ty,
                                      array |-> added[i].array]
  /\ data # Null => data = Build(arguments)
  /\ signature \in {Null, paramTypes}
  /\ data = Null => signature = Null

LEMMA AbiInvInit == AbiInit => AbiInv
<1> SUFFICES ASSUME AbiInit PROVE AbiInv
  OBVIOUS
<1>1. paramTypes = <<>> /\ arguments = <<>> /\ added = <<>> /\ threw = FALSE
      /\ data = Null /\ signature = Null
  BY DEF AbiInit
<1>2. <<>> \in Seq(Arguments) /\ <<>> \in Seq(Encoded)
      /\ <<>> \in Seq([ty : OneWord \cup Unbounded, array : BOOLEAN])
      /\ DOMAIN <<>> = {}
  OBVIOUS
<1> QED
  BY <1>1, <1>2 DEF AbiInv

LEMMA AbiInvAdd ==
    ASSUME AbiInv, NEW c \in Arguments, AddArgument(c)
    PROVE  AbiInv'
<1> DEFINE t == [ty |-> c.ty, array |-> c.array]
           T == [ty : OneWord \cup Unbounded, array : BOOLEAN]
<1>1. t \in T
  BY ArgumentsAssumption
<1>2. /\ paramTypes' = Append(paramTypes, t)
      /\ data = Null /\ data' = data /\ signature' = signature
      /\ paramTypes \in Seq(T)
  BY DEF AddArgument, AbiInv
<1> HIDE DEF T
<1>3. /\ paramTypes' \in Seq(T) /\ Len(paramTypes') = Len(paramTypes) + 1
      /\ paramTypes'[Len(paramTypes) + 1] = t
      /\ \A i \in 1..Len(paramTypes) : paramTypes'[i] = paramTypes[i]
      /\ Len(paramTypes) \in Nat
  <2> HIDE DEF t
  <2> QED
    BY <1>1, <1>2
<1>4. added \in Seq(Arguments) /\ Len(added) \in Nat
      /\ arguments \in Seq(Encoded) /\ Len(arguments) = Len(added)
      /\ DOMAIN added = 1..Len(added)
  BY DEF AbiInv
<1>5. CASE Encodable(c)
  <2>1. /\ arguments' = Append(arguments, AddParam(c))
        /\ added' = Append(added, c) /\ threw' = threw
    BY <1>5 DEF AddArgument
  <2>2. AddParam(c) \in Encoded
    BY <1>5, ArgumentEncoded
  <2>3. /\ added' \in Seq(Arguments) /\ Len(added') = Len(added) + 1
        /\ DOMAIN added' = 1..(Len(added) + 1)
        /\ added'[Len(added) + 1] = c
        /\ \A i \in 1..Len(added) : added'[i] = added[i]
    BY <1>4, <2>1
  <2>4. /\ arguments' \in Seq(Encoded) /\ Len(arguments') = Len(added) + 1
        /\ arguments'[Len(added) + 1] = AddParam(c)
        /\ \A i \in 1..Len(added) : arguments'[i] = arguments[i]
    BY <1>4, <2>1, <2>2
  <2>5. ASSUME NEW i \in DOMAIN added'
        PROVE  Encodable(added'[i]) /\ arguments'[i] = AddParam(added'[i])
    <3>1. CASE i = Len(added) + 1
      BY <1>5, <2>3, <2>4, <3>1
    <3>2. CASE i # Len(added) + 1
      <4>1. i \in 1..Len(added)
        BY <1>4, <2>3, <3>2
      <4> QED
        BY <1>4, <2>3, <2>4, <4>1 DEF AbiInv
    <3> QED
      BY <3>1, <3>2
  <2>6. threw' => Len(added') < Len(paramTypes')
    BY <1>3, <1>4, <2>1, <2>3 DEF AbiInv
  <2>7. ASSUME ~ threw'
        PROVE  /\ Len(paramTypes') = Len(added')
               /\ \A i \in DOMAIN added' :
                    paramTypes'[i] = [ty |-> added'[i].ty,
                                      array |-> added'[i].array]
    <3>1. /\ Len(paramTypes) = Len(added)
          /\ \A i \in 1..Len(added) :
               paramTypes[i] = [ty |-> added[i].ty, array |-> added[i].array]
      BY <1>4, <2>1, <2>7 DEF AbiInv
    <3>2. ASSUME NEW i \in DOMAIN added'
          PROVE  paramTypes'[i] = [ty |-> added'[i].ty,
                                   array |-> added'[i].array]
      <4>1. CASE i = Len(added) + 1
        BY <1>3, <2>3, <3>1, <4>1
      <4>2. CASE i # Len(added) + 1
        <5>1. i \in 1..Len(added)
          BY <1>4, <2>3, <4>2
        <5> QED
          BY <1>3, <2>3, <3>1, <5>1
      <4> QED
        BY <4>1, <4>2
    <3> QED
      BY <1>3, <2>3, <3>1, <3>2
  <2>8. data' = Null /\ signature' = Null
    BY <1>2 DEF AbiInv
  <2> QED
    BY <1>3, <2>1, <2>3, <2>4, <2>5, <2>6, <2>7, <2>8 DEF AbiInv, T
<1>6. CASE ~ Encodable(c)
  <2>1. threw' = TRUE /\ arguments' = arguments /\ added' = added
    BY <1>6 DEF AddArgument
  <2>2. Len(added) <= Len(paramTypes)
    BY <1>3, <1>4 DEF AbiInv
  <2>3. data' = Null /\ signature' = Null
    BY <1>2 DEF AbiInv
  <2> QED
    BY <1>3, <1>4, <2>1, <2>2, <2>3 DEF AbiInv, T
<1> QED
  BY <1>5, <1>6

LEMMA AbiInvNext == AbiInv /\ [AbiNext]_abiVars => AbiInv'
<1> SUFFICES ASSUME AbiInv, [AbiNext]_abiVars PROVE AbiInv'
  OBVIOUS
<1>1. ASSUME NEW c \in Arguments, AddArgument(c) PROVE AbiInv'
  BY <1>1, AbiInvAdd
<1>2. ASSUME NEW named \in BOOLEAN, BuildParameters(named) PROVE AbiInv'
  <2>1. /\ data' = Build(arguments)
        /\ signature' = IF named THEN paramTypes ELSE Null
        /\ UNCHANGED <<paramTypes, arguments, added, threw>>
    BY <1>2 DEF BuildParameters
  <2>2. arguments \in Encodings
    BY ArgumentEncoded DEF AbiInv, Encodings
  <2>3. data' # Null
    BY <2>1, <2>2, BuildRight, AbiNullAssumption
  <2> QED
    BY <2>1, <2>3 DEF AbiInv
<1>3. ASSUME UNCHANGED abiVars PROVE AbiInv'
  BY <1>3 DEF AbiInv, abiVars
<1> QED
  BY <1>1, <1>2, <1>3 DEF AbiNext, RefuseArgument

LEMMA AbiInvCall == AbiInv => CallFaithful
<1> SUFFICES ASSUME AbiInv PROVE CallFaithful
  OBVIOUS
<1>1. arguments \in Encodings /\ Len(arguments) = Len(added)
      /\ DOMAIN arguments = DOMAIN added /\ DOMAIN added = 1..Len(added)
  BY ArgumentEncoded DEF AbiInv, Encodings
<1>2. ASSUME data # Null, NEW i \in DOMAIN added
      PROVE  LET c == added[i] IN
             IF c.array
             THEN GetArray(c.ty, data, i - 1)
                    = [j \in DOMAIN c.values |-> Found(c.ty, c.values[j])]
             ELSE Found(c.ty, c.values[1])
                    = IF c.ty \in OneWord THEN GetWord(data, i - 1)
                      ELSE GetBytes(data, i - 1)
  <2> DEFINE c == added[i]
  <2>1. c \in Arguments /\ Encodable(c) /\ arguments[i] = AddParam(c)
        /\ data = Build(arguments) /\ i \in Nat /\ i # 0
    BY <1>1, <1>2 DEF AbiInv
  <2>2. c.ty \in OneWord \cup Unbounded /\ c.values \in Values(c.ty)
        /\ (~ c.array => 1 \in DOMAIN c.values)
    BY <2>1, ArgumentEncoded, ArgumentsAssumption
  <2>3. /\ data \in Seq(Word)
        /\ IF arguments[i].dynamic
           THEN \E k \in Nat : /\ data[i] = Num(WordBytes * k)
                               /\ Holds(data, k, arguments[i].value)
           ELSE data[i] = arguments[i].value[1]
    BY <1>1, <1>2, <2>1, BuildRight
  <2>4. /\ arguments[i].dynamic <=> (c.array \/ c.ty \in Unbounded)
        /\ arguments[i].value = IF c.array THEN ArrayToBytes(c.ty, c.values)
                                ELSE ValueToBytes(c.ty, c.values[1])
    BY <2>1, ArgumentEncoded
  <2> HIDE DEF c
  <2>5. CASE c.array
    <3>1. PICK k \in Nat : /\ data[i] = Num(WordBytes * k)
                           /\ Holds(data, k, ArrayToBytes(c.ty, c.values))
      BY <2>3, <2>4, <2>5
    <3>2. GetArray(c.ty, data, i - 1)
            = [j \in DOMAIN c.values |-> Found(c.ty, c.values[j])]
      BY <2>1, <2>2, <2>3, <3>1, ArrayRead
    <3> QED
      BY <2>5, <3>2 DEF c
  <2>6. CASE ~ c.array /\ c.ty \in OneWord
    <3>1. c.ty \notin Unbounded
      BY <2>6 DEF OneWord, Unbounded, Integers8To256
    <3>2. data[i] = Found(c.ty, c.values[1])
      BY <2>3, <2>4, <2>6, <3>1, OneWordFound
    <3>3. Found(c.ty, c.values[1]) = GetWord(data, i - 1)
      BY <2>1, <2>6, <3>2, WordRead
    <3> QED
      BY <2>6, <3>3 DEF c
  <2>7. CASE ~ c.array /\ c.ty \notin OneWord
    <3>1. PICK k \in Nat : /\ data[i] = Num(WordBytes * k)
                           /\ Holds(data, k, DynamicToBytes(c.values[1]))
      BY <2>2, <2>3, <2>4, <2>7 DEF ValueToBytes
    <3>2. c.values[1] \in Bytes
      BY <2>2, <2>7 DEF Values
    <3>3. GetBytes(data, i - 1)
            = [len |-> c.values[1].len,
               words |-> [m \in 1..Words(c.values[1].len) |->
                            Piece(c.values[1], m)]]
      BY <2>1, <2>3, <3>1, <3>2, BytesRead
    <3>4. Found(c.ty, c.values[1]) = GetBytes(data, i - 1)
      BY <2>7, <3>3, BytesFound
    <3> QED
      BY <2>7, <3>4 DEF c
  <2> QED
    BY <2>5, <2>6, <2>7
<1>3. ArgumentsReadBack
  BY <1>2 DEF ArgumentsReadBack
<1>4. SignatureMatches
  BY DEF AbiInv, SignatureMatches
<1> QED
  BY <1>3, <1>4 DEF CallFaithful

(* Whatever arguments are added, however many and however long, the         *)
(* contract finds each of them where the head of the call says it is (the   *)
(* bytes of a function at the wrong end of its word), and the selector has  *)
(* their types.                                                             *)
THEOREM CallsCorrect == AbiSpec => []CallFaithful
<1>1. AbiInv /\ [AbiNext]_abiVars => AbiInv'
  BY AbiInvNext
<1> QED
  BY <1>1, AbiInvInit, AbiInvCall, PTL DEF AbiSpec

\* ---- TransferTransaction

(* A bounded set of numbers has a greatest one, which is its Max. *)
LEMMA MaxIn ==
    ASSUME NEW n \in Nat, NEW S, S \subseteq 1..n, S # {}
    PROVE  Max(S) \in S /\ \A y \in S : y <= Max(S)
<1> DEFINE Above == {m \in Nat : \A y \in S : y <= m}
<1>1. n \in Above
  OBVIOUS
<1>2. PICK m \in Above : \A y \in Above : m <= y
  <2>1. Above # {} /\ Above \subseteq Nat
    BY <1>1
  <2> HIDE DEF Above
  <2> QED
    BY <2>1, LeastNat
<1>3. m \in S
  <2>1. SUFFICES ASSUME m \notin S PROVE FALSE
    OBVIOUS
  <2>2. PICK y \in S : TRUE
    OBVIOUS
  <2>3. m # 0 /\ \A z \in S : z <= m - 1
    BY <2>1, <2>2
  <2>4. m - 1 \in Above
    BY <2>3
  <2> QED
    BY <1>2, <2>3, <2>4
<1>4. \A y \in S : y <= m
  OBVIOUS
<1> QED
  BY <1>3, <1>4 DEF Max

(* The calls are added up one by one. *)
LEMMA SumSteps ==
    ASSUME NEW calls, NEW at, Len(calls) \in Nat
    PROVE  \E f : /\ f = [k \in 0..Len(calls) |->
                            IF k = 0 THEN 0
                            ELSE f[k - 1] + IF k \in at THEN calls[k].amount
                                            ELSE 0]
                  /\ Sum(calls, at) = f[Len(calls)]
<1> DEFINE Next1(v, k) == v + IF k \in at THEN calls[k].amount ELSE 0
           Upto(g, m) == g = [i \in 0..m |-> IF i = 0 THEN 0
                                             ELSE Next1(g[i - 1], i)]
           Stuck == {m \in Nat : ~ \E g : Upto(g, m)}
<1> HIDE DEF Next1
<1>1. Stuck = {}
  <2>1. SUFFICES ASSUME Stuck # {} PROVE FALSE
    OBVIOUS
  <2>2. PICK m \in Stuck : \A y \in Stuck : m <= y
    BY <2>1, LeastNat
  <2>3. CASE m = 0
    <3> DEFINE g == [i \in 0..0 |-> 0]
    <3>1. Upto(g, 0)
      OBVIOUS
    <3> QED
      BY <2>2, <2>3, <3>1
  <2>4. CASE m # 0
    <3>1. m - 1 \in Nat /\ m - 1 \notin Stuck
      <4> HIDE DEF Upto
      <4>1. m \in Nat /\ m - 1 \in Nat /\ ~ (m <= m - 1)
        BY <2>4
      <4> HIDE DEF Stuck
      <4> QED
        BY <2>2, <4>1
    <3>2. PICK g : Upto(g, m - 1)
      BY <3>1
    <3> DEFINE h == [i \in 0..m |-> IF i = m THEN Next1(g[m - 1], m) ELSE g[i]]
    <3>3. ASSUME NEW i \in 0..m
          PROVE  h[i] = IF i = 0 THEN 0 ELSE Next1(h[i - 1], i)
      <4>1. CASE i = 0
        BY <2>2, <2>4, <3>2, <4>1
      <4>2. CASE i = m
        <5>1. h[m - 1] = g[m - 1]
          BY <3>1
        <5> QED
          BY <2>2, <2>4, <4>2, <5>1
      <4>3. CASE i # 0 /\ i # m
        <5>1. i \in 0..(m - 1) /\ i - 1 \in 0..m /\ i - 1 # m
          BY <2>2, <4>3
        <5>2. h[i] = g[i] /\ h[i - 1] = g[i - 1]
          BY <4>3, <5>1
        <5>3. g[i] = Next1(g[i - 1], i)
          BY <3>2, <4>3, <5>1
        <5> QED
          BY <4>3, <5>2, <5>3
      <4> QED
        BY <4>1, <4>2, <4>3
    <3>4. Upto(h, m)
      BY <3>3
    <3> QED
      BY <2>2, <3>4
  <2> QED
    BY <2>3, <2>4
<1>2. \E g : Upto(g, Len(calls))
  BY <1>1
<1> DEFINE f == CHOOSE g : Upto(g, Len(calls))
<1>3. Upto(f, Len(calls))
  <2> HIDE DEF Upto
  <2> QED
    BY <1>2
<1>4. Sum(calls, at) = f[Len(calls)]
  BY DEF Sum, Next1
<1> HIDE DEF f
<1> QED
  BY <1>3, <1>4 DEF Next1

(* One more call adds its amount, if it counts. *)
LEMMA SumAppend ==
    ASSUME NEW calls, NEW more, NEW at, NEW at2, Len(calls) \in Nat,
           Len(more) = Len(calls) + 1,
           \A k \in 1..Len(calls) : more[k] = calls[k] /\ (k \in at2 <=> k \in at)
    PROVE  Sum(more, at2) = Sum(calls, at)
             + IF Len(calls) + 1 \in at2 THEN more[Len(calls) + 1].amount ELSE 0
<1> DEFINE n == Len(calls)
<1>1. PICK f : /\ f = [k \in 0..n |->
                         IF k = 0 THEN 0
                         ELSE f[k - 1] + IF k \in at THEN calls[k].amount ELSE 0]
               /\ Sum(calls, at) = f[n]
  BY SumSteps
<1>2. Len(more) \in Nat
  OBVIOUS
<1>3. PICK g : /\ g = [k \in 0..Len(more) |->
                         IF k = 0 THEN 0
                         ELSE g[k - 1] + IF k \in at2 THEN more[k].amount ELSE 0]
               /\ Sum(more, at2) = g[Len(more)]
  BY <1>2, SumSteps
<1> DEFINE Differ == {k \in 0..n : f[k] # g[k]}
<1>4. Differ = {}
  <2>1. SUFFICES ASSUME Differ # {} PROVE FALSE
    OBVIOUS
  <2>2. PICK k \in Differ : \A y \in Differ : k <= y
    <3>1. Differ \subseteq Nat
      OBVIOUS
    <3> HIDE DEF Differ
    <3> QED
      BY <2>1, <3>1, LeastNat
  <2>3. k \in 0..n /\ f[k] # g[k]
    OBVIOUS
  <2>4. k # 0
    BY <1>1, <1>3, <2>3
  <2>5. k - 1 \in 0..n /\ k - 1 \notin Differ /\ k \in 1..n /\ k \in 0..Len(more)
    BY <2>2, <2>3, <2>4
  <2>6. f[k - 1] = g[k - 1]
    BY <2>5
  <2>7. f[k] = f[k - 1] + IF k \in at THEN calls[k].amount ELSE 0
    BY <1>1, <2>3, <2>4
  <2>8. g[k] = g[k - 1] + IF k \in at2 THEN more[k].amount ELSE 0
    BY <1>3, <2>4, <2>5
  <2> HIDE DEF Differ
  <2> QED
    BY <2>3, <2>5, <2>6, <2>7, <2>8
<1>5. g[n] = f[n]
  BY <1>4
<1>6. g[n + 1] = g[n] + IF n + 1 \in at2 THEN more[n + 1].amount ELSE 0
  <2>1. n + 1 \in 0..Len(more) /\ n + 1 # 0 /\ (n + 1) - 1 = n
    OBVIOUS
  <2> QED
    BY <1>3, <2>1
<1> QED
  BY <1>1, <1>3, <1>5, <1>6

(* No calls that count add up to nothing. *)
LEMMA SumNone ==
    ASSUME NEW calls, NEW at, Len(calls) \in Nat,
           \A k \in 1..Len(calls) : k \notin at
    PROVE  Sum(calls, at) = 0
<1> DEFINE n == Len(calls)
<1>1. PICK f : /\ f = [k \in 0..n |->
                         IF k = 0 THEN 0
                         ELSE f[k - 1] + IF k \in at THEN calls[k].amount ELSE 0]
               /\ Sum(calls, at) = f[n]
  BY SumSteps
<1> DEFINE Wrong == {k \in 0..n : f[k] # 0}
<1>2. Wrong = {}
  <2>1. SUFFICES ASSUME Wrong # {} PROVE FALSE
    OBVIOUS
  <2>2. PICK k \in Wrong : \A y \in Wrong : k <= y
    <3>1. Wrong \subseteq Nat
      OBVIOUS
    <3> HIDE DEF Wrong
    <3> QED
      BY <2>1, <3>1, LeastNat
  <2>3. k \in 0..n /\ f[k] # 0
    OBVIOUS
  <2>4. k # 0
    BY <1>1, <2>3
  <2>5. k - 1 \in 0..n /\ k - 1 \notin Wrong /\ k \in 1..n
    BY <2>2, <2>3, <2>4
  <2>6. f[k - 1] = 0
    BY <2>5
  <2>7. f[k] = f[k - 1] + IF k \in at THEN calls[k].amount ELSE 0
    BY <1>1, <2>3, <2>4
  <2> HIDE DEF Wrong
  <2> QED
    BY <2>3, <2>5, <2>6, <2>7
<1>3. n \in 0..n /\ n \notin Wrong
  BY <1>2
<1> QED
  BY <1>1, <1>3

(* ---- The lists *)

(* What is in the lists, and what the calls are. *)
U2UEntry == [account : Int, amount : Int, approved : BOOLEAN]
Decimals == Int \cup {Null}
TokenEntry == [token : Int, account : Int, amount : Int,
               decimals : Decimals, approved : BOOLEAN]
NftEntry == [token : Int, serial : Int, sender : Int, receiver : Int,
             approved : BOOLEAN]
AddCall ==
  [op : {"u2u"}, account : Int, amount : Int, approved : BOOLEAN]
  \cup [op : {"token"}, token : Int, account : Int, amount : Int,
        approved : BOOLEAN]
  \cup [op : {"decimals"}, token : Int, account : Int, amount : Int,
        decimals : Int]
  \cup [op : {"threw", "threwPaid"}, token : Int, account : Int,
        amount : Int, decimals : Int]
  \cup [op : {"nft"}, token : Int, serial : Int, sender : Int,
        receiver : Int, approved : BOOLEAN]

(* An entry says what was asked for: it has the sum of the amounts, the     *)
(* decimals given last, the parties named last.                             *)
U2UOk(calls, e) ==
  U2UCalls(calls, e) # {} /\ e.amount = Sum(calls, U2UCalls(calls, e))
Given(calls, token, decimals) ==
  decimals # Null =>
    \E m \in DOMAIN calls : /\ GivesDecimals(m, calls, token)
                            /\ calls[m].decimals = decimals
TokenOk(calls, e) ==
  /\ TokenCalls(calls, e) # {} /\ e.amount = Sum(calls, TokenCalls(calls, e))
  /\ Given(calls, e.token, e.decimals)
NftOk(calls, e) ==
  \E m \in DOMAIN calls : /\ IsLast(m, NftCalls(calls, e))
                          /\ e.sender = calls[m].sender
                          /\ e.receiver = calls[m].receiver

(* A list has one entry for everything that was asked for, and no other.    *)
U2UList(calls, list) ==
  /\ list \in Seq(U2UEntry)
  /\ \A i, j \in DOMAIN list : list[i].account = list[j].account => i = j
  /\ \A i \in DOMAIN list : U2UOk(calls, list[i])
  /\ \A m \in DOMAIN calls : calls[m].op = "u2u" =>
       \E i \in DOMAIN list : list[i].account = calls[m].account
TokenList(calls, list) ==
  /\ list \in Seq(TokenEntry)
  /\ \A i, j \in DOMAIN list :
       list[i].token = list[j].token /\ list[i].account = list[j].account => i = j
  /\ \A i \in DOMAIN list : TokenOk(calls, list[i])
  /\ \A m \in DOMAIN calls : calls[m].op \in PaidOps =>
       \E i \in DOMAIN list : /\ list[i].token = calls[m].token
                              /\ list[i].account = calls[m].account
NftList(calls, list) ==
  /\ list \in Seq(NftEntry)
  /\ \A i, j \in DOMAIN list :
       list[i].token = list[j].token /\ list[i].serial = list[j].serial => i = j
  /\ \A i \in DOMAIN list : NftOk(calls, list[i])
  /\ \A m \in DOMAIN calls : calls[m].op = "nft" =>
       \E i \in DOMAIN list : /\ list[i].token = calls[m].token
                              /\ list[i].serial = calls[m].serial

(* The least of a set of numbers is in it. *)
LEMMA MinIn ==
    ASSUME NEW S, S \subseteq Nat, S # {}
    PROVE  Min(S) \in S
<1>1. PICK x \in S : \A y \in S : x <= y
  BY LeastNat
<1> QED
  BY <1>1 DEF Min

(* The fields that a call of each kind has. *)
LEMMA CallFields ==
    ASSUME NEW c \in AddCall
    PROVE  /\ c.op \in {"u2u", "nft", "threw"} \cup PaidOps
           /\ c.op = "u2u" => /\ c.account \in Int /\ c.amount \in Int
                              /\ c.approved \in BOOLEAN
           /\ c.op \in PaidOps \cup DecimalsOps =>
                c.token \in Int /\ c.account \in Int /\ c.amount \in Int
           /\ c.op = "token" => c.approved \in BOOLEAN
           /\ c.op \in DecimalsOps => c.decimals \in Int
           /\ c.op = "nft" => /\ c.token \in Int /\ c.serial \in Int
                              /\ c.sender \in Int /\ c.receiver \in Int
                              /\ c.approved \in BOOLEAN
BY DEF AddCall, PaidOps, DecimalsOps

(* One more call. *)
LEMMA OneMore ==
    ASSUME NEW S, NEW calls \in Seq(S), NEW c \in S
    PROVE  LET more == Append(calls, c) IN
           /\ more \in Seq(S) /\ Len(calls) \in Nat
           /\ Len(more) = Len(calls) + 1
           /\ DOMAIN calls = 1..Len(calls) /\ DOMAIN more = 1..(Len(calls) + 1)
           /\ more[Len(calls) + 1] = c
           /\ \A k \in 1..Len(calls) : more[k] = calls[k]
OBVIOUS

(* How the positions of the calls for something grow. *)
LEMMA CallsMore ==
    ASSUME NEW calls \in Seq(AddCall), NEW c \in AddCall, NEW e, NEW token
    PROVE  LET more == Append(calls, c)
               new(counts) == IF counts THEN {Len(calls) + 1} ELSE {}
           IN
           /\ U2UCalls(more, e) = U2UCalls(calls, e)
                \cup new(c.op = "u2u" /\ c.account = e.account)
           /\ TokenCalls(more, e) = TokenCalls(calls, e)
                \cup new(c.op \in PaidOps /\ c.token = e.token
                         /\ c.account = e.account)
           /\ NftCalls(more, e) = NftCalls(calls, e)
                \cup new(c.op = "nft" /\ c.token = e.token
                         /\ c.serial = e.serial)
           /\ DecimalsCalls(more, token) = DecimalsCalls(calls, token)
                \cup new(c.op \in DecimalsOps /\ c.token = token)
<1> DEFINE more == Append(calls, c)
           n == Len(calls)
<1>1. /\ n \in Nat /\ DOMAIN calls = 1..n /\ DOMAIN more = 1..(n + 1)
      /\ more[n + 1] = c /\ \A k \in 1..n : more[k] = calls[k]
  BY OneMore
<1>2. \A k : k \in 1..(n + 1) <=> k \in 1..n \/ k = n + 1
  BY <1>1
<1>3. n + 1 \notin 1..n
  BY <1>1
<1> HIDE DEF more, n
<1>4. U2UCalls(more, e) = U2UCalls(calls, e) \cup
        IF c.op = "u2u" /\ c.account = e.account THEN {n + 1} ELSE {}
  BY <1>1, <1>2, <1>3 DEF U2UCalls, Where
<1>5. TokenCalls(more, e) = TokenCalls(calls, e) \cup
        IF c.op \in PaidOps /\ c.token = e.token
           /\ c.account = e.account THEN {n + 1} ELSE {}
  BY <1>1, <1>2, <1>3 DEF TokenCalls, Where
<1>6. NftCalls(more, e) = NftCalls(calls, e) \cup
        IF c.op = "nft" /\ c.token = e.token /\ c.serial = e.serial
        THEN {n + 1} ELSE {}
  BY <1>1, <1>2, <1>3 DEF NftCalls, Where
<1>7. DecimalsCalls(more, token) = DecimalsCalls(calls, token) \cup
        IF c.op \in DecimalsOps /\ c.token = token THEN {n + 1} ELSE {}
  BY <1>1, <1>2, <1>3 DEF DecimalsCalls, Where
<1> QED
  BY <1>4, <1>5, <1>6, <1>7 DEF more, n

(* The positions are positions, and the sums numbers that grow. *)
LEMMA CallsAt ==
    ASSUME NEW calls, NEW e, NEW token
    PROVE  /\ U2UCalls(calls, e) \subseteq DOMAIN calls
           /\ TokenCalls(calls, e) \subseteq DOMAIN calls
           /\ NftCalls(calls, e) \subseteq DOMAIN calls
           /\ DecimalsCalls(calls, token) \subseteq DOMAIN calls
BY DEF U2UCalls, TokenCalls, NftCalls, DecimalsCalls, Where

(* The sum of the amounts, with one more call. *)
LEMMA SumMore ==
    ASSUME NEW calls \in Seq(AddCall), NEW c \in AddCall,
           NEW at \in SUBSET (DOMAIN calls), NEW counts \in BOOLEAN
    PROVE  Sum(Append(calls, c),
               at \cup IF counts THEN {Len(calls) + 1} ELSE {})
             = Sum(calls, at) + IF counts THEN c.amount ELSE 0
<1> DEFINE more == Append(calls, c)
           n == Len(calls)
           at2 == at \cup IF counts THEN {n + 1} ELSE {}
<1>1. /\ n \in Nat /\ DOMAIN calls = 1..n /\ Len(more) = n + 1
      /\ more[n + 1] = c /\ \A k \in 1..n : more[k] = calls[k]
  BY OneMore
<1>2. \A k \in 1..n : k \in at2 <=> k \in at
  BY <1>1
<1>3. n + 1 \in at2 <=> counts
  BY <1>1
<1> HIDE DEF more, n, at2
<1>4. Sum(more, at2)
        = Sum(calls, at) + IF n + 1 \in at2 THEN more[n + 1].amount ELSE 0
  BY <1>1, <1>2, SumAppend DEF n
<1> QED
  BY <1>1, <1>3, <1>4 DEF more, n, at2

(* ---- The add methods keep the lists *)

(* The entry of an account, with one more call. *)
LEMMA U2UOkMore ==
    ASSUME NEW calls \in Seq(AddCall), NEW c \in AddCall, NEW e, NEW f,
           f.account = e.account, e.amount \in Int,
           \/ U2UOk(calls, e)
           \/ /\ U2UCalls(calls, e) = {} /\ e.amount = 0
              /\ c.op = "u2u" /\ c.account = e.account,
           f.amount = e.amount + IF c.op = "u2u" /\ c.account = e.account
                                 THEN c.amount ELSE 0
    PROVE  U2UOk(Append(calls, c), f)
<1> DEFINE counts == c.op = "u2u" /\ c.account = e.account
           at == U2UCalls(calls, e)
           new == IF counts THEN {Len(calls) + 1} ELSE {}
<1>1. U2UCalls(Append(calls, c), f) = at \cup new
  <2>1. U2UCalls(Append(calls, c), f) = U2UCalls(Append(calls, c), e)
    BY DEF U2UCalls
  <2> QED
    BY <2>1, CallsMore
<1>2. at \in SUBSET (DOMAIN calls) /\ counts \in BOOLEAN
  BY CallsAt
<1>3. Sum(Append(calls, c), at \cup new)
        = Sum(calls, at) + IF counts THEN c.amount ELSE 0
  <2> HIDE DEF at, counts
  <2> QED
    BY <1>2, SumMore
<1>4. e.amount = Sum(calls, at)
  <2>1. CASE U2UOk(calls, e)
    BY <2>1 DEF U2UOk
  <2>2. CASE at = {} /\ e.amount = 0
    BY <2>2, SumNone
  <2> QED
    BY <2>1, <2>2
<1>5. at \cup new # {}
  BY DEF U2UOk
<1> QED
  BY <1>1, <1>3, <1>4, <1>5 DEF U2UOk

(* _addU2UTransfer() keeps the list right. *)
LEMMA AddU2URight ==
    ASSUME NEW calls \in Seq(AddCall), NEW c \in AddCall, NEW list,
           U2UList(calls, list)
    PROVE  U2UList(Append(calls, c),
                   IF c.op = "u2u" THEN AddU2UTransfer(list, c) ELSE list)
<1> DEFINE more == Append(calls, c)
           n == Len(calls)
<1>1. /\ n \in Nat /\ DOMAIN calls = 1..n /\ DOMAIN more = 1..(n + 1)
      /\ more[n + 1] = c /\ \A k \in 1..n : more[k] = calls[k]
  BY OneMore
<1>2. \A k : k \in 1..(n + 1) <=> k \in 1..n \/ k = n + 1
  BY <1>1
<1>3. /\ list \in Seq(U2UEntry)
      /\ \A i, j \in DOMAIN list : list[i].account = list[j].account => i = j
      /\ \A i \in DOMAIN list : U2UOk(calls, list[i])
      /\ \A m \in 1..n : calls[m].op = "u2u" =>
           \E i \in DOMAIN list : list[i].account = calls[m].account
  BY <1>1 DEF U2UList
<1>4. \A i \in DOMAIN list : list[i] \in U2UEntry /\ list[i].amount \in Int
  <2>1. \A i \in DOMAIN list : list[i] \in U2UEntry
    BY <1>3
  <2> QED
    BY <2>1 DEF U2UEntry
<1> HIDE DEF more, n
<1>5. ASSUME NEW i \in DOMAIN list, c.op = "u2u" => c.account # list[i].account
      PROVE  U2UOk(more, list[i])
  BY <1>3, <1>4, <1>5, U2UOkMore DEF more
<1>6. CASE c.op # "u2u"
  BY <1>1, <1>2, <1>3, <1>5, <1>6 DEF U2UList, more
<1>7. CASE c.op = "u2u"
  <2> DEFINE at == Where(list, LAMBDA t : t.account = c.account)
             new == AddU2UTransfer(list, c)
  <2>1. /\ at = {i \in DOMAIN list : list[i].account = c.account}
        /\ c.account \in Int /\ c.amount \in Int /\ c.approved \in BOOLEAN
    BY <1>7, CallFields DEF Where
  <2>2. CASE at = {}
    <3> DEFINE f == [account |-> c.account, amount |-> c.amount,
                     approved |-> c.approved]
    <3>1. new = Append(list, f) /\ f \in U2UEntry
      BY <2>1, <2>2 DEF AddU2UTransfer, U2UEntry
    <3>2. f.account = c.account /\ f.amount = c.amount
      OBVIOUS
    <3>3. U2UOk(more, f)
      <4> DEFINE e == [account |-> c.account, amount |-> 0]
      <4>1. e.account = c.account /\ e.amount = 0
        OBVIOUS
      <4>2. U2UCalls(calls, e) = {}
        BY <1>1, <1>3, <2>1, <2>2, <4>1 DEF U2UCalls, Where
      <4> HIDE DEF e, f
      <4>3. f.amount = e.amount + c.amount
        BY <2>1, <3>2, <4>1
      <4> QED
        BY <1>7, <3>2, <4>1, <4>2, <4>3, U2UOkMore DEF more
    <3> HIDE DEF f
    <3>4. /\ new \in Seq(U2UEntry) /\ DOMAIN list = 1..Len(list)
          /\ DOMAIN new = 1..(Len(list) + 1) /\ Len(list) \in Nat
          /\ new[Len(list) + 1] = f
          /\ \A i \in 1..Len(list) : new[i] = list[i]
      BY <1>3, <3>1, OneMore
    <3>5. \A i : i \in 1..(Len(list) + 1) <=>
                   i \in 1..Len(list) \/ i = Len(list) + 1
      BY <3>4
    <3>6. \A i \in DOMAIN list : list[i].account # c.account
      BY <2>1, <2>2
    <3> HIDE DEF new, at
    <3>7. \A i \in DOMAIN new : U2UOk(more, new[i])
      BY <1>5, <3>3, <3>4, <3>5, <3>6
    <3>8. \A i, j \in DOMAIN new : new[i].account = new[j].account => i = j
      BY <1>3, <3>2, <3>4, <3>5, <3>6
    <3>9. \A m \in DOMAIN more : more[m].op = "u2u" =>
            \E i \in DOMAIN new : new[i].account = more[m].account
      <4>1. ASSUME NEW m \in 1..n, calls[m].op = "u2u"
            PROVE  \E i \in DOMAIN new : new[i].account = calls[m].account
        BY <1>3, <3>4, <3>5, <4>1
      <4>2. Len(list) + 1 \in DOMAIN new
        BY <3>4, <3>5
      <4> QED
        BY <1>1, <1>2, <3>2, <3>4, <4>1, <4>2
    <3>10. U2UList(more, new)
      BY <3>4, <3>7, <3>8, <3>9 DEF U2UList
    <3> QED
      BY <1>7, <3>10 DEF more, new
  <2>3. CASE at # {}
    <3> DEFINE h == Min(at)
               f == [list[h] EXCEPT !.amount = @ + c.amount]
    <3>1. h \in at
      <4>1. at \subseteq Nat
        <5>1. DOMAIN list = 1..Len(list) /\ Len(list) \in Nat
          BY <1>3
        <5> HIDE DEF at
        <5> QED
          BY <2>1, <5>1
      <4> HIDE DEF at
      <4> QED
        BY <2>3, <4>1, MinIn
    <3>2. h \in DOMAIN list /\ list[h].account = c.account
          /\ list[h] \in U2UEntry
      BY <1>4, <2>1, <3>1
    <3>3. new = [list EXCEPT ![h] = f]
      BY <2>3 DEF AddU2UTransfer
    <3> HIDE DEF h, at
    <3>4. /\ f \in U2UEntry /\ f.account = c.account
          /\ f.amount = list[h].amount + c.amount
      BY <2>1, <3>2 DEF U2UEntry
    <3> HIDE DEF f, new
    <3>5. U2UOk(more, f)
      <4>1. U2UOk(calls, list[h]) /\ list[h].amount \in Int
        BY <1>3, <1>4, <3>2
      <4> QED
        BY <1>7, <3>2, <3>4, <4>1, U2UOkMore DEF more
    <3>6. /\ new \in Seq(U2UEntry) /\ DOMAIN new = DOMAIN list
          /\ new[h] = f /\ \A i \in DOMAIN list : i # h => new[i] = list[i]
      BY <1>3, <3>2, <3>3, <3>4
    <3>7. \A i \in DOMAIN list : i # h => list[i].account # c.account
      BY <1>3, <3>2
    <3>8. \A i \in DOMAIN new : U2UOk(more, new[i])
      BY <1>5, <3>5, <3>6, <3>7
    <3>9. \A i \in DOMAIN new : new[i].account = list[i].account
      BY <3>2, <3>4, <3>6
    <3>10. \A m \in DOMAIN more : more[m].op = "u2u" =>
             \E i \in DOMAIN new : new[i].account = more[m].account
      <4>1. ASSUME NEW m \in 1..n, calls[m].op = "u2u"
            PROVE  \E i \in DOMAIN new : new[i].account = calls[m].account
        BY <1>3, <3>6, <3>9, <4>1
      <4> QED
        BY <1>1, <1>2, <3>2, <3>6, <3>9, <4>1
    <3>11. U2UList(more, new)
      <4>1. \A i, j \in DOMAIN new : new[i].account = new[j].account => i = j
        BY <1>3, <3>6, <3>9
      <4> QED
        BY <3>6, <3>8, <3>10, <4>1 DEF U2UList
    <3> QED
      BY <1>7, <3>11 DEF more, new
  <2> QED
    BY <2>2, <2>3
<1> QED
  BY <1>6, <1>7

(* The decimals that were given last, or in a later call that threw. *)
LEMMA GivenMore ==
    ASSUME NEW calls \in Seq(AddCall), NEW c \in AddCall, NEW token, NEW d,
           \/ Given(calls, token, d) /\ ~ (c.op = "decimals" /\ c.token = token)
           \/ c.op \in DecimalsOps /\ c.token = token /\ c.decimals = d
    PROVE  Given(Append(calls, c), token, d)
<1> DEFINE more == Append(calls, c)
           n == Len(calls)
<1>1. /\ n \in Nat /\ DOMAIN calls = 1..n /\ DOMAIN more = 1..(n + 1)
      /\ more[n + 1] = c /\ \A k \in 1..n : more[k] = calls[k]
  BY OneMore
<1>2. DecimalsCalls(more, token) = DecimalsCalls(calls, token)
        \cup IF c.op \in DecimalsOps /\ c.token = token THEN {n + 1} ELSE {}
  BY CallsMore
<1>3. DecimalsCalls(calls, token) \subseteq 1..n
  BY <1>1, CallsAt
<1>4. DecimalsCalls(more, token) \subseteq 1..(n + 1)
  <2> HIDE DEF more
  <2> QED
    BY <1>1, <1>2, <1>3
<1>5. \A k \in DecimalsCalls(more, token) :
        k \in DecimalsCalls(calls, token) \/ (k = n + 1 /\ c.token = token)
  <2> HIDE DEF more
  <2> QED
    BY <1>2
<1> HIDE DEF more, n
<1>6. CASE Given(calls, token, d) /\ ~ (c.op = "decimals" /\ c.token = token)
  <2>1. SUFFICES ASSUME d # Null PROVE Given(more, token, d)
    BY DEF Given, more
  <2>2. PICK m \in DOMAIN calls : GivesDecimals(m, calls, token)
                                  /\ calls[m].decimals = d
    BY <1>6, <2>1 DEF Given
  <2>3. m \in 1..n /\ m \in 1..(n + 1) /\ more[m] = calls[m]
    BY <1>1, <2>2
  <2>4. m \in DecimalsCalls(more, token)
    BY <1>2, <2>2 DEF GivesDecimals
  <2>5. ASSUME NEW k \in DecimalsCalls(more, token), more[k].op = "decimals"
        PROVE  k <= m
    <3>1. k \in DecimalsCalls(calls, token)
      BY <1>1, <1>5, <1>6, <2>5
    <3> QED
      BY <1>1, <1>3, <2>2, <2>5, <3>1 DEF GivesDecimals
  <2> QED
    BY <1>1, <2>2, <2>3, <2>4, <2>5 DEF Given, GivesDecimals
<1>7. CASE c.op \in DecimalsOps /\ c.token = token /\ c.decimals = d
  <2>1. GivesDecimals(n + 1, more, token)
    <3>1. n + 1 \in DecimalsCalls(more, token)
      BY <1>2, <1>7
    <3>2. \A k \in 1..(n + 1) : k <= n + 1
      BY <1>1
    <3> QED
      BY <1>4, <3>1, <3>2 DEF GivesDecimals
  <2>2. n + 1 \in DOMAIN more
    BY <1>1
  <2>3. Given(more, token, d)
    BY <1>1, <1>7, <2>1, <2>2 DEF Given
  <2> QED
    BY <2>3 DEF more
<1> QED
  BY <1>6, <1>7

(* The entry of a token and an account, with one more call. *)
LEMMA TokenOkMore ==
    ASSUME NEW calls \in Seq(AddCall), NEW c \in AddCall, NEW e, NEW f,
           f.token = e.token, f.account = e.account, e.amount \in Int,
           \/ TokenOk(calls, e)
           \/ /\ TokenCalls(calls, e) = {} /\ e.amount = 0
              /\ c.op \in PaidOps /\ c.token = e.token
              /\ c.account = e.account,
           f.amount = e.amount + IF /\ c.op \in PaidOps
                                    /\ c.token = e.token
                                    /\ c.account = e.account
                                 THEN c.amount ELSE 0,
           Given(Append(calls, c), f.token, f.decimals)
    PROVE  TokenOk(Append(calls, c), f)
<1> DEFINE counts == c.op \in PaidOps /\ c.token = e.token
                     /\ c.account = e.account
           at == TokenCalls(calls, e)
           new == IF counts THEN {Len(calls) + 1} ELSE {}
<1>1. TokenCalls(Append(calls, c), f) = at \cup new
  <2>1. TokenCalls(Append(calls, c), f) = TokenCalls(Append(calls, c), e)
    BY DEF TokenCalls
  <2> QED
    BY <2>1, CallsMore
<1>2. at \in SUBSET (DOMAIN calls) /\ counts \in BOOLEAN
  BY CallsAt
<1>3. Sum(Append(calls, c), at \cup new)
        = Sum(calls, at) + IF counts THEN c.amount ELSE 0
  <2> HIDE DEF at, counts
  <2> QED
    BY <1>2, SumMore
<1>4. e.amount = Sum(calls, at)
  <2>1. CASE TokenOk(calls, e)
    BY <2>1 DEF TokenOk
  <2>2. CASE at = {} /\ e.amount = 0
    BY <2>2, SumNone
  <2> QED
    BY <2>1, <2>2
<1>5. at \cup new # {}
  BY DEF TokenOk
<1> QED
  BY <1>1, <1>3, <1>4, <1>5 DEF TokenOk

(* A list for the calls so far and one more: the entries stay what they are *)
(* for, and there is a new one if there was none for the call.              *)
LEMMA TokenListMore ==
    ASSUME NEW calls \in Seq(AddCall), NEW c \in AddCall, NEW list, NEW new,
           TokenList(calls, list), new \in Seq(TokenEntry),
           \A i \in DOMAIN list : /\ i \in DOMAIN new
                                  /\ new[i].token = list[i].token
                                  /\ new[i].account = list[i].account,
           \A i \in DOMAIN new : i \notin DOMAIN list =>
             /\ i = Len(list) + 1
             /\ new[i].token = c.token /\ new[i].account = c.account
             /\ \A j \in DOMAIN list :
                  ~ (list[j].token = c.token /\ list[j].account = c.account),
           c.op \in PaidOps =>
             \E i \in DOMAIN new : new[i].token = c.token
                                   /\ new[i].account = c.account,
           \A i \in DOMAIN new : TokenOk(Append(calls, c), new[i])
    PROVE  TokenList(Append(calls, c), new)
<1> DEFINE more == Append(calls, c)
           n == Len(calls)
<1>1. /\ n \in Nat /\ DOMAIN calls = 1..n /\ DOMAIN more = 1..(n + 1)
      /\ more[n + 1] = c /\ \A k \in 1..n : more[k] = calls[k]
  BY OneMore
<1>2. \A k : k \in 1..(n + 1) <=> k \in 1..n \/ k = n + 1
  BY <1>1
<1> HIDE DEF more, n
<1>3. ASSUME NEW i \in DOMAIN new, NEW j \in DOMAIN new,
             new[i].token = new[j].token, new[i].account = new[j].account
      PROVE  i = j
  <2>1. CASE i \in DOMAIN list /\ j \in DOMAIN list
    BY <1>3, <2>1 DEF TokenList
  <2>2. CASE i \notin DOMAIN list /\ j \in DOMAIN list
    BY <1>3, <2>2
  <2>3. CASE i \in DOMAIN list /\ j \notin DOMAIN list
    BY <1>3, <2>3
  <2>4. CASE i \notin DOMAIN list /\ j \notin DOMAIN list
    BY <2>4
  <2> QED
    BY <2>1, <2>2, <2>3, <2>4
<1>4. ASSUME NEW m \in DOMAIN more, more[m].op \in PaidOps
      PROVE  \E i \in DOMAIN new : new[i].token = more[m].token
                                   /\ new[i].account = more[m].account
  <2>1. CASE m \in 1..n
    <3>1. PICK i \in DOMAIN list : list[i].token = calls[m].token
                                   /\ list[i].account = calls[m].account
      BY <1>1, <1>4, <2>1 DEF TokenList
    <3> QED
      BY <1>1, <2>1, <3>1
  <2>2. CASE m = n + 1
    BY <1>1, <1>4, <2>2
  <2> QED
    BY <1>1, <1>2, <2>1, <2>2
<1>5. TokenList(more, new)
  BY <1>3, <1>4 DEF TokenList, more
<1> QED
  BY <1>5 DEF more

(* What a list that is right is made of. *)
LEMMA TokenListTyped ==
    ASSUME NEW calls, NEW list, TokenList(calls, list)
    PROVE  /\ list \in Seq(TokenEntry) /\ Len(list) \in Nat
           /\ DOMAIN list = 1..Len(list)
           /\ \A i \in DOMAIN list :
                /\ list[i] \in TokenEntry /\ list[i].amount \in Int
                /\ TokenOk(calls, list[i])
                /\ Given(calls, list[i].token, list[i].decimals)
<1>1. list \in Seq(TokenEntry) /\ \A i \in DOMAIN list : TokenOk(calls, list[i])
  BY DEF TokenList
<1>2. \A i \in DOMAIN list : list[i] \in TokenEntry
  BY <1>1
<1>3. \A i \in DOMAIN list : list[i].amount \in Int
  BY <1>2 DEF TokenEntry
<1> QED
  BY <1>1, <1>2, <1>3 DEF TokenOk

(* A new entry is right. *)
LEMMA TokenOkNew ==
    ASSUME NEW calls \in Seq(AddCall), NEW c \in AddCall, NEW list,
           TokenList(calls, list), c.op \in PaidOps,
           \A i \in DOMAIN list :
             ~ (list[i].token = c.token /\ list[i].account = c.account),
           NEW f, f.token = c.token, f.account = c.account,
           f.amount = c.amount, f.decimals \in {Null, c.decimals},
           c.op \notin DecimalsOps => f.decimals = Null
    PROVE  TokenOk(Append(calls, c), f)
<1> DEFINE e == [token |-> c.token, account |-> c.account, amount |-> 0]
<1>1. e.token = c.token /\ e.account = c.account /\ e.amount = 0
      /\ c.amount \in Int
  BY CallFields
<1> HIDE DEF e
<1>2. TokenCalls(calls, e) = {}
  <2>1. DOMAIN calls = 1..Len(calls)
    OBVIOUS
  <2> QED
    BY <1>1, <2>1 DEF TokenCalls, Where, TokenList
<1>3. f.amount = e.amount + c.amount
  BY <1>1
<1>4. Given(Append(calls, c), f.token, f.decimals)
  <2>1. CASE f.decimals = Null
    BY <2>1 DEF Given
  <2>2. CASE f.decimals # Null
    BY <2>2, GivenMore
  <2> QED
    BY <2>1, <2>2
<1> QED
  BY <1>1, <1>2, <1>3, <1>4, TokenOkMore

(* Another amount, in an entry that forgets its decimals or takes others. *)
Changed(f, e, x, d) == \/ f = [e EXCEPT !.amount = x, !.decimals = d]
                       \/ f = [e EXCEPT !.decimals = d, !.amount = x]

(* Only these two fields change. *)
LEMMA TokenEntryChanged ==
    ASSUME NEW e \in TokenEntry, NEW x \in Int, NEW d \in Decimals,
           NEW f, Changed(f, e, x, d)
    PROVE  /\ f \in TokenEntry /\ f.token = e.token /\ f.account = e.account
           /\ f.amount = x /\ f.decimals = d
<1> DEFINE g == [e EXCEPT !.amount = x, !.decimals = d]
<1>1. f = g
  BY DEF TokenEntry, Changed
<1>2. g.token = e.token /\ g.account = e.account
  BY DEF TokenEntry
<1>3. g.decimals = d /\ g.amount = x
  BY DEF TokenEntry
<1>4. g \in TokenEntry
  BY DEF TokenEntry
<1> HIDE DEF g
<1> QED
  BY <1>1, <1>2, <1>3, <1>4

(* _addTokenTransfer() keeps the list right. *)
LEMMA AddTokenRight ==
    ASSUME NEW calls \in Seq(AddCall), NEW c \in AddCall, NEW list,
           TokenList(calls, list), c.op = "token"
    PROVE  TokenList(Append(calls, c), AddTokenTransfer(list, c))
<1> DEFINE at == Where(list, LAMBDA t : t.token = c.token
                                        /\ t.account = c.account)
           new == AddTokenTransfer(list, c)
<1>1. /\ at = {i \in DOMAIN list :
                 list[i].token = c.token /\ list[i].account = c.account}
      /\ c.token \in Int /\ c.account \in Int /\ c.amount \in Int
      /\ c.approved \in BOOLEAN
  BY CallFields DEF Where, PaidOps
<1>0. c.op \in PaidOps /\ c.op \notin DecimalsOps
  BY DEF PaidOps, DecimalsOps
<1>2. /\ list \in Seq(TokenEntry) /\ Len(list) \in Nat
      /\ DOMAIN list = 1..Len(list)
      /\ \A i \in DOMAIN list :
           /\ list[i] \in TokenEntry /\ list[i].amount \in Int
           /\ TokenOk(calls, list[i])
           /\ Given(calls, list[i].token, list[i].decimals)
  BY TokenListTyped
<1>3. ASSUME NEW i \in DOMAIN list,
             ~ (list[i].token = c.token /\ list[i].account = c.account)
      PROVE  TokenOk(Append(calls, c), list[i])
  <2>1. Given(Append(calls, c), list[i].token, list[i].decimals)
    BY <1>2, GivenMore
  <2>2. list[i].amount = list[i].amount + 0
    BY <1>2
  <2> QED
    BY <1>2, <1>3, <2>1, <2>2, TokenOkMore
<1>4. CASE at = {}
  <2> DEFINE f == [token |-> c.token, account |-> c.account,
                   amount |-> c.amount, decimals |-> Null,
                   approved |-> c.approved]
  <2>1. new = Append(list, f) /\ f \in TokenEntry
    BY <1>1, <1>4 DEF AddTokenTransfer, TokenEntry, Decimals
  <2>2. f.token = c.token /\ f.account = c.account /\ f.amount = c.amount
        /\ f.decimals = Null
    OBVIOUS
  <2> HIDE DEF f, new, at
  <2>3. /\ new \in Seq(TokenEntry)
        /\ DOMAIN new = 1..(Len(list) + 1)
        /\ new[Len(list) + 1] = f
        /\ \A i \in 1..Len(list) : new[i] = list[i]
    BY <1>2, <2>1, OneMore
  <2>4. \A i : i \in 1..(Len(list) + 1) <=>
                 i \in 1..Len(list) \/ i = Len(list) + 1
    BY <1>2
  <2>5. \A i \in DOMAIN list :
          ~ (list[i].token = c.token /\ list[i].account = c.account)
    BY <1>1, <1>4
  <2>6. TokenOk(Append(calls, c), f)
    BY <1>0, <2>2, <2>5, TokenOkNew
  <2>7. \A i \in DOMAIN new : TokenOk(Append(calls, c), new[i])
    BY <1>2, <1>3, <2>3, <2>4, <2>5, <2>6
  <2>8. TokenList(Append(calls, c), new)
    BY <1>2, <2>2, <2>3, <2>4, <2>5, <2>7, TokenListMore
  <2> QED
    BY <2>8 DEF new
<1>5. CASE at # {}
  <2> DEFINE h == Min(at)
             f == [list[h] EXCEPT !.amount = @ + c.amount, !.decimals = Null]
  <2>1. h \in at
    <3> HIDE DEF at
    <3>1. at \subseteq Nat
      BY <1>1, <1>2
    <3> QED
      BY <1>5, <3>1, MinIn
  <2>2. h \in DOMAIN list /\ list[h].token = c.token
        /\ list[h].account = c.account
    BY <1>1, <2>1
  <2>3. new = [list EXCEPT ![h] = f]
    BY <1>2, <1>5, <2>2 DEF AddTokenTransfer, TokenEntry
  <2> HIDE DEF h, at, new
  <2>4. /\ f \in TokenEntry /\ f.token = c.token /\ f.account = c.account
        /\ f.amount = list[h].amount + c.amount /\ f.decimals = Null
    <3>1. list[h] \in TokenEntry
      BY <1>2, <2>2
    <3> DEFINE x == list[h].amount + c.amount
    <3>2. Changed(f, list[h], x, Null)
      BY DEF Changed
    <3>3. x \in Int /\ Null \in Decimals
      BY <1>1, <1>2, <2>2 DEF Decimals
    <3> HIDE DEF f, x
    <3>4. /\ f \in TokenEntry
          /\ f.token = list[h].token /\ f.account = list[h].account
          /\ f.amount = x /\ f.decimals = Null
      BY <3>1, <3>2, <3>3, TokenEntryChanged
    <3> QED
      BY <2>2, <3>4 DEF x
  <2> HIDE DEF f
  <2>5. TokenOk(Append(calls, c), f)
    <3>1. Given(Append(calls, c), f.token, f.decimals)
      BY <2>4 DEF Given
    <3> QED
      BY <1>0, <1>2, <2>2, <2>4, <3>1, TokenOkMore
  <2>6. /\ new \in Seq(TokenEntry) /\ DOMAIN new = DOMAIN list
        /\ new[h] = f /\ \A i \in DOMAIN list : i # h => new[i] = list[i]
    BY <1>2, <2>2, <2>3, <2>4
  <2>7. \A i \in DOMAIN list : i # h =>
          ~ (list[i].token = c.token /\ list[i].account = c.account)
    BY <2>2 DEF TokenList
  <2>8. \A i \in DOMAIN new : TokenOk(Append(calls, c), new[i])
    BY <1>3, <2>5, <2>6, <2>7
  <2>9. \A i \in DOMAIN list : new[i].token = list[i].token
                               /\ new[i].account = list[i].account
    BY <2>2, <2>4, <2>6
  <2>10. TokenList(Append(calls, c), new)
    <3>1. /\ \A i \in DOMAIN list : /\ i \in DOMAIN new
                                     /\ new[i].token = list[i].token
                                     /\ new[i].account = list[i].account
          /\ \A i \in DOMAIN new : i \in DOMAIN list
          /\ \E i \in DOMAIN new : new[i].token = c.token
                                   /\ new[i].account = c.account
      BY <2>2, <2>6, <2>9
    <3> QED
      BY <2>6, <2>8, <3>1, TokenListMore
  <2> QED
    BY <2>10 DEF new
<1> QED
  BY <1>4, <1>5

(* The entries before the first that expects other decimals take them: the    *)
(* list is right for the call recorded as d, whether it returns or throws.     *)
LEMMA WithDecimalsRight ==
    ASSUME NEW calls \in Seq(AddCall), NEW c \in AddCall, NEW d \in AddCall,
           NEW list, TokenList(calls, list),
           d.op \in DecimalsOps, d.token = c.token, d.account = c.account,
           d.amount = c.amount, d.decimals = c.decimals,
           d.op = "decimals" => Clashes(list, c) = {},
           d.op = "threw" => Paid(list, c) = {},
           d.op = "threwPaid" => Paid(list, c) # {}
    PROVE  LET known == WithDecimals(list, c) IN
           /\ DOMAIN known = DOMAIN list
           /\ \A i \in DOMAIN list : /\ known[i] \in TokenEntry
                                      /\ known[i].token = list[i].token
                                      /\ known[i].account = list[i].account
                                      /\ TokenOk(Append(calls, d), known[i])
<1> DEFINE before == BeforeClash(list, c)
           paid == Paid(list, c)
           known == WithDecimals(list, c)
<1>1. /\ c.token \in Int /\ c.account \in Int /\ c.amount \in Int
      /\ c.decimals \in Decimals
  BY CallFields DEF Decimals
<1>2. /\ list \in Seq(TokenEntry) /\ Len(list) \in Nat
      /\ DOMAIN list = 1..Len(list)
      /\ \A i \in DOMAIN list :
           /\ list[i] \in TokenEntry /\ list[i].amount \in Int
           /\ TokenOk(calls, list[i])
           /\ Given(calls, list[i].token, list[i].decimals)
  BY TokenListTyped
<1>3. \A i : i \in paid <=> /\ i \in before /\ i \in DOMAIN list
                            /\ list[i].token = c.token
                            /\ list[i].account = c.account
  BY DEF Paid, Where
<1>4. d.op = "decimals" => before = DOMAIN list
  BY DEF BeforeClash
<1>5. ASSUME NEW i \in DOMAIN list
      PROVE  /\ known[i] \in TokenEntry
             /\ known[i].token = list[i].token
             /\ known[i].account = list[i].account
             /\ TokenOk(Append(calls, d), known[i])
  <2> DEFINE e == list[i]
             g == known[i]
             x == e.amount + IF i \in paid THEN c.amount ELSE 0
             counts == /\ d.op \in PaidOps /\ d.token = e.token
                       /\ d.account = e.account
  <2>1. e \in TokenEntry /\ e.amount \in Int /\ TokenOk(calls, e)
        /\ Given(calls, e.token, e.decimals)
    BY <1>2
  <2>2. x \in Int
    <3> HIDE DEF e, paid
    <3> QED
      BY <1>1, <2>1
  <2>3. CASE e.token # c.token \/ i \notin before
    <3>1. g = e
      BY <2>3 DEF WithDecimals
    <3>2. ~ (d.op = "decimals" /\ d.token = e.token)
      BY <1>4, <2>3
    <3>3. ~ counts
      <4>1. SUFFICES ASSUME counts PROVE FALSE
        OBVIOUS
      <4>2. d.op = "threwPaid"
        BY <1>4, <2>3, <4>1 DEF PaidOps, DecimalsOps
      <4>3. PICK j : j \in paid
        BY <4>2
      <4>4. j = i
        BY <1>3, <4>1, <4>3 DEF TokenList
      <4> QED
        BY <1>3, <2>3, <4>1, <4>3, <4>4
    <3> HIDE DEF e, g, known
    <3>4. Given(Append(calls, d), e.token, e.decimals)
      BY <2>1, <3>2, GivenMore
    <3>5. e.amount = e.amount + 0
      BY <2>1
    <3>6. TokenOk(Append(calls, d), e)
      BY <2>1, <3>3, <3>4, <3>5, TokenOkMore
    <3> QED
      BY <2>1, <3>1, <3>6 DEF e, g
  <2>4. CASE e.token = c.token /\ i \in before
    <3>1. Changed(g, e, x, c.decimals)
      BY <2>4 DEF Changed, WithDecimals
    <3>2. counts <=> i \in paid
      <4>1. e.account = c.account <=> i \in paid
        BY <1>3, <2>4
      <4>2. i \in paid => d.op # "threw"
        OBVIOUS
      <4> QED
        BY <2>4, <4>1, <4>2 DEF PaidOps, DecimalsOps
    <3> HIDE DEF e, g, known, paid, before
    <3>3. /\ g \in TokenEntry /\ g.token = e.token /\ g.account = e.account
          /\ g.amount = x /\ g.decimals = c.decimals
      <4> HIDE DEF x
      <4> QED
        BY <1>1, <2>1, <2>2, <3>1, TokenEntryChanged
    <3>4. Given(Append(calls, d), g.token, g.decimals)
      BY <2>4, <3>3, GivenMore
    <3>5. g.amount = e.amount + IF counts THEN d.amount ELSE 0
      BY <3>2, <3>3 DEF x
    <3>6. TokenOk(Append(calls, d), g)
      BY <2>1, <3>3, <3>4, <3>5, TokenOkMore
    <3> QED
      BY <3>3, <3>6 DEF e, g
  <2> QED
    BY <2>3, <2>4
<1>6. DOMAIN known = DOMAIN list
  BY DEF WithDecimals
<1> QED
  BY <1>5, <1>6

(* The decimals, and a new entry if the account has none. *)
LEMMA AddDecimalsRight ==
    ASSUME NEW calls \in Seq(AddCall), NEW c \in AddCall, NEW list,
           TokenList(calls, list), c.op = "decimals", Clashes(list, c) = {}
    PROVE  TokenList(Append(calls, c), AddTokenTransferWithDecimals(list, c))
<1> DEFINE known == WithDecimals(list, c)
           new == AddTokenTransferWithDecimals(list, c)
           at == Paid(list, c)
           f == [token |-> c.token, account |-> c.account,
                 amount |-> c.amount, decimals |-> c.decimals,
                 approved |-> FALSE]
<1>0. c.op \in DecimalsOps /\ c.op \in PaidOps
  BY DEF DecimalsOps, PaidOps
<1>1. /\ c.token \in Int /\ c.account \in Int /\ c.amount \in Int
      /\ c.decimals \in Decimals
  BY <1>0, CallFields DEF Decimals
<1>2. /\ list \in Seq(TokenEntry) /\ Len(list) \in Nat
      /\ DOMAIN list = 1..Len(list)
  BY TokenListTyped
<1>3. new = IF at # {} THEN known ELSE Append(known, f)
  BY DEF AddTokenTransferWithDecimals
<1>4. /\ DOMAIN known = DOMAIN list
      /\ \A i \in DOMAIN list : /\ known[i] \in TokenEntry
                                 /\ known[i].token = list[i].token
                                 /\ known[i].account = list[i].account
                                 /\ TokenOk(Append(calls, c), known[i])
  BY <1>0, WithDecimalsRight
<1>5. DOMAIN known = DOMAIN list
  BY <1>4
<1>6. /\ f \in TokenEntry
      /\ f.token = c.token /\ f.account = c.account /\ f.amount = c.amount
      /\ f.decimals = c.decimals
  BY <1>1 DEF TokenEntry
<1>7. at = {i \in DOMAIN list : list[i].token = c.token
                                /\ list[i].account = c.account}
  BY DEF Paid, Where, BeforeClash
<1> HIDE DEF known, new, f, at
<1>8. known \in Seq(TokenEntry) /\ Len(known) = Len(list)
  <2>1. known = [i \in 1..Len(list) |-> known[i]]
    BY <1>2, <1>5 DEF known, WithDecimals
  <2>2. \A i \in 1..Len(list) : known[i] \in TokenEntry
    BY <1>2, <1>4
  <2>3. known \in [1..Len(list) -> TokenEntry]
    BY <2>1, <2>2
  <2> QED
    BY <1>2, <2>3
<1>9. CASE at # {}
  <2>1. new = known
    BY <1>3, <1>9
  <2>2. /\ \A i \in DOMAIN list : /\ i \in DOMAIN known
                                  /\ known[i].token = list[i].token
                                  /\ known[i].account = list[i].account
        /\ \A i \in DOMAIN known : i \in DOMAIN list
        /\ \E i \in DOMAIN known : known[i].token = c.token
                                   /\ known[i].account = c.account
        /\ \A i \in DOMAIN known : TokenOk(Append(calls, c), known[i])
    BY <1>4, <1>5, <1>7, <1>9
  <2>3. TokenList(Append(calls, c), known)
    BY <1>8, <2>2, TokenListMore
  <2> QED
    BY <2>1, <2>3 DEF new
<1>10. CASE at = {}
  <2>1. new = Append(known, f)
    BY <1>3, <1>10
  <2>2. /\ new \in Seq(TokenEntry)
        /\ DOMAIN new = 1..(Len(list) + 1)
        /\ new[Len(list) + 1] = f
        /\ \A i \in 1..Len(list) : new[i] = known[i]
    BY <1>6, <1>8, <2>1, OneMore
  <2>3. \A i : i \in 1..(Len(list) + 1) <=>
                 i \in 1..Len(list) \/ i = Len(list) + 1
    BY <1>2
  <2>4. \A i \in DOMAIN list :
          ~ (list[i].token = c.token /\ list[i].account = c.account)
    BY <1>7, <1>10
  <2>5. TokenOk(Append(calls, c), f)
    BY <1>0, <1>6, <2>4, TokenOkNew
  <2>6. \A i \in DOMAIN new : TokenOk(Append(calls, c), new[i])
    BY <1>2, <1>4, <2>2, <2>3, <2>5
  <2>7. \A i \in DOMAIN list : /\ i \in DOMAIN new
                               /\ new[i].token = list[i].token
                               /\ new[i].account = list[i].account
    BY <1>2, <1>4, <2>2, <2>3
  <2>8. TokenList(Append(calls, c), new)
    <3>1. Len(list) + 1 \in DOMAIN new
      BY <2>2, <2>3
    <3>2. \E i \in DOMAIN new : new[i].token = c.token
                               /\ new[i].account = c.account
      BY <1>6, <2>2, <3>1
    <3>3. \A i \in DOMAIN new : i \notin DOMAIN list =>
            /\ i = Len(list) + 1
            /\ new[i].token = c.token /\ new[i].account = c.account
            /\ \A j \in DOMAIN list :
                 ~ (list[j].token = c.token /\ list[j].account = c.account)
      BY <1>2, <1>6, <2>2, <2>3, <2>4
    <3>4. new \in Seq(TokenEntry)
      BY <2>2
    <3> QED
      BY <2>6, <2>7, <3>2, <3>3, <3>4, TokenListMore
  <2> QED
    BY <2>8 DEF new
<1> QED
  BY <1>9, <1>10

(* The call throws, and the list is right for what it did before. *)
LEMMA AddThrowsRight ==
    ASSUME NEW calls \in Seq(AddCall), NEW c \in AddCall, NEW list,
           NEW d \in AddCall, TokenList(calls, list), c.op = "decimals",
           d.op = IF Paid(list, c) = {} THEN "threw" ELSE "threwPaid",
           d.token = c.token, d.account = c.account, d.amount = c.amount,
           d.decimals = c.decimals
    PROVE  TokenList(Append(calls, d), WithDecimals(list, c))
<1> DEFINE known == WithDecimals(list, c)
<1>1. /\ list \in Seq(TokenEntry) /\ Len(list) \in Nat
      /\ DOMAIN list = 1..Len(list)
  BY TokenListTyped
<1>2. d.op \in DecimalsOps /\ d.op # "decimals"
  BY DEF DecimalsOps
<1>3. /\ DOMAIN known = DOMAIN list
      /\ \A i \in DOMAIN list : /\ known[i] \in TokenEntry
                                 /\ known[i].token = list[i].token
                                 /\ known[i].account = list[i].account
                                 /\ TokenOk(Append(calls, d), known[i])
  BY <1>2, WithDecimalsRight
<1>4. known \in Seq(TokenEntry)
  <2>1. known = [i \in 1..Len(list) |-> known[i]]
    BY <1>1, <1>3 DEF WithDecimals
  <2>2. \A i \in 1..Len(list) : known[i] \in TokenEntry
    BY <1>1, <1>3
  <2> HIDE DEF known
  <2>3. known \in [1..Len(list) -> TokenEntry]
    BY <2>1, <2>2
  <2> QED
    BY <1>1, <2>3
<1>5. d.op \in PaidOps =>
        \E i \in DOMAIN known : known[i].token = d.token
                                /\ known[i].account = d.account
  <2>1. SUFFICES ASSUME d.op \in PaidOps
                 PROVE  \E i \in DOMAIN list : list[i].token = d.token
                                               /\ list[i].account = d.account
    BY <1>3
  <2>2. PICK j : j \in Paid(list, c)
    BY <2>1 DEF PaidOps
  <2> QED
    BY <2>2 DEF Paid, Where
<1> HIDE DEF known
<1>6. TokenList(Append(calls, d), known)
  BY <1>3, <1>4, <1>5, TokenListMore
<1> QED
  BY <1>6 DEF known

(* A call that is about no token leaves the list right. *)
LEMMA TokenListKept ==
    ASSUME NEW calls \in Seq(AddCall), NEW c \in AddCall, NEW list,
           TokenList(calls, list), c.op \notin PaidOps \cup DecimalsOps
    PROVE  TokenList(Append(calls, c), list)
<1>1. /\ list \in Seq(TokenEntry)
      /\ \A i \in DOMAIN list :
           /\ list[i] \in TokenEntry /\ list[i].amount \in Int
           /\ TokenOk(calls, list[i])
           /\ Given(calls, list[i].token, list[i].decimals)
  BY TokenListTyped
<1>2. ASSUME NEW i \in DOMAIN list
      PROVE  TokenOk(Append(calls, c), list[i])
  <2>1. Given(Append(calls, c), list[i].token, list[i].decimals)
    BY <1>1, GivenMore DEF DecimalsOps
  <2>2. list[i].amount = list[i].amount + 0
    BY <1>1
  <2> QED
    BY <1>1, <2>1, <2>2, TokenOkMore
<1> QED
  BY <1>1, <1>2, TokenListMore

(* ---- NFTs *)

(* The entry of an NFT, with one more call. *)
LEMMA NftOkMore ==
    ASSUME NEW calls \in Seq(AddCall), NEW c \in AddCall, NEW f,
           \/ /\ NftOk(calls, f)
              /\ ~ (c.op = "nft" /\ c.token = f.token /\ c.serial = f.serial)
           \/ /\ c.op = "nft" /\ c.token = f.token /\ c.serial = f.serial
              /\ f.sender = c.sender /\ f.receiver = c.receiver
    PROVE  NftOk(Append(calls, c), f)
<1> DEFINE more == Append(calls, c)
           n == Len(calls)
           counts == c.op = "nft" /\ c.token = f.token /\ c.serial = f.serial
<1>1. /\ n \in Nat /\ DOMAIN calls = 1..n /\ DOMAIN more = 1..(n + 1)
      /\ more[n + 1] = c /\ \A k \in 1..n : more[k] = calls[k]
  BY OneMore
<1>2. NftCalls(more, f) = NftCalls(calls, f)
        \cup IF counts THEN {n + 1} ELSE {}
  BY CallsMore
<1>3. NftCalls(calls, f) \subseteq 1..n
  BY <1>1, CallsAt
<1> HIDE DEF more, n
<1>4. CASE NftOk(calls, f) /\ ~ counts
  <2>1. NftCalls(more, f) = NftCalls(calls, f)
    BY <1>2, <1>4
  <2>2. 1..n \subseteq 1..(n + 1)
    BY <1>1
  <2>3. NftOk(more, f)
    BY <1>1, <1>4, <2>1, <2>2 DEF NftOk
  <2> QED
    BY <2>3 DEF more
<1>5. CASE counts /\ f.sender = c.sender /\ f.receiver = c.receiver
  <2>1. IsLast(n + 1, NftCalls(more, f))
    <3>1. \A k \in NftCalls(more, f) : k \in 1..n \/ k = n + 1
      BY <1>2, <1>3, <1>5
    <3>2. n + 1 \in NftCalls(more, f)
      BY <1>2, <1>5
    <3> QED
      BY <1>1, <3>1, <3>2 DEF IsLast
  <2>2. n + 1 \in DOMAIN more
    BY <1>1
  <2>3. NftOk(more, f)
    BY <1>1, <1>5, <2>1, <2>2 DEF NftOk
  <2> QED
    BY <2>3 DEF more
<1> QED
  BY <1>4, <1>5

(* A list of NFTs for the calls so far and one more. *)
LEMMA NftListMore ==
    ASSUME NEW calls \in Seq(AddCall), NEW c \in AddCall, NEW list, NEW new,
           NftList(calls, list), new \in Seq(NftEntry),
           \A i \in DOMAIN list : /\ i \in DOMAIN new
                                  /\ new[i].token = list[i].token
                                  /\ new[i].serial = list[i].serial,
           \A i \in DOMAIN new : i \notin DOMAIN list =>
             /\ i = Len(list) + 1
             /\ new[i].token = c.token /\ new[i].serial = c.serial
             /\ \A j \in DOMAIN list :
                  ~ (list[j].token = c.token /\ list[j].serial = c.serial),
           c.op = "nft" =>
             \E i \in DOMAIN new : new[i].token = c.token
                                   /\ new[i].serial = c.serial,
           \A i \in DOMAIN new : NftOk(Append(calls, c), new[i])
    PROVE  NftList(Append(calls, c), new)
<1> DEFINE more == Append(calls, c)
           n == Len(calls)
<1>1. /\ n \in Nat /\ DOMAIN calls = 1..n /\ DOMAIN more = 1..(n + 1)
      /\ more[n + 1] = c /\ \A k \in 1..n : more[k] = calls[k]
  BY OneMore
<1>2. \A k : k \in 1..(n + 1) <=> k \in 1..n \/ k = n + 1
  BY <1>1
<1> HIDE DEF more, n
<1>3. ASSUME NEW i \in DOMAIN new, NEW j \in DOMAIN new,
             new[i].token = new[j].token, new[i].serial = new[j].serial
      PROVE  i = j
  <2>1. CASE i \in DOMAIN list /\ j \in DOMAIN list
    BY <1>3, <2>1 DEF NftList
  <2>2. CASE i \notin DOMAIN list /\ j \in DOMAIN list
    BY <1>3, <2>2
  <2>3. CASE i \in DOMAIN list /\ j \notin DOMAIN list
    BY <1>3, <2>3
  <2>4. CASE i \notin DOMAIN list /\ j \notin DOMAIN list
    BY <2>4
  <2> QED
    BY <2>1, <2>2, <2>3, <2>4
<1>4. ASSUME NEW m \in DOMAIN more, more[m].op = "nft"
      PROVE  \E i \in DOMAIN new : new[i].token = more[m].token
                                   /\ new[i].serial = more[m].serial
  <2>1. CASE m \in 1..n
    <3>1. PICK i \in DOMAIN list : list[i].token = calls[m].token
                                   /\ list[i].serial = calls[m].serial
      BY <1>1, <1>4, <2>1 DEF NftList
    <3> QED
      BY <1>1, <2>1, <3>1
  <2>2. CASE m = n + 1
    BY <1>1, <1>4, <2>2
  <2> QED
    BY <1>1, <1>2, <2>1, <2>2
<1>5. NftList(more, new)
  BY <1>3, <1>4 DEF NftList, more
<1> QED
  BY <1>5 DEF more

(* What a list of NFTs that is right is made of. *)
LEMMA NftListTyped ==
    ASSUME NEW calls, NEW list, NftList(calls, list)
    PROVE  /\ list \in Seq(NftEntry) /\ Len(list) \in Nat
           /\ DOMAIN list = 1..Len(list)
           /\ \A i \in DOMAIN list :
                list[i] \in NftEntry /\ NftOk(calls, list[i])
<1>1. list \in Seq(NftEntry) /\ \A i \in DOMAIN list : NftOk(calls, list[i])
  BY DEF NftList
<1>2. \A i \in DOMAIN list : list[i] \in NftEntry
  BY <1>1
<1> QED
  BY <1>1, <1>2

(* Other parties, of an NFT. *)
Between(f, e, x, y) == f = [e EXCEPT !.sender = x, !.receiver = y]

(* Only the parties change. *)
LEMMA NftEntryChanged ==
    ASSUME NEW e \in NftEntry, NEW x \in Int, NEW y \in Int,
           NEW f, Between(f, e, x, y)
    PROVE  /\ f \in NftEntry /\ f.token = e.token /\ f.serial = e.serial
           /\ f.sender = x /\ f.receiver = y
<1>1. f.token = e.token /\ f.serial = e.serial
  BY DEF NftEntry, Between
<1>2. f.sender = x /\ f.receiver = y
  BY DEF NftEntry, Between
<1>3. f \in NftEntry
  BY DEF NftEntry, Between
<1> QED
  BY <1>1, <1>2, <1>3

(* _addNftTransfer() keeps the list right. *)
LEMMA AddNftRight ==
    ASSUME NEW calls \in Seq(AddCall), NEW c \in AddCall, NEW list,
           NftList(calls, list)
    PROVE  NftList(Append(calls, c),
                   IF c.op = "nft" THEN AddNftTransfer(list, c) ELSE list)
<1>1. /\ list \in Seq(NftEntry) /\ Len(list) \in Nat
      /\ DOMAIN list = 1..Len(list)
      /\ \A i \in DOMAIN list : list[i] \in NftEntry /\ NftOk(calls, list[i])
  BY NftListTyped
<1>2. ASSUME NEW i \in DOMAIN list,
             ~ (c.op = "nft" /\ list[i].token = c.token
                /\ list[i].serial = c.serial)
      PROVE  NftOk(Append(calls, c), list[i])
  BY <1>1, <1>2, NftOkMore
<1>3. CASE c.op # "nft"
  <2>1. \A i \in DOMAIN list : NftOk(Append(calls, c), list[i])
    BY <1>2, <1>3
  <2>2. NftList(Append(calls, c), list)
    BY <1>1, <1>3, <2>1, NftListMore
  <2> QED
    BY <1>3, <2>2
<1>4. CASE c.op = "nft"
  <2> DEFINE at == Where(list, LAMBDA t : t.token = c.token
                                          /\ t.serial = c.serial)
             new == AddNftTransfer(list, c)
  <2>1. /\ at = {i \in DOMAIN list :
                   list[i].token = c.token /\ list[i].serial = c.serial}
        /\ c.token \in Int /\ c.serial \in Int /\ c.sender \in Int
        /\ c.receiver \in Int /\ c.approved \in BOOLEAN
    BY <1>4, CallFields DEF Where
  <2>2. CASE at = {}
    <3> DEFINE f == [token |-> c.token, serial |-> c.serial,
                     sender |-> c.sender, receiver |-> c.receiver,
                     approved |-> c.approved]
    <3>1. new = Append(list, f) /\ f \in NftEntry
      BY <2>1, <2>2 DEF AddNftTransfer, NftEntry
    <3>2. f.token = c.token /\ f.serial = c.serial /\ f.sender = c.sender
          /\ f.receiver = c.receiver
      OBVIOUS
    <3> HIDE DEF f, new, at
    <3>3. /\ new \in Seq(NftEntry)
          /\ DOMAIN new = 1..(Len(list) + 1)
          /\ new[Len(list) + 1] = f
          /\ \A i \in 1..Len(list) : new[i] = list[i]
      BY <1>1, <3>1, OneMore
    <3>4. \A i : i \in 1..(Len(list) + 1) <=>
                   i \in 1..Len(list) \/ i = Len(list) + 1
      BY <1>1
    <3>5. \A i \in DOMAIN list :
            ~ (list[i].token = c.token /\ list[i].serial = c.serial)
      BY <2>1, <2>2
    <3>6. NftOk(Append(calls, c), f)
      BY <1>4, <3>2, NftOkMore
    <3>7. \A i \in DOMAIN new : NftOk(Append(calls, c), new[i])
      BY <1>1, <1>2, <3>3, <3>4, <3>5, <3>6
    <3>8. NftList(Append(calls, c), new)
      BY <1>1, <3>2, <3>3, <3>4, <3>5, <3>7, NftListMore
    <3> QED
      BY <1>4, <3>8 DEF new
  <2>3. CASE at # {}
    <3> DEFINE h == Min(at)
               f == [list[h] EXCEPT !.sender = c.sender,
                                    !.receiver = c.receiver]
    <3>1. h \in at
      <4> HIDE DEF at
      <4>1. at \subseteq Nat
        BY <1>1, <2>1
      <4> QED
        BY <2>3, <4>1, MinIn
    <3>2. h \in DOMAIN list /\ list[h].token = c.token
          /\ list[h].serial = c.serial /\ list[h] \in NftEntry
      BY <1>1, <2>1, <3>1
    <3>3. new = [list EXCEPT ![h] = f]
      BY <1>1, <2>3, <3>2 DEF AddNftTransfer, NftEntry
    <3>4. Between(f, list[h], c.sender, c.receiver)
      BY DEF Between
    <3> HIDE DEF h, at, new, f
    <3>5. /\ f \in NftEntry /\ f.token = list[h].token
          /\ f.serial = list[h].serial
          /\ f.sender = c.sender /\ f.receiver = c.receiver
      BY <2>1, <3>2, <3>4, NftEntryChanged
    <3>6. NftOk(Append(calls, c), f)
      BY <1>4, <3>2, <3>5, NftOkMore
    <3>7. /\ new \in Seq(NftEntry) /\ DOMAIN new = DOMAIN list
          /\ new[h] = f /\ \A i \in DOMAIN list : i # h => new[i] = list[i]
      BY <1>1, <3>2, <3>3, <3>5
    <3>8. \A i \in DOMAIN list : i # h =>
            ~ (list[i].token = c.token /\ list[i].serial = c.serial)
      BY <3>2 DEF NftList
    <3>9. \A i \in DOMAIN new : NftOk(Append(calls, c), new[i])
      BY <1>2, <3>6, <3>7, <3>8
    <3>10. /\ \A i \in DOMAIN list : /\ i \in DOMAIN new
                                     /\ new[i].token = list[i].token
                                     /\ new[i].serial = list[i].serial
           /\ \A i \in DOMAIN new : i \in DOMAIN list
           /\ \E i \in DOMAIN new : new[i].token = c.token
                                    /\ new[i].serial = c.serial
      BY <3>2, <3>5, <3>7
    <3>11. NftList(Append(calls, c), new)
      BY <3>7, <3>9, <3>10, NftListMore
    <3> QED
      BY <1>4, <3>11 DEF new
  <2> QED
    BY <2>2, <2>3
<1> QED
  BY <1>3, <1>4

(* ---- Approvals and sorting *)

(* The entries of a list in another arrangement. *)
Rearranged(list, s) ==
  /\ DOMAIN s = DOMAIN list
  /\ \E p \in [DOMAIN list -> DOMAIN list] :
       /\ \A k \in DOMAIN list : s[k] = list[p[k]]
       /\ \A w \in DOMAIN list : \E v \in DOMAIN list : p[v] = w
       /\ \A k, l \in DOMAIN list : p[k] = p[l] => k = l

(* The fields that are compared, and the orders. *)
LEMMA EntryFields ==
    ASSUME NEW e
    PROVE  /\ e \in U2UEntry => e.account \in Int /\ e.amount \in Int
           /\ e \in TokenEntry =>
                e.token \in Int /\ e.account \in Int /\ e.amount \in Int
           /\ e \in NftEntry => /\ e.token \in Int /\ e.serial \in Int
                               /\ e.sender \in Int /\ e.receiver \in Int
BY DEF U2UEntry, TokenEntry, NftEntry

(* No entry comes before itself. *)
LEMMA OrderIrreflexive ==
    ASSUME NEW a
    PROVE  /\ a.account \in Int => ~ AccountOrder(a, a)
           /\ a.token \in Int /\ a.account \in Int => ~ TokenOrder(a, a)
           /\ a.sender \in Int /\ a.receiver \in Int /\ a.serial \in Int =>
                ~ NftOrder(a, a)
BY DEF AccountOrder, TokenOrder, NftOrder

(* The order of fungible transfers tells tokens and accounts apart. *)
LEMMA TokenOrderFacts ==
    ASSUME NEW a, NEW b, a.token \in Int, a.account \in Int,
           b.token \in Int, b.account \in Int
    PROVE  /\ ~ (TokenOrder(a, b) /\ TokenOrder(b, a))
           /\ \/ TokenOrder(a, b) \/ TokenOrder(b, a)
              \/ a.token = b.token /\ a.account = b.account
BY DEF TokenOrder

(* The order of NFTs tells parties and serial numbers apart, not tokens. *)
LEMMA NftOrderFacts ==
    ASSUME NEW a, NEW b,
           a.sender \in Int, a.receiver \in Int, a.serial \in Int,
           b.sender \in Int, b.receiver \in Int, b.serial \in Int
    PROVE  /\ ~ (NftOrder(a, b) /\ NftOrder(b, a))
           /\ \/ NftOrder(a, b) \/ NftOrder(b, a)
              \/ /\ a.sender = b.sender /\ a.receiver = b.receiver
                 /\ a.serial = b.serial
BY DEF NftOrder

(* What a stable sort gives, for an order that is irreflexive on the list. *)
LEMMA SortU2URearranges ==
    ASSUME NEW list \in Seq(U2UEntry), NEW s \in Sorts(list, AccountOrder)
    PROVE  /\ s \in Seq(U2UEntry) /\ Rearranged(list, s)
           /\ \A k, l \in DOMAIN list : k < l =>
                AccountOrder(s[k], s[l]) \/ ~ AccountOrder(s[l], s[k])
<1> DEFINE n == Len(list)
<1>1. n \in Nat /\ DOMAIN list = 1..n /\ \A k \in 1..n : list[k] \in U2UEntry
  OBVIOUS
<1>2. PICK p : /\ p \in [1..n -> 1..n]
               /\ \A w \in 1..n : \E v \in 1..n : p[v] = w
               /\ \A k, l \in DOMAIN list : k < l =>
                    \/ AccountOrder(list[p[k]], list[p[l]])
                    \/ ~AccountOrder(list[p[l]], list[p[k]]) /\ p[k] < p[l]
               /\ s = [k \in DOMAIN list |-> list[p[k]]]
  BY DEF Sorts, Arrangements
<1>3. \A k \in 1..n : list[p[k]] \in U2UEntry /\ p[k] \in 1..n
  BY <1>1, <1>2
<1>4. \A k \in 1..n : ~ AccountOrder(list[p[k]], list[p[k]])
  BY <1>3, EntryFields, OrderIrreflexive
<1> HIDE DEF n
<1>5. ASSUME NEW k \in 1..n, NEW l \in 1..n, k < l, p[k] = p[l]
      PROVE  FALSE
  <2>1. \/ AccountOrder(list[p[k]], list[p[k]])
        \/ p[k] < p[k]
    BY <1>1, <1>2, <1>5
  <2> QED
    BY <1>3, <1>4, <2>1
<1>6. \A k, l \in 1..n : p[k] = p[l] => k = l
  BY <1>1, <1>5
<1>7. Rearranged(list, s)
  BY <1>1, <1>2, <1>6 DEF Rearranged
<1>8. s \in [1..n -> U2UEntry]
  BY <1>1, <1>2, <1>3
<1>9. s \in Seq(U2UEntry)
  BY <1>1, <1>8
<1> QED
  BY <1>1, <1>2, <1>7, <1>9

(* The same for fungible transfers. *)
LEMMA SortTokensRearranges ==
    ASSUME NEW list \in Seq(TokenEntry), NEW s \in Sorts(list, TokenOrder)
    PROVE  /\ s \in Seq(TokenEntry) /\ Rearranged(list, s)
           /\ \A k, l \in DOMAIN list : k < l =>
                TokenOrder(s[k], s[l]) \/ ~ TokenOrder(s[l], s[k])
<1> DEFINE n == Len(list)
<1>1. n \in Nat /\ DOMAIN list = 1..n /\ \A k \in 1..n : list[k] \in TokenEntry
  OBVIOUS
<1>2. PICK p : /\ p \in [1..n -> 1..n]
               /\ \A w \in 1..n : \E v \in 1..n : p[v] = w
               /\ \A k, l \in DOMAIN list : k < l =>
                    \/ TokenOrder(list[p[k]], list[p[l]])
                    \/ ~TokenOrder(list[p[l]], list[p[k]]) /\ p[k] < p[l]
               /\ s = [k \in DOMAIN list |-> list[p[k]]]
  BY DEF Sorts, Arrangements
<1>3. \A k \in 1..n : list[p[k]] \in TokenEntry /\ p[k] \in 1..n
  BY <1>1, <1>2
<1>4. \A k \in 1..n : ~ TokenOrder(list[p[k]], list[p[k]])
  BY <1>3, EntryFields, OrderIrreflexive
<1> HIDE DEF n
<1>5. ASSUME NEW k \in 1..n, NEW l \in 1..n, k < l, p[k] = p[l]
      PROVE  FALSE
  <2>1. \/ TokenOrder(list[p[k]], list[p[k]])
        \/ p[k] < p[k]
    BY <1>1, <1>2, <1>5
  <2> QED
    BY <1>3, <1>4, <2>1
<1>6. \A k, l \in 1..n : p[k] = p[l] => k = l
  BY <1>1, <1>5
<1>7. Rearranged(list, s)
  BY <1>1, <1>2, <1>6 DEF Rearranged
<1>8. s \in [1..n -> TokenEntry]
  BY <1>1, <1>2, <1>3
<1>9. s \in Seq(TokenEntry)
  BY <1>1, <1>8
<1> QED
  BY <1>1, <1>2, <1>7, <1>9

(* The same for NFTs. *)
LEMMA SortNftsRearranges ==
    ASSUME NEW list \in Seq(NftEntry), NEW s \in Sorts(list, NftOrder)
    PROVE  /\ s \in Seq(NftEntry) /\ Rearranged(list, s)
           /\ \A k, l \in DOMAIN list : k < l =>
                NftOrder(s[k], s[l]) \/ ~ NftOrder(s[l], s[k])
<1> DEFINE n == Len(list)
<1>1. n \in Nat /\ DOMAIN list = 1..n /\ \A k \in 1..n : list[k] \in NftEntry
  OBVIOUS
<1>2. PICK p : /\ p \in [1..n -> 1..n]
               /\ \A w \in 1..n : \E v \in 1..n : p[v] = w
               /\ \A k, l \in DOMAIN list : k < l =>
                    \/ NftOrder(list[p[k]], list[p[l]])
                    \/ ~NftOrder(list[p[l]], list[p[k]]) /\ p[k] < p[l]
               /\ s = [k \in DOMAIN list |-> list[p[k]]]
  BY DEF Sorts, Arrangements
<1>3. \A k \in 1..n : list[p[k]] \in NftEntry /\ p[k] \in 1..n
  BY <1>1, <1>2
<1>4. \A k \in 1..n : ~ NftOrder(list[p[k]], list[p[k]])
  BY <1>3, EntryFields, OrderIrreflexive
<1> HIDE DEF n
<1>5. ASSUME NEW k \in 1..n, NEW l \in 1..n, k < l, p[k] = p[l]
      PROVE  FALSE
  <2>1. \/ NftOrder(list[p[k]], list[p[k]])
        \/ p[k] < p[k]
    BY <1>1, <1>2, <1>5
  <2> QED
    BY <1>3, <1>4, <2>1
<1>6. \A k, l \in 1..n : p[k] = p[l] => k = l
  BY <1>1, <1>5
<1>7. Rearranged(list, s)
  BY <1>1, <1>2, <1>6 DEF Rearranged
<1>8. s \in [1..n -> NftEntry]
  BY <1>1, <1>2, <1>3
<1>9. s \in Seq(NftEntry)
  BY <1>1, <1>8
<1> QED
  BY <1>1, <1>2, <1>7, <1>9

(* The sorted lists. *)
U2USorted(s) == \A k, l \in DOMAIN s : k < l => s[k].account < s[l].account
TokensSorted(s) == \A k, l \in DOMAIN s : k < l => TokenOrder(s[k], s[l])
NftsSorted(s) == \A k, l \in DOMAIN s : k < l => ~ NftOrder(s[l], s[k])

(* Sorting keeps the list right; no two accounts tie. *)
LEMMA SortedU2URight ==
    ASSUME NEW calls, NEW list, U2UList(calls, list),
           NEW s \in Sorts(list, AccountOrder)
    PROVE  U2UList(calls, s) /\ U2USorted(s) /\ Rearranged(list, s)
<1>1. /\ list \in Seq(U2UEntry)
      /\ \A i, j \in DOMAIN list : list[i].account = list[j].account => i = j
      /\ \A i \in DOMAIN list : U2UOk(calls, list[i])
      /\ \A m \in DOMAIN calls : calls[m].op = "u2u" =>
           \E i \in DOMAIN list : list[i].account = calls[m].account
  BY DEF U2UList
<1>2. /\ s \in Seq(U2UEntry) /\ Rearranged(list, s)
      /\ \A k, l \in DOMAIN list : k < l =>
           AccountOrder(s[k], s[l]) \/ ~ AccountOrder(s[l], s[k])
  BY <1>1, SortU2URearranges
<1>3. DOMAIN s = DOMAIN list
  BY <1>2 DEF Rearranged
<1>4. PICK p \in [DOMAIN list -> DOMAIN list] :
        /\ \A k \in DOMAIN list : s[k] = list[p[k]]
        /\ \A w \in DOMAIN list : \E v \in DOMAIN list : p[v] = w
        /\ \A k, l \in DOMAIN list : p[k] = p[l] => k = l
  BY <1>2 DEF Rearranged
<1>5. ASSUME NEW i \in DOMAIN s, NEW j \in DOMAIN s,
             s[i].account = s[j].account
      PROVE  i = j
  <2>1. /\ p[i] \in DOMAIN list /\ p[j] \in DOMAIN list
        /\ list[p[i]].account = list[p[j]].account
    BY <1>3, <1>4, <1>5
  <2>2. p[i] = p[j]
    BY <1>1, <2>1
  <2> QED
    BY <1>3, <1>4, <2>2
<1>6. \A i \in DOMAIN s : U2UOk(calls, s[i])
  BY <1>1, <1>3, <1>4
<1>7. ASSUME NEW m \in DOMAIN calls, calls[m].op = "u2u"
      PROVE  \E i \in DOMAIN s : s[i].account = calls[m].account
  <2>1. PICK w \in DOMAIN list : list[w].account = calls[m].account
    BY <1>1, <1>7
  <2>2. PICK v \in DOMAIN list : p[v] = w
    BY <1>4
  <2> QED
    BY <1>3, <1>4, <2>1, <2>2
<1>8. \A i \in DOMAIN s : s[i].account \in Int
  <2>1. \A i \in DOMAIN s : s[i] \in U2UEntry
    BY <1>2
  <2> QED
    BY <2>1 DEF U2UEntry
<1>9. U2USorted(s)
  <2>1. DOMAIN list = 1..Len(list) /\ Len(list) \in Nat
    BY <1>1
  <2>2. SUFFICES ASSUME NEW k \in DOMAIN s, NEW l \in DOMAIN s, k < l
                 PROVE  s[k].account < s[l].account
    BY DEF U2USorted
  <2>3. k # l /\ k \in Int /\ l \in Int
    BY <1>3, <2>1, <2>2
  <2>4. s[k].account # s[l].account
    BY <1>5, <2>3
  <2>5. s[k].account < s[l].account \/ ~ (s[l].account < s[k].account)
    BY <1>2, <1>3, <2>2 DEF AccountOrder
  <2> QED
    BY <1>8, <2>4, <2>5
<1> QED
  BY <1>2, <1>5, <1>6, <1>7, <1>9 DEF U2UList

(* The same for fungible transfers. *)
LEMMA SortedTokensRight ==
    ASSUME NEW calls, NEW list, TokenList(calls, list),
           NEW s \in Sorts(list, TokenOrder)
    PROVE  TokenList(calls, s) /\ TokensSorted(s) /\ Rearranged(list, s)
<1>1. /\ list \in Seq(TokenEntry)
      /\ \A i, j \in DOMAIN list :
           list[i].token = list[j].token /\ list[i].account = list[j].account
             => i = j
      /\ \A i \in DOMAIN list : TokenOk(calls, list[i])
      /\ \A m \in DOMAIN calls : calls[m].op \in PaidOps =>
           \E i \in DOMAIN list : /\ list[i].token = calls[m].token
                                  /\ list[i].account = calls[m].account
  BY DEF TokenList
<1>2. /\ s \in Seq(TokenEntry) /\ Rearranged(list, s)
      /\ \A k, l \in DOMAIN list : k < l =>
           TokenOrder(s[k], s[l]) \/ ~ TokenOrder(s[l], s[k])
  BY <1>1, SortTokensRearranges
<1>3. DOMAIN s = DOMAIN list
  BY <1>2 DEF Rearranged
<1>4. PICK p \in [DOMAIN list -> DOMAIN list] :
        /\ \A k \in DOMAIN list : s[k] = list[p[k]]
        /\ \A w \in DOMAIN list : \E v \in DOMAIN list : p[v] = w
        /\ \A k, l \in DOMAIN list : p[k] = p[l] => k = l
  BY <1>2 DEF Rearranged
<1>5. ASSUME NEW i \in DOMAIN s, NEW j \in DOMAIN s,
             s[i].token = s[j].token, s[i].account = s[j].account
      PROVE  i = j
  <2>1. /\ p[i] \in DOMAIN list /\ p[j] \in DOMAIN list
        /\ list[p[i]].token = list[p[j]].token
        /\ list[p[i]].account = list[p[j]].account
    BY <1>3, <1>4, <1>5
  <2>2. p[i] = p[j]
    BY <1>1, <2>1
  <2> QED
    BY <1>3, <1>4, <2>2
<1>6. \A i \in DOMAIN s : TokenOk(calls, s[i])
  BY <1>1, <1>3, <1>4
<1>7. ASSUME NEW m \in DOMAIN calls, calls[m].op \in PaidOps
      PROVE  \E i \in DOMAIN s : /\ s[i].token = calls[m].token
                                 /\ s[i].account = calls[m].account
  <2>1. PICK w \in DOMAIN list : /\ list[w].token = calls[m].token
                                 /\ list[w].account = calls[m].account
    BY <1>1, <1>7
  <2>2. PICK v \in DOMAIN list : p[v] = w
    BY <1>4
  <2> QED
    BY <1>3, <1>4, <2>1, <2>2
<1>8. \A i \in DOMAIN s : s[i].account \in Int /\ s[i].token \in Int
  <2>1. \A i \in DOMAIN s : s[i] \in TokenEntry
    BY <1>2
  <2> QED
    BY <2>1 DEF TokenEntry
<1>9. TokensSorted(s)
  <2>1. DOMAIN list = 1..Len(list) /\ Len(list) \in Nat
    BY <1>1
  <2>2. SUFFICES ASSUME NEW k \in DOMAIN s, NEW l \in DOMAIN s, k < l
                 PROVE  TokenOrder(s[k], s[l])
    BY DEF TokensSorted
  <2>3. k # l /\ k \in Int /\ l \in Int
    BY <1>3, <2>1, <2>2
  <2>4. s[k].account # s[l].account \/ s[k].token # s[l].token
    BY <1>5, <2>3
  <2>5. TokenOrder(s[k], s[l]) \/ ~ TokenOrder(s[l], s[k])
    BY <1>2, <1>3, <2>2
  <2> QED
    BY <1>8, <2>4, <2>5, TokenOrderFacts
<1> QED
  BY <1>2, <1>5, <1>6, <1>7, <1>9 DEF TokenList

(* The same for NFTs, where some may tie. *)
LEMMA SortedNftsRight ==
    ASSUME NEW calls, NEW list, NftList(calls, list),
           NEW s \in Sorts(list, NftOrder)
    PROVE  NftList(calls, s) /\ NftsSorted(s) /\ Rearranged(list, s)
<1>1. /\ list \in Seq(NftEntry)
      /\ \A i, j \in DOMAIN list :
           list[i].token = list[j].token /\ list[i].serial = list[j].serial
             => i = j
      /\ \A i \in DOMAIN list : NftOk(calls, list[i])
      /\ \A m \in DOMAIN calls : calls[m].op = "nft" =>
           \E i \in DOMAIN list : /\ list[i].token = calls[m].token
                                  /\ list[i].serial = calls[m].serial
  BY DEF NftList
<1>2. /\ s \in Seq(NftEntry) /\ Rearranged(list, s)
      /\ \A k, l \in DOMAIN list : k < l =>
           NftOrder(s[k], s[l]) \/ ~ NftOrder(s[l], s[k])
  BY <1>1, SortNftsRearranges
<1>3. DOMAIN s = DOMAIN list
  BY <1>2 DEF Rearranged
<1>4. PICK p \in [DOMAIN list -> DOMAIN list] :
        /\ \A k \in DOMAIN list : s[k] = list[p[k]]
        /\ \A w \in DOMAIN list : \E v \in DOMAIN list : p[v] = w
        /\ \A k, l \in DOMAIN list : p[k] = p[l] => k = l
  BY <1>2 DEF Rearranged
<1>5. ASSUME NEW i \in DOMAIN s, NEW j \in DOMAIN s,
             s[i].token = s[j].token, s[i].serial = s[j].serial
      PROVE  i = j
  <2>1. /\ p[i] \in DOMAIN list /\ p[j] \in DOMAIN list
        /\ list[p[i]].token = list[p[j]].token
        /\ list[p[i]].serial = list[p[j]].serial
    BY <1>3, <1>4, <1>5
  <2>2. p[i] = p[j]
    BY <1>1, <2>1
  <2> QED
    BY <1>3, <1>4, <2>2
<1>6. \A i \in DOMAIN s : NftOk(calls, s[i])
  BY <1>1, <1>3, <1>4
<1>7. ASSUME NEW m \in DOMAIN calls, calls[m].op = "nft"
      PROVE  \E i \in DOMAIN s : /\ s[i].token = calls[m].token
                                 /\ s[i].serial = calls[m].serial
  <2>1. PICK w \in DOMAIN list : /\ list[w].token = calls[m].token
                                 /\ list[w].serial = calls[m].serial
    BY <1>1, <1>7
  <2>2. PICK v \in DOMAIN list : p[v] = w
    BY <1>4
  <2> QED
    BY <1>3, <1>4, <2>1, <2>2
<1>8. \A i \in DOMAIN s : s[i].sender \in Int /\ s[i].receiver \in Int
                          /\ s[i].serial \in Int
  <2>1. \A i \in DOMAIN s : s[i] \in NftEntry
    BY <1>2
  <2> QED
    BY <2>1 DEF NftEntry
<1>9. NftsSorted(s)
  <2>1. SUFFICES ASSUME NEW k \in DOMAIN s, NEW l \in DOMAIN s, k < l
                 PROVE  ~ NftOrder(s[l], s[k])
    BY DEF NftsSorted
  <2>2. NftOrder(s[k], s[l]) \/ ~ NftOrder(s[l], s[k])
    BY <1>2, <1>3, <2>1
  <2> QED
    BY <1>8, <2>2, NftOrderFacts
<1> QED
  BY <1>2, <1>5, <1>6, <1>7, <1>9 DEF NftList

(* Lists that differ in approvals. *)
SameU2U(list, new) ==
  /\ new \in Seq(U2UEntry) /\ DOMAIN new = DOMAIN list
  /\ \A i \in DOMAIN list : /\ new[i].account = list[i].account
                            /\ new[i].amount = list[i].amount
SameTokens(list, new) ==
  /\ new \in Seq(TokenEntry) /\ DOMAIN new = DOMAIN list
  /\ \A i \in DOMAIN list : /\ new[i].token = list[i].token
                            /\ new[i].account = list[i].account
                            /\ new[i].amount = list[i].amount
                            /\ new[i].decimals = list[i].decimals
SameNfts(list, new) ==
  /\ new \in Seq(NftEntry) /\ DOMAIN new = DOMAIN list
  /\ \A i \in DOMAIN list : /\ new[i].token = list[i].token
                            /\ new[i].serial = list[i].serial
                            /\ new[i].sender = list[i].sender
                            /\ new[i].receiver = list[i].receiver

(* Setting approvals changes approvals alone. *)
LEMMA MarkedU2USame ==
    ASSUME NEW list \in Seq(U2UEntry), NEW at
    PROVE  SameU2U(list, Marked(list, at, TRUE))
<1> DEFINE new == Marked(list, at, TRUE)
           n == Len(list)
<1>1. n \in Nat /\ DOMAIN list = 1..n /\ \A k \in 1..n : list[k] \in U2UEntry
  OBVIOUS
<1>2. new = [i \in 1..n |-> IF i \in at THEN [list[i] EXCEPT !.approved = TRUE]
                            ELSE list[i]]
  BY <1>1 DEF Marked
<1>3. \A e \in U2UEntry : /\ [e EXCEPT !.approved = TRUE] \in U2UEntry
                          /\ [e EXCEPT !.approved = TRUE].account = e.account
                          /\ [e EXCEPT !.approved = TRUE].amount = e.amount
  BY DEF U2UEntry
<1> HIDE DEF new, n
<1>4. \A i \in 1..n : /\ new[i] \in U2UEntry
                      /\ new[i].account = list[i].account
                      /\ new[i].amount = list[i].amount
  BY <1>1, <1>2, <1>3
<1>5. DOMAIN new = 1..n /\ new \in [1..n -> U2UEntry]
  BY <1>2, <1>4
<1>6. new \in Seq(U2UEntry)
  BY <1>1, <1>5
<1> QED
  BY <1>1, <1>4, <1>5, <1>6 DEF SameU2U, new

LEMMA MarkedTokensSame ==
    ASSUME NEW list \in Seq(TokenEntry), NEW at
    PROVE  SameTokens(list, Marked(list, at, TRUE))
<1> DEFINE new == Marked(list, at, TRUE)
           n == Len(list)
<1>1. n \in Nat /\ DOMAIN list = 1..n /\ \A k \in 1..n : list[k] \in TokenEntry
  OBVIOUS
<1>2. new = [i \in 1..n |-> IF i \in at THEN [list[i] EXCEPT !.approved = TRUE]
                            ELSE list[i]]
  BY <1>1 DEF Marked
<1>3. \A e \in TokenEntry : /\ [e EXCEPT !.approved = TRUE] \in TokenEntry
                            /\ [e EXCEPT !.approved = TRUE].token = e.token
                            /\ [e EXCEPT !.approved = TRUE].account = e.account
                            /\ [e EXCEPT !.approved = TRUE].amount = e.amount
                            /\ [e EXCEPT !.approved = TRUE].decimals = e.decimals
  BY DEF TokenEntry
<1> HIDE DEF new, n
<1>4. \A i \in 1..n : /\ new[i] \in TokenEntry
                      /\ new[i].token = list[i].token
                      /\ new[i].account = list[i].account
                      /\ new[i].amount = list[i].amount
                      /\ new[i].decimals = list[i].decimals
  BY <1>1, <1>2, <1>3
<1>5. DOMAIN new = 1..n /\ new \in [1..n -> TokenEntry]
  BY <1>2, <1>4
<1>6. new \in Seq(TokenEntry)
  BY <1>1, <1>5
<1> QED
  BY <1>1, <1>4, <1>5, <1>6 DEF SameTokens, new

LEMMA MarkedNftsSame ==
    ASSUME NEW list \in Seq(NftEntry), NEW at
    PROVE  SameNfts(list, Marked(list, at, TRUE))
<1> DEFINE new == Marked(list, at, TRUE)
           n == Len(list)
<1>1. n \in Nat /\ DOMAIN list = 1..n /\ \A k \in 1..n : list[k] \in NftEntry
  OBVIOUS
<1>2. new = [i \in 1..n |-> IF i \in at THEN [list[i] EXCEPT !.approved = TRUE]
                            ELSE list[i]]
  BY <1>1 DEF Marked
<1>3. \A e \in NftEntry : /\ [e EXCEPT !.approved = TRUE] \in NftEntry
                          /\ [e EXCEPT !.approved = TRUE].token = e.token
                          /\ [e EXCEPT !.approved = TRUE].serial = e.serial
                          /\ [e EXCEPT !.approved = TRUE].sender = e.sender
                          /\ [e EXCEPT !.approved = TRUE].receiver = e.receiver
  BY DEF NftEntry
<1> HIDE DEF new, n
<1>4. \A i \in 1..n : /\ new[i] \in NftEntry
                      /\ new[i].token = list[i].token
                      /\ new[i].serial = list[i].serial
                      /\ new[i].sender = list[i].sender
                      /\ new[i].receiver = list[i].receiver
  BY <1>1, <1>2, <1>3
<1>5. DOMAIN new = 1..n /\ new \in [1..n -> NftEntry]
  BY <1>2, <1>4
<1>6. new \in Seq(NftEntry)
  BY <1>1, <1>5
<1> QED
  BY <1>1, <1>4, <1>5, <1>6 DEF SameNfts, new

(* Lists that differ in approvals are right for the same calls. *)
LEMMA SameU2URight ==
    ASSUME NEW calls, NEW list, NEW new, U2UList(calls, list),
           SameU2U(list, new)
    PROVE  U2UList(calls, new)
<1>1. ASSUME NEW i \in DOMAIN list
      PROVE  U2UOk(calls, new[i])
  <2>1. /\ U2UOk(calls, list[i]) /\ new[i].account = list[i].account
        /\ new[i].amount = list[i].amount
    BY DEF U2UList, SameU2U
  <2>2. U2UCalls(calls, new[i]) = U2UCalls(calls, list[i])
    BY <2>1 DEF U2UCalls
  <2> QED
    BY <2>1, <2>2 DEF U2UOk
<1> QED
  BY <1>1 DEF U2UList, SameU2U

LEMMA SameTokensRight ==
    ASSUME NEW calls, NEW list, NEW new, TokenList(calls, list),
           SameTokens(list, new)
    PROVE  TokenList(calls, new)
<1>1. ASSUME NEW i \in DOMAIN list
      PROVE  TokenOk(calls, new[i])
  <2>1. /\ TokenOk(calls, list[i]) /\ new[i].token = list[i].token
        /\ new[i].account = list[i].account
        /\ new[i].amount = list[i].amount
        /\ new[i].decimals = list[i].decimals
    BY DEF TokenList, SameTokens
  <2>2. TokenCalls(calls, new[i]) = TokenCalls(calls, list[i])
    BY <2>1 DEF TokenCalls
  <2> QED
    BY <2>1, <2>2 DEF TokenOk
<1> QED
  BY <1>1 DEF TokenList, SameTokens

LEMMA SameNftsRight ==
    ASSUME NEW calls, NEW list, NEW new, NftList(calls, list),
           SameNfts(list, new)
    PROVE  NftList(calls, new)
<1>1. ASSUME NEW i \in DOMAIN list
      PROVE  NftOk(calls, new[i])
  <2>1. /\ NftOk(calls, list[i]) /\ new[i].token = list[i].token
        /\ new[i].serial = list[i].serial
        /\ new[i].sender = list[i].sender
        /\ new[i].receiver = list[i].receiver
    BY DEF NftList, SameNfts
  <2>2. NftCalls(calls, new[i]) = NftCalls(calls, list[i])
    BY <2>1 DEF NftCalls
  <2> QED
    BY <2>1, <2>2 DEF NftOk
<1> QED
  BY <1>1 DEF NftList, SameNfts

(* ---- The groups *)

TokenProto == [account : Int, amount : Int, approval : BOOLEAN]
NftProto == [sender : Int, receiver : Int, serial : Int, approval : BOOLEAN]
TokenProtos == Seq(TokenProto)
NftProtos == Seq(NftProto)
Group == [token : Int, decimals : Decimals, transfers : TokenProtos,
          nfts : NftProtos]

(* What one step does to the groups: they stay, and one is added or not; a  *)
(* transfer is added to one of them, or none is.                            *)
TransfersAt(g, k) == IF k \in DOMAIN g THEN g[k].transfers ELSE <<>>
NftsAt(g, k) == IF k \in DOMAIN g THEN g[k].nfts ELSE <<>>
Stays(g, h) ==
  /\ h \in Seq(Group) /\ Len(g) <= Len(h)
  /\ \A k \in DOMAIN g : /\ k \in DOMAIN h /\ h[k].token = g[k].token
                         /\ h[k].decimals = g[k].decimals
TokensKept(g, h) == \A k \in DOMAIN h : h[k].transfers = TransfersAt(g, k)
TokenAdded(g, h, a, t) ==
  /\ a \in DOMAIN h /\ h[a].token = t.token
  /\ h[a].transfers = Append(TransfersAt(g, a), TokenToProtobuf(t))
  /\ \A k \in DOMAIN h : k # a => h[k].transfers = TransfersAt(g, k)
NftsKept(g, h) == \A k \in DOMAIN h : h[k].nfts = NftsAt(g, k)
NftAdded(g, h, b, n) ==
  /\ b \in DOMAIN h /\ h[b].token = n.token
  /\ h[b].nfts = Append(NftsAt(g, b), NftToProtobuf(n))
  /\ \A k \in DOMAIN h : k # b => h[k].nfts = NftsAt(g, k)

(* What groups are made of. *)
LEMMA GroupFields ==
    ASSUME NEW g \in Seq(Group)
    PROVE  /\ Len(g) \in Nat /\ DOMAIN g = 1..Len(g)
           /\ \A k \in DOMAIN g :
                /\ g[k] \in Group /\ g[k].token \in Int
                /\ g[k].decimals \in Decimals
                /\ g[k].transfers \in TokenProtos /\ g[k].nfts \in NftProtos
<1>1. \A k \in DOMAIN g : g[k] \in Group
  OBVIOUS
<1>2. \A k \in DOMAIN g : /\ g[k].token \in Int
                          /\ g[k].decimals \in Decimals
                          /\ g[k].transfers \in TokenProtos
                          /\ g[k].nfts \in NftProtos
  BY <1>1 DEF Group
<1> QED
  BY <1>1, <1>2

(* What toProtobuf() of a transfer keeps. *)
LEMMA Protos ==
    ASSUME NEW e
    PROVE  /\ e \in TokenEntry => /\ TokenToProtobuf(e) \in TokenProto
                                  /\ TokenToProtobuf(e).account = e.account
                                  /\ TokenToProtobuf(e).amount = e.amount
           /\ e \in NftEntry => /\ NftToProtobuf(e) \in NftProto
                                /\ NftToProtobuf(e).sender = e.sender
                                /\ NftToProtobuf(e).receiver = e.receiver
                                /\ NftToProtobuf(e).serial = e.serial
<1>1. e \in TokenEntry => TokenToProtobuf(e) \in TokenProto
  BY DEF TokenEntry, TokenToProtobuf, TokenProto
<1>2. TokenToProtobuf(e).account = e.account /\ TokenToProtobuf(e).amount = e.amount
  BY DEF TokenToProtobuf
<1>3. e \in NftEntry => NftToProtobuf(e) \in NftProto
  BY DEF NftEntry, NftToProtobuf, NftProto
<1>4. /\ NftToProtobuf(e).sender = e.sender
      /\ NftToProtobuf(e).receiver = e.receiver
      /\ NftToProtobuf(e).serial = e.serial
  BY DEF NftToProtobuf
<1> QED
  BY <1>1, <1>2, <1>3, <1>4

(* A fungible transfer joins a group. *)
LEMMA WithTokenEffect ==
    ASSUME NEW g \in Seq(Group), NEW a \in DOMAIN g, NEW t \in TokenEntry,
           g[a].token = t.token
    PROVE  LET h == WithToken(g, a, t) IN
           /\ Stays(g, h) /\ Len(h) = Len(g)
           /\ TokenAdded(g, h, a, t) /\ NftsKept(g, h)
<1> DEFINE h == WithToken(g, a, t)
           e == g[a]
           x == Append(e.transfers, TokenToProtobuf(t))
           f == [e EXCEPT !.transfers = x]
<1>1. /\ Len(g) \in Nat /\ DOMAIN g = 1..Len(g)
      /\ e \in Group /\ e.transfers \in TokenProtos
  BY GroupFields
<1>2. x \in TokenProtos
  <2>1. TokenToProtobuf(t) \in TokenProto
    BY Protos
  <2> HIDE DEF e
  <2> QED
    BY <1>1, <2>1 DEF TokenProtos
<1>3. h = [g EXCEPT ![a] = f]
  BY <1>1 DEF WithToken, Group
<1> HIDE DEF e, x, h
<1>4. /\ f \in Group /\ f.token = e.token /\ f.decimals = e.decimals
      /\ f.transfers = x /\ f.nfts = e.nfts
  BY <1>1, <1>2 DEF Group
<1> HIDE DEF f
<1>5. /\ h \in Seq(Group) /\ Len(h) = Len(g) /\ DOMAIN h = DOMAIN g
      /\ h[a] = f /\ \A k \in DOMAIN g : k # a => h[k] = g[k]
  BY <1>3, <1>4
<1>6. Stays(g, h)
  BY <1>1, <1>4, <1>5 DEF Stays, e
<1>7. TokenAdded(g, h, a, t)
  BY <1>1, <1>4, <1>5 DEF TokenAdded, TransfersAt, e, x
<1>8. NftsKept(g, h)
  BY <1>1, <1>4, <1>5 DEF NftsKept, NftsAt, e
<1> QED
  BY <1>5, <1>6, <1>7, <1>8 DEF h

(* An NFT joins a group. *)
LEMMA WithNftEffect ==
    ASSUME NEW g \in Seq(Group), NEW a \in DOMAIN g, NEW n \in NftEntry,
           g[a].token = n.token
    PROVE  LET h == WithNft(g, a, n) IN
           /\ Stays(g, h) /\ Len(h) = Len(g)
           /\ NftAdded(g, h, a, n) /\ TokensKept(g, h)
<1> DEFINE h == WithNft(g, a, n)
           e == g[a]
           x == Append(e.nfts, NftToProtobuf(n))
           f == [e EXCEPT !.nfts = x]
<1>1. /\ Len(g) \in Nat /\ DOMAIN g = 1..Len(g)
      /\ e \in Group /\ e.nfts \in NftProtos
  BY GroupFields
<1>2. x \in NftProtos
  <2>1. NftToProtobuf(n) \in NftProto
    BY Protos
  <2> HIDE DEF e
  <2> QED
    BY <1>1, <2>1 DEF NftProtos
<1>3. h = [g EXCEPT ![a] = f]
  BY <1>1 DEF WithNft, Group
<1> HIDE DEF e, x, h
<1>4. /\ f \in Group /\ f.token = e.token /\ f.decimals = e.decimals
      /\ f.nfts = x /\ f.transfers = e.transfers
  BY <1>1, <1>2 DEF Group
<1> HIDE DEF f
<1>5. /\ h \in Seq(Group) /\ Len(h) = Len(g) /\ DOMAIN h = DOMAIN g
      /\ h[a] = f /\ \A k \in DOMAIN g : k # a => h[k] = g[k]
  BY <1>3, <1>4
<1>6. Stays(g, h)
  BY <1>1, <1>4, <1>5 DEF Stays, e
<1>7. NftAdded(g, h, a, n)
  BY <1>1, <1>4, <1>5 DEF NftAdded, NftsAt, e, x
<1>8. TokensKept(g, h)
  BY <1>1, <1>4, <1>5 DEF TokensKept, TransfersAt, e
<1> QED
  BY <1>5, <1>6, <1>7, <1>8 DEF h

(* A group more. *)
LEMMA OneGroupMore ==
    ASSUME NEW g \in Seq(Group), NEW f \in Group
    PROVE  LET h == Append(g, f) IN
           /\ Stays(g, h) /\ Len(h) = Len(g) + 1
           /\ Len(g) + 1 \in DOMAIN h /\ h[Len(g) + 1] = f
           /\ \A k \in DOMAIN h : k \in DOMAIN g \/ k = Len(g) + 1
           /\ Len(g) + 1 \notin DOMAIN g
           /\ \A k \in DOMAIN g : /\ h[k].transfers = TransfersAt(g, k)
                                  /\ h[k].nfts = NftsAt(g, k)
           /\ TransfersAt(g, Len(g) + 1) = <<>> /\ NftsAt(g, Len(g) + 1) = <<>>
<1> DEFINE h == Append(g, f)
           n == Len(g)
<1>1. /\ h \in Seq(Group) /\ n \in Nat /\ Len(h) = n + 1
      /\ DOMAIN g = 1..n /\ DOMAIN h = 1..(n + 1)
      /\ h[n + 1] = f /\ \A k \in 1..n : h[k] = g[k]
  BY OneMore
<1>2. \A k : k \in 1..(n + 1) <=> k \in 1..n \/ k = n + 1
  BY <1>1
<1>3. n + 1 \notin 1..n /\ n <= n + 1
  BY <1>1
<1> HIDE DEF h
<1>4. Stays(g, h)
  BY <1>1, <1>2, <1>3 DEF Stays
<1>5. /\ \A k \in DOMAIN g : /\ h[k].transfers = TransfersAt(g, k)
                             /\ h[k].nfts = NftsAt(g, k)
      /\ TransfersAt(g, n + 1) = <<>> /\ NftsAt(g, n + 1) = <<>>
  BY <1>1, <1>3 DEF TransfersAt, NftsAt
<1> QED
  BY <1>1, <1>2, <1>3, <1>4, <1>5 DEF h

(* A transfer of each kind makes a group. *)
LEMMA JointGroupEffect ==
    ASSUME NEW g \in Seq(Group), NEW t \in TokenEntry, NEW n \in NftEntry,
           t.token = n.token
    PROVE  LET h == Append(g, JointGroup(t, n)) IN
           /\ Stays(g, h) /\ Len(h) = Len(g) + 1
           /\ TokenAdded(g, h, Len(g) + 1, t) /\ NftAdded(g, h, Len(g) + 1, n)
           /\ h[Len(g) + 1].decimals = t.decimals
<1> DEFINE f == JointGroup(t, n)
           h == Append(g, f)
           x == TokenToProtobuf(t)
           y == NftToProtobuf(n)
<1>1. x \in TokenProto /\ y \in NftProto
  BY Protos
<1>2. <<x>> \in TokenProtos /\ <<y>> \in NftProtos
  BY <1>1 DEF TokenProtos, NftProtos
<1>3. f = [token |-> t.token, decimals |-> t.decimals, transfers |-> <<x>>,
           nfts |-> <<y>>]
  BY DEF JointGroup, TokenGroup
<1> HIDE DEF x, y
<1>4. /\ f \in Group /\ f.token = t.token /\ f.decimals = t.decimals
      /\ f.transfers = <<x>> /\ f.nfts = <<y>>
  BY <1>2, <1>3 DEF Group, TokenEntry
<1> HIDE DEF f
<1>5. Append(<<>>, x) = <<x>> /\ Append(<<>>, y) = <<y>>
  OBVIOUS
<1> HIDE DEF h
<1>6. /\ Stays(g, h) /\ Len(h) = Len(g) + 1
      /\ Len(g) + 1 \in DOMAIN h /\ h[Len(g) + 1] = f
      /\ \A k \in DOMAIN h : k \in DOMAIN g \/ k = Len(g) + 1
      /\ \A k \in DOMAIN g : /\ h[k].transfers = TransfersAt(g, k)
                             /\ h[k].nfts = NftsAt(g, k)
      /\ TransfersAt(g, Len(g) + 1) = <<>> /\ NftsAt(g, Len(g) + 1) = <<>>
  BY <1>4, OneGroupMore DEF h
<1>7. TokenAdded(g, h, Len(g) + 1, t)
  BY <1>4, <1>5, <1>6 DEF TokenAdded, x
<1>8. NftAdded(g, h, Len(g) + 1, n)
  BY <1>4, <1>5, <1>6 DEF NftAdded, y
<1> QED
  BY <1>4, <1>6, <1>7, <1>8 DEF h, f

(* A fungible transfer makes a group. *)
LEMMA TokenGroupEffect ==
    ASSUME NEW g \in Seq(Group), NEW t \in TokenEntry
    PROVE  LET h == Append(g, TokenGroup(t)) IN
           /\ Stays(g, h) /\ Len(h) = Len(g) + 1
           /\ TokenAdded(g, h, Len(g) + 1, t) /\ NftsKept(g, h)
           /\ h[Len(g) + 1].decimals = t.decimals
<1> DEFINE f == TokenGroup(t)
           h == Append(g, f)
           x == TokenToProtobuf(t)
<1>1. x \in TokenProto
  BY Protos
<1>2. <<x>> \in TokenProtos /\ <<>> \in NftProtos
  BY <1>1 DEF TokenProtos, NftProtos
<1>3. f = [token |-> t.token, decimals |-> t.decimals, transfers |-> <<x>>,
           nfts |-> <<>>]
  BY DEF TokenGroup
<1> HIDE DEF x
<1>4. /\ f \in Group /\ f.token = t.token /\ f.decimals = t.decimals
      /\ f.transfers = <<x>> /\ f.nfts = <<>>
  BY <1>2, <1>3 DEF Group, TokenEntry
<1> HIDE DEF f
<1>5. Append(<<>>, x) = <<x>>
  OBVIOUS
<1> HIDE DEF h
<1>6. /\ Stays(g, h) /\ Len(h) = Len(g) + 1
      /\ Len(g) + 1 \in DOMAIN h /\ h[Len(g) + 1] = f
      /\ \A k \in DOMAIN h : k \in DOMAIN g \/ k = Len(g) + 1
      /\ \A k \in DOMAIN g : /\ h[k].transfers = TransfersAt(g, k)
                             /\ h[k].nfts = NftsAt(g, k)
      /\ TransfersAt(g, Len(g) + 1) = <<>> /\ NftsAt(g, Len(g) + 1) = <<>>
  BY <1>4, OneGroupMore DEF h
<1>7. TokenAdded(g, h, Len(g) + 1, t)
  BY <1>4, <1>5, <1>6 DEF TokenAdded, x
<1>8. NftsKept(g, h)
  BY <1>4, <1>6 DEF NftsKept
<1> QED
  BY <1>4, <1>6, <1>7, <1>8 DEF h, f

(* An NFT makes a group. *)
LEMMA NftGroupEffect ==
    ASSUME NEW g \in Seq(Group), NEW n \in NftEntry
    PROVE  LET h == Append(g, NftGroup(n)) IN
           /\ Stays(g, h) /\ Len(h) = Len(g) + 1
           /\ NftAdded(g, h, Len(g) + 1, n) /\ TokensKept(g, h)
           /\ h[Len(g) + 1].decimals = Null
<1> DEFINE f == NftGroup(n)
           h == Append(g, f)
           y == NftToProtobuf(n)
<1>1. y \in NftProto
  BY Protos
<1>2. <<y>> \in NftProtos /\ <<>> \in TokenProtos /\ Null \in Decimals
  BY <1>1 DEF TokenProtos, NftProtos, Decimals
<1>3. f = [token |-> n.token, decimals |-> Null, transfers |-> <<>>,
           nfts |-> <<y>>]
  BY DEF NftGroup
<1> HIDE DEF y
<1>4. /\ f \in Group /\ f.token = n.token /\ f.decimals = Null
      /\ f.transfers = <<>> /\ f.nfts = <<y>>
  BY <1>2, <1>3 DEF Group, NftEntry
<1> HIDE DEF f
<1>5. Append(<<>>, y) = <<y>>
  OBVIOUS
<1> HIDE DEF h
<1>6. /\ Stays(g, h) /\ Len(h) = Len(g) + 1
      /\ Len(g) + 1 \in DOMAIN h /\ h[Len(g) + 1] = f
      /\ \A k \in DOMAIN h : k \in DOMAIN g \/ k = Len(g) + 1
      /\ \A k \in DOMAIN g : /\ h[k].transfers = TransfersAt(g, k)
                             /\ h[k].nfts = NftsAt(g, k)
      /\ TransfersAt(g, Len(g) + 1) = <<>> /\ NftsAt(g, Len(g) + 1) = <<>>
  BY <1>4, OneGroupMore DEF h
<1>7. NftAdded(g, h, Len(g) + 1, n)
  BY <1>4, <1>5, <1>6 DEF NftAdded, y
<1>8. TokensKept(g, h)
  BY <1>4, <1>6 DEF TokensKept
<1> QED
  BY <1>4, <1>6, <1>7, <1>8 DEF h, f

(* Where the next transfer of a token joins. *)
Joining(g, token, both, a) ==
  \/ /\ a = 0
     /\ \/ \A k \in DOMAIN g : g[k].token # token
        \/ both /\ Len(g) \in DOMAIN g /\ g[Len(g)].token # token
  \/ /\ a \in DOMAIN g /\ a # 0 /\ g[a].token = token
     /\ both => a = Len(g)

(* The group that a transfer joins is one of its token, and the last one    *)
(* while both lists last.                                                   *)
LEMMA JoinsFacts ==
    ASSUME NEW g \in Seq(Group), NEW token, NEW both \in BOOLEAN
    PROVE  Joining(g, token, both, Joins(g, token, both))
<1> DEFINE at == {k \in DOMAIN g : g[k].token = token}
           n == Len(g)
<1>1. n \in Nat /\ DOMAIN g = 1..n
  BY GroupFields
<1>2. Joins(g, token, both)
        = IF at = {} \/ (both /\ g[n].token # token) THEN 0 ELSE Max(at)
  BY DEF Joins, Where
<1>3. CASE at = {}
  BY <1>2, <1>3 DEF Joining
<1>4. CASE at # {}
  <2>1. n \in DOMAIN g
    BY <1>1, <1>4
  <2>2. Max(at) \in at /\ \A y \in at : y <= Max(at)
    <3>1. at \subseteq 1..n
      BY <1>1
    <3> HIDE DEF at, n
    <3> QED
      BY <1>1, <1>4, <3>1, MaxIn
  <2>3. CASE both /\ g[n].token # token
    BY <1>2, <2>1, <2>3 DEF Joining
  <2>4. CASE ~ (both /\ g[n].token # token)
    <3>1. Joins(g, token, both) = Max(at)
      BY <1>2, <1>4, <2>4
    <3>2. Max(at) \in DOMAIN g /\ g[Max(at)].token = token
      BY <2>2
    <3>3. both => Max(at) = n
      <4>1. both => n \in at
        BY <2>1, <2>4
      <4>2. Max(at) \in 1..n
        BY <1>1, <3>2
      <4> HIDE DEF at
      <4> QED
        BY <1>1, <2>2, <4>1, <4>2
    <3>4. Max(at) # 0
      BY <1>1, <3>2
    <3> HIDE DEF at
    <3> QED
      BY <3>1, <3>2, <3>3, <3>4 DEF Joining
  <2> QED
    BY <2>3, <2>4
<1> QED
  BY <1>3, <1>4

(* The five kinds of steps of the loop. *)
Both(ts, ns, l) == l.i < Len(ts) /\ l.j < Len(ns)
NoGroup(g, token, both) ==
  \/ \A k \in DOMAIN g : g[k].token # token
  \/ both /\ Len(g) \in DOMAIN g /\ g[Len(g)].token # token
Taken(l, m, di, dj) ==
  m.i = l.i + di /\ m.j = l.j + dj /\ Stays(l.groups, m.groups)
TokenJoins(ts, ns, l, m) ==
  /\ l.i < Len(ts) /\ Taken(l, m, 1, 0) /\ Len(m.groups) = Len(l.groups)
  /\ NftsKept(l.groups, m.groups)
  /\ \E a \in DOMAIN l.groups :
       /\ l.groups[a].token = ts[l.i + 1].token
       /\ TokenAdded(l.groups, m.groups, a, ts[l.i + 1])
NftJoins(ts, ns, l, m) ==
  /\ l.j < Len(ns) /\ Taken(l, m, 0, 1) /\ Len(m.groups) = Len(l.groups)
  /\ TokensKept(l.groups, m.groups)
  /\ \E b \in DOMAIN l.groups :
       /\ l.groups[b].token = ns[l.j + 1].token
       /\ Both(ts, ns, l) => b = Len(l.groups)
       /\ NftAdded(l.groups, m.groups, b, ns[l.j + 1])
JointNew(ts, ns, l, m) ==
  /\ Both(ts, ns, l) /\ Taken(l, m, 1, 1)
  /\ Len(m.groups) = Len(l.groups) + 1
  /\ ts[l.i + 1].token = ns[l.j + 1].token
  /\ NoGroup(l.groups, ts[l.i + 1].token, TRUE)
  /\ TokenAdded(l.groups, m.groups, Len(m.groups), ts[l.i + 1])
  /\ NftAdded(l.groups, m.groups, Len(m.groups), ns[l.j + 1])
  /\ m.groups[Len(m.groups)].decimals = ts[l.i + 1].decimals
TokenNew(ts, ns, l, m) ==
  /\ l.i < Len(ts) /\ Taken(l, m, 1, 0)
  /\ Len(m.groups) = Len(l.groups) + 1
  /\ l.j < Len(ns) => ts[l.i + 1].token < ns[l.j + 1].token
  /\ NoGroup(l.groups, ts[l.i + 1].token, Both(ts, ns, l))
  /\ TokenAdded(l.groups, m.groups, Len(m.groups), ts[l.i + 1])
  /\ NftsKept(l.groups, m.groups)
  /\ m.groups[Len(m.groups)].decimals = ts[l.i + 1].decimals
NftNew(ts, ns, l, m) ==
  /\ l.j < Len(ns) /\ Taken(l, m, 0, 1)
  /\ Len(m.groups) = Len(l.groups) + 1
  /\ l.i < Len(ts) => /\ ns[l.j + 1].token < ts[l.i + 1].token
                      /\ NoGroup(l.groups, ts[l.i + 1].token, TRUE)
  /\ NoGroup(l.groups, ns[l.j + 1].token, Both(ts, ns, l))
  /\ NftAdded(l.groups, m.groups, Len(m.groups), ns[l.j + 1])
  /\ TokensKept(l.groups, m.groups)
  /\ m.groups[Len(m.groups)].decimals = Null

Ranges(ts, ns, l) ==
  l.i \in 0..Len(ts) /\ l.j \in 0..Len(ns) /\ l.groups \in Seq(Group)

(* A step is of one of the five kinds. *)
LEMMA StepEffect ==
    ASSUME NEW ts \in Seq(TokenEntry), NEW ns \in Seq(NftEntry), NEW l,
           Ranges(ts, ns, l), l.i < Len(ts) \/ l.j < Len(ns)
    PROVE  LET m == GroupStep(ts, ns, l) IN
           \/ TokenJoins(ts, ns, l, m) \/ NftJoins(ts, ns, l, m)
           \/ JointNew(ts, ns, l, m) \/ TokenNew(ts, ns, l, m)
           \/ NftNew(ts, ns, l, m)
<1> DEFINE g == l.groups
           i == l.i
           j == l.j
           t == ts[i + 1]
           n == ns[j + 1]
           both == i < Len(ts) /\ j < Len(ns)
           a == IF i < Len(ts) THEN Joins(g, t.token, both) ELSE 0
           b == IF j < Len(ns) THEN Joins(g, n.token, both) ELSE 0
           m == GroupStep(ts, ns, l)
           at(di, dj, h) == [i |-> i + di, j |-> j + dj, groups |-> h]
<1>1. /\ i \in 0..Len(ts) /\ j \in 0..Len(ns) /\ g \in Seq(Group)
      /\ Len(ts) \in Nat /\ Len(ns) \in Nat
  BY DEF Ranges
<1>2. /\ i < Len(ts) => t \in TokenEntry /\ t.token \in Int
      /\ j < Len(ns) => n \in NftEntry /\ n.token \in Int
  <2>1. i < Len(ts) => t \in TokenEntry
    BY <1>1
  <2>2. j < Len(ns) => n \in NftEntry
    BY <1>1
  <2> HIDE DEF t, n
  <2> QED
    BY <2>1, <2>2, EntryFields
<1>3. both \in BOOLEAN
  OBVIOUS
<1>4. /\ i < Len(ts) => Joining(g, t.token, both, a)
      /\ j < Len(ns) => Joining(g, n.token, both, b)
  <2> HIDE DEF t, n, both, g
  <2> QED
    BY <1>1, <1>3, JoinsFacts
<1>5. m = CASE i = Len(ts) /\ j = Len(ns) -> l
            [] a # 0 -> at(1, 0, WithToken(g, a, t))
            [] a = 0 /\ b # 0 -> at(0, 1, WithNft(g, b, n))
            [] a = 0 /\ b = 0 /\ both /\ t.token = n.token ->
                 at(1, 1, Append(g, JointGroup(t, n)))
            [] a = 0 /\ b = 0 /\ i < Len(ts) /\ (both => t.token < n.token) ->
                 at(1, 0, Append(g, TokenGroup(t)))
            [] OTHER -> at(0, 1, Append(g, NftGroup(n)))
  BY DEF GroupStep
<1>6. ~ (i = Len(ts) /\ j = Len(ns))
  BY <1>1
<1>7. \A di, dj, h : /\ at(di, dj, h).i = i + di /\ at(di, dj, h).j = j + dj
                     /\ at(di, dj, h).groups = h
  OBVIOUS
<1>8. both <=> Both(ts, ns, l)
  BY DEF Both
<1>9. a # 0 => i < Len(ts)
  OBVIOUS
<1>10. b # 0 => j < Len(ns)
  OBVIOUS
<1>11. (i < Len(ts) /\ a = 0) => NoGroup(g, t.token, both)
  <2> HIDE DEF a, t, g, both
  <2> QED
    BY <1>1, <1>4, GroupFields DEF Joining, NoGroup
<1>12. (j < Len(ns) /\ b = 0) => NoGroup(g, n.token, both)
  <2> HIDE DEF b, n, g, both
  <2> QED
    BY <1>1, <1>4, GroupFields DEF Joining, NoGroup
<1>13. CASE a # 0
  <2>1. m = at(1, 0, WithToken(g, a, t))
    <3> HIDE DEF at, m, a, b, t, n, both, g, i, j
    <3> QED
      BY <1>5, <1>6, <1>13
  <2>2. a \in DOMAIN g /\ g[a].token = t.token
    <3> HIDE DEF a, t, g, both
    <3> QED
      BY <1>4, <1>9, <1>13 DEF Joining
  <2>3. t \in TokenEntry
    BY <1>2, <1>9, <1>13
  <2> DEFINE h == WithToken(g, a, t)
  <2>4. /\ Stays(g, h) /\ Len(h) = Len(g)
        /\ TokenAdded(g, h, a, t) /\ NftsKept(g, h)
    <3> HIDE DEF a, t, g
    <3> QED
      BY <1>1, <2>2, <2>3, WithTokenEffect
  <2>5. m.i = i + 1 /\ m.j = j + 0 /\ m.groups = h
    <3> HIDE DEF at, h, m
    <3> QED
      BY <1>7, <2>1 DEF h
  <2> HIDE DEF m, h, a
  <2>8. Taken(l, m, 1, 0)
    BY <2>4, <2>5 DEF Taken
  <2>9. TokenJoins(ts, ns, l, m)
    BY <1>1, <1>9, <1>13, <2>2, <2>4, <2>5, <2>8 DEF TokenJoins
  <2> QED
    BY <2>9 DEF m
<1>14. CASE a = 0 /\ b # 0
  <2>1. m = at(0, 1, WithNft(g, b, n))
    <3> HIDE DEF at, m, a, b, t, n, both, g, i, j
    <3> QED
      BY <1>5, <1>6, <1>14
  <2>2. b \in DOMAIN g /\ g[b].token = n.token /\ (both => b = Len(g))
    <3> HIDE DEF b, n, g, both
    <3> QED
      BY <1>4, <1>10, <1>14 DEF Joining
  <2>3. n \in NftEntry
    BY <1>2, <1>10, <1>14
  <2> DEFINE h == WithNft(g, b, n)
  <2>4. /\ Stays(g, h) /\ Len(h) = Len(g)
        /\ NftAdded(g, h, b, n) /\ TokensKept(g, h)
    <3> HIDE DEF b, n, g
    <3> QED
      BY <1>1, <2>2, <2>3, WithNftEffect
  <2>5. m.i = i + 0 /\ m.j = j + 1 /\ m.groups = h
    <3> HIDE DEF at, h, m
    <3> QED
      BY <1>7, <2>1 DEF h
  <2> HIDE DEF m, h, b
  <2>8. Taken(l, m, 0, 1)
    BY <2>4, <2>5 DEF Taken
  <2>9. NftJoins(ts, ns, l, m)
    BY <1>1, <1>8, <1>10, <1>14, <2>2, <2>4, <2>5, <2>8 DEF NftJoins
  <2> QED
    BY <2>9 DEF m
<1>15. CASE a = 0 /\ b = 0 /\ both /\ t.token = n.token
  <2> DEFINE h == Append(g, JointGroup(t, n))
  <2>1. m = at(1, 1, h)
    <3>1. ~ (t.token < n.token)
      <4> HIDE DEF t, n, a, b
      <4> QED
        BY <1>2, <1>15
    <3> HIDE DEF at, m, a, b, t, n, both, g, i, j
    <3> QED
      BY <1>5, <1>6, <1>15, <3>1
  <2>2. t \in TokenEntry /\ n \in NftEntry
    BY <1>2, <1>15
  <2>3. /\ Stays(g, h) /\ Len(h) = Len(g) + 1
        /\ TokenAdded(g, h, Len(g) + 1, t) /\ NftAdded(g, h, Len(g) + 1, n)
        /\ h[Len(g) + 1].decimals = t.decimals
    <3> HIDE DEF t, n, g
    <3> QED
      BY <1>1, <1>15, <2>2, JointGroupEffect
  <2>4. m.i = i + 1 /\ m.j = j + 1 /\ m.groups = h
    <3> HIDE DEF at, h, m
    <3> QED
      BY <1>7, <2>1
  <2>5. NoGroup(g, t.token, TRUE)
    BY <1>11, <1>15
  <2> HIDE DEF m, h, a, b
  <2>8. Taken(l, m, 1, 1)
    BY <2>3, <2>4 DEF Taken
  <2>9. JointNew(ts, ns, l, m)
    BY <1>1, <1>8, <1>15, <2>3, <2>4, <2>5, <2>8 DEF JointNew
  <2> QED
    BY <2>9 DEF m
<1>16. CASE a = 0 /\ b = 0 /\ ~ (both /\ t.token = n.token)
            /\ i < Len(ts) /\ (both => t.token < n.token)
  <2> DEFINE h == Append(g, TokenGroup(t))
  <2>1. m = at(1, 0, h)
    <3> HIDE DEF at, m, a, b, t, n, both, g, i, j
    <3> QED
      BY <1>5, <1>6, <1>16
  <2>2. t \in TokenEntry
    BY <1>2, <1>16
  <2>3. /\ Stays(g, h) /\ Len(h) = Len(g) + 1
        /\ TokenAdded(g, h, Len(g) + 1, t) /\ NftsKept(g, h)
        /\ h[Len(g) + 1].decimals = t.decimals
    <3> HIDE DEF t, g
    <3> QED
      BY <1>1, <2>2, TokenGroupEffect
  <2>4. m.i = i + 1 /\ m.j = j + 0 /\ m.groups = h
    <3> HIDE DEF at, h, m
    <3> QED
      BY <1>7, <2>1
  <2>5. NoGroup(g, t.token, Both(ts, ns, l))
    <3>1. NoGroup(g, t.token, both)
      BY <1>11, <1>16
    <3> HIDE DEF both, t, g
    <3> QED
      BY <1>8, <3>1 DEF NoGroup
  <2>6. j < Len(ns) => t.token < n.token
    BY <1>16
  <2> HIDE DEF m, h, a, b
  <2>8. Taken(l, m, 1, 0)
    BY <2>3, <2>4 DEF Taken
  <2>9. TokenNew(ts, ns, l, m)
    BY <1>1, <1>8, <1>16, <2>3, <2>4, <2>5, <2>6, <2>8 DEF TokenNew
  <2> QED
    BY <2>9 DEF m
<1>17. CASE a = 0 /\ b = 0 /\ ~ (both /\ t.token = n.token)
            /\ ~ (i < Len(ts) /\ (both => t.token < n.token))
  <2> DEFINE h == Append(g, NftGroup(n))
  <2>1. m = at(0, 1, h)
    <3> HIDE DEF at, m, a, b, t, n, both, g, i, j
    <3> QED
      BY <1>5, <1>6, <1>17
  <2>2. j < Len(ns) /\ (i < Len(ts) => n.token < t.token)
    <3>1. j < Len(ns)
      BY <1>1, <1>6, <1>17
    <3> HIDE DEF t, n, i, j
    <3> QED
      BY <1>2, <1>17, <3>1
  <2>3. n \in NftEntry
    BY <1>2, <2>2
  <2>4. /\ Stays(g, h) /\ Len(h) = Len(g) + 1
        /\ NftAdded(g, h, Len(g) + 1, n) /\ TokensKept(g, h)
        /\ h[Len(g) + 1].decimals = Null
    <3> HIDE DEF n, g
    <3> QED
      BY <1>1, <2>3, NftGroupEffect
  <2>5. m.i = i + 0 /\ m.j = j + 1 /\ m.groups = h
    <3> HIDE DEF at, h, m
    <3> QED
      BY <1>7, <2>1
  <2>6. NoGroup(g, n.token, Both(ts, ns, l))
    <3>1. NoGroup(g, n.token, both)
      BY <1>12, <1>17, <2>2
    <3> HIDE DEF both, n, g
    <3> QED
      BY <1>8, <3>1 DEF NoGroup
  <2>7. i < Len(ts) => NoGroup(g, t.token, TRUE)
    BY <1>11, <1>17, <2>2
  <2> HIDE DEF m, h, a, b
  <2>8. Taken(l, m, 0, 1)
    BY <2>4, <2>5 DEF Taken
  <2>9. NftNew(ts, ns, l, m)
    BY <1>1, <1>8, <1>17, <2>2, <2>4, <2>5, <2>6, <2>7, <2>8 DEF NftNew
  <2> QED
    BY <2>9 DEF m
<1> HIDE DEF m, a, b, t, n
<1> QED
  BY <1>13, <1>14, <1>15, <1>16, <1>17

(* Places of the groups that were there before a step. *)
OldToken(g, h, k, m) ==
  /\ k \in DOMAIN g /\ m \in DOMAIN g[k].transfers
  /\ h[k].token = g[k].token /\ h[k].transfers[m] = g[k].transfers[m]

(* The places of transfers, when none is added. *)
LEMMA TokenPlacesKept ==
    ASSUME NEW g \in Seq(Group), NEW h, Stays(g, h), TokensKept(g, h)
    PROVE  /\ \A k \in DOMAIN h : \A m \in DOMAIN h[k].transfers :
                OldToken(g, h, k, m)
           /\ \A k \in DOMAIN g : \A m \in DOMAIN g[k].transfers :
                /\ k \in DOMAIN h /\ m \in DOMAIN h[k].transfers
                /\ OldToken(g, h, k, m)
<1>1. ASSUME NEW k \in DOMAIN h, NEW m \in DOMAIN h[k].transfers
      PROVE  OldToken(g, h, k, m)
  <2>1. h[k].transfers = TransfersAt(g, k)
    BY DEF TokensKept
  <2>2. k \in DOMAIN g
    <3>1. SUFFICES ASSUME k \notin DOMAIN g PROVE FALSE
      OBVIOUS
    <3>2. h[k].transfers = <<>>
      BY <2>1, <3>1 DEF TransfersAt
    <3>3. m \in DOMAIN << >>
      BY <3>2, Zenon
    <3> QED
      BY <3>3
  <2>3. h[k].transfers = g[k].transfers /\ h[k].token = g[k].token
    BY <2>1, <2>2 DEF TransfersAt, Stays
  <2> QED
    BY <2>2, <2>3 DEF OldToken
<1>2. ASSUME NEW k \in DOMAIN g, NEW m \in DOMAIN g[k].transfers
      PROVE  k \in DOMAIN h /\ m \in DOMAIN h[k].transfers
  <2>1. k \in DOMAIN h
    BY DEF Stays
  <2>2. h[k].transfers = g[k].transfers
    BY <2>1 DEF TokensKept, TransfersAt
  <2> QED
    BY <2>1, <2>2
<1> QED
  BY <1>1, <1>2

(* The places of transfers, when one is added. *)
LEMMA TokenPlacesAdded ==
    ASSUME NEW g \in Seq(Group), NEW h, NEW a, NEW t \in TokenEntry,
           Stays(g, h), TokenAdded(g, h, a, t)
    PROVE  /\ \A k \in DOMAIN g : \A m \in DOMAIN g[k].transfers :
                /\ k \in DOMAIN h /\ m \in DOMAIN h[k].transfers
                /\ OldToken(g, h, k, m)
           /\ \E n \in DOMAIN h[a].transfers :
                /\ a \in DOMAIN h /\ h[a].token = t.token
                /\ h[a].transfers[n] = TokenToProtobuf(t)
                /\ ~ (a \in DOMAIN g /\ n \in DOMAIN g[a].transfers)
                /\ \A k \in DOMAIN h : \A m \in DOMAIN h[k].transfers :
                     OldToken(g, h, k, m) \/ (k = a /\ m = n)
<1> DEFINE s == TransfersAt(g, a)
           x == TokenToProtobuf(t)
           n == Len(s) + 1
<1>1. \A k \in DOMAIN g : g[k].transfers \in TokenProtos /\ k \in DOMAIN h
                          /\ h[k].token = g[k].token
  BY GroupFields DEF Stays
<1>2. s \in Seq(TokenProto) /\ x \in TokenProto
  <2>1. <<>> \in Seq(TokenProto)
    OBVIOUS
  <2> QED
    BY <1>1, <2>1, Protos DEF TransfersAt, TokenProtos
<1>3. /\ a \in DOMAIN h /\ h[a].token = t.token /\ h[a].transfers = Append(s, x)
      /\ \A k \in DOMAIN h : k # a => h[k].transfers = TransfersAt(g, k)
  BY DEF TokenAdded
<1> HIDE DEF s, x
<1>4. /\ Len(s) \in Nat /\ DOMAIN s = 1..Len(s)
      /\ DOMAIN Append(s, x) = 1..n /\ Append(s, x)[n] = x
      /\ \A m \in 1..Len(s) : Append(s, x)[m] = s[m]
  BY <1>2, OneMore
<1>5. \A m : m \in 1..n <=> m \in 1..Len(s) \/ m = n
  BY <1>4
<1>6. n \notin 1..Len(s)
  BY <1>4
<1>7. a \in DOMAIN g => s = g[a].transfers
  BY DEF s, TransfersAt
<1>8. a \notin DOMAIN g => s = <<>>
  BY DEF s, TransfersAt
<1>9. ASSUME NEW k \in DOMAIN g, NEW m \in DOMAIN g[k].transfers
      PROVE  m \in DOMAIN h[k].transfers /\ OldToken(g, h, k, m)
  <2>1. CASE k # a
    <3>1. h[k].transfers = g[k].transfers
      BY <1>1, <1>3, <2>1 DEF TransfersAt
    <3> QED
      BY <1>1, <3>1 DEF OldToken
  <2>2. CASE k = a
    <3>1. m \in 1..Len(s)
      BY <1>4, <1>7, <1>9, <2>2
    <3>2. m \in DOMAIN h[a].transfers /\ h[a].transfers[m] = s[m]
      BY <1>3, <1>4, <1>5, <3>1
    <3> QED
      BY <1>1, <1>7, <2>2, <3>2 DEF OldToken
  <2> QED
    BY <2>1, <2>2
<1>10. ASSUME NEW k \in DOMAIN h, NEW m \in DOMAIN h[k].transfers
       PROVE  OldToken(g, h, k, m) \/ (k = a /\ m = n)
  <2>1. CASE k # a
    <3>1. h[k].transfers = TransfersAt(g, k)
      BY <1>3, <2>1
    <3>2. k \in DOMAIN g
      <4>1. SUFFICES ASSUME k \notin DOMAIN g PROVE FALSE
        OBVIOUS
      <4>2. h[k].transfers = <<>>
        BY <3>1, <4>1 DEF TransfersAt
      <4>3. m \in DOMAIN << >>
        BY <4>2, Zenon
      <4> QED
        BY <4>3
    <3>3. h[k].transfers = g[k].transfers
      BY <3>1, <3>2 DEF TransfersAt
    <3> QED
      BY <1>1, <3>2, <3>3 DEF OldToken
  <2>2. CASE k = a
    <3>1. m \in 1..Len(s) \/ m = n
      BY <1>3, <1>4, <1>5, <2>2
    <3>2. CASE m \in 1..Len(s)
      <4>1. a \in DOMAIN g
        <5>1. SUFFICES ASSUME a \notin DOMAIN g PROVE FALSE
          OBVIOUS
        <5>2. Len(s) = 0
          BY <1>8, <5>1
        <5> QED
          BY <3>2, <5>2
      <4>2. m \in DOMAIN g[a].transfers /\ h[a].transfers[m] = g[a].transfers[m]
        BY <1>3, <1>4, <1>7, <3>2, <4>1
      <4> QED
        BY <1>1, <2>2, <4>1, <4>2 DEF OldToken
    <3> QED
      BY <2>2, <3>1, <3>2
  <2> QED
    BY <2>1, <2>2
<1>11. n \in DOMAIN h[a].transfers /\ h[a].transfers[n] = x
  BY <1>3, <1>4, <1>5
<1>12. ~ (a \in DOMAIN g /\ n \in DOMAIN g[a].transfers)
  BY <1>4, <1>6, <1>7
<1> HIDE DEF n
<1>13. \E o \in DOMAIN h[a].transfers :
         /\ a \in DOMAIN h /\ h[a].token = t.token
         /\ h[a].transfers[o] = TokenToProtobuf(t)
         /\ ~ (a \in DOMAIN g /\ o \in DOMAIN g[a].transfers)
         /\ \A k \in DOMAIN h : \A m \in DOMAIN h[k].transfers :
              OldToken(g, h, k, m) \/ (k = a /\ m = o)
  BY <1>3, <1>10, <1>11, <1>12 DEF x
<1> QED
  BY <1>1, <1>9, <1>13

(* Every transfer that the loop took has its place, and every place has one. *)
TokenAt(g, k, m, e) ==
  /\ k \in DOMAIN g /\ m \in DOMAIN g[k].transfers
  /\ g[k].token = e.token /\ g[k].transfers[m] = TokenToProtobuf(e)
OneTokenPlace(g) ==
  \A k, k2 \in DOMAIN g :
    \A m \in DOMAIN g[k].transfers, m2 \in DOMAIN g[k2].transfers :
      /\ g[k].token = g[k2].token
      /\ g[k].transfers[m].account = g[k2].transfers[m2].account
      => k = k2 /\ m = m2
TokensPlaced(ts, i, g) ==
  /\ \A x \in 1..i : \E k, m : TokenAt(g, k, m, ts[x])
  /\ \A k \in DOMAIN g : \A m \in DOMAIN g[k].transfers :
       \E x \in 1..i : TokenAt(g, k, m, ts[x])
  /\ OneTokenPlace(g)

(* Every transfer taken has one place, also when none is added. *)
LEMMA TokensPlacedKept ==
    ASSUME NEW g \in Seq(Group), NEW h, Stays(g, h), TokensKept(g, h),
           NEW ts, NEW i, TokensPlaced(ts, i, g)
    PROVE  TokensPlaced(ts, i, h)
<1>1. /\ \A k \in DOMAIN h : \A m \in DOMAIN h[k].transfers :
           OldToken(g, h, k, m)
      /\ \A k \in DOMAIN g : \A m \in DOMAIN g[k].transfers :
           /\ k \in DOMAIN h /\ m \in DOMAIN h[k].transfers
           /\ OldToken(g, h, k, m)
  BY TokenPlacesKept
<1>2. ASSUME NEW x \in 1..i
      PROVE  \E k, m : TokenAt(h, k, m, ts[x])
  <2>1. PICK k, m : TokenAt(g, k, m, ts[x])
    BY DEF TokensPlaced
  <2> QED
    BY <1>1, <2>1 DEF TokenAt, OldToken
<1>3. ASSUME NEW k \in DOMAIN h, NEW m \in DOMAIN h[k].transfers
      PROVE  \E x \in 1..i : TokenAt(h, k, m, ts[x])
  <2>1. OldToken(g, h, k, m)
    BY <1>1
  <2>2. PICK x \in 1..i : TokenAt(g, k, m, ts[x])
    BY <2>1 DEF TokensPlaced, OldToken
  <2> QED
    BY <2>1, <2>2 DEF TokenAt, OldToken
<1>4. ASSUME NEW k \in DOMAIN h, NEW k2 \in DOMAIN h,
             NEW m \in DOMAIN h[k].transfers, NEW m2 \in DOMAIN h[k2].transfers,
             h[k].token = h[k2].token,
             h[k].transfers[m].account = h[k2].transfers[m2].account
      PROVE  k = k2 /\ m = m2
  <2>1. OldToken(g, h, k, m) /\ OldToken(g, h, k2, m2)
    BY <1>1
  <2>2. /\ k \in DOMAIN g /\ m \in DOMAIN g[k].transfers
        /\ k2 \in DOMAIN g /\ m2 \in DOMAIN g[k2].transfers
        /\ g[k].token = g[k2].token
        /\ g[k].transfers[m].account = g[k2].transfers[m2].account
    BY <1>4, <2>1 DEF OldToken
  <2>3. OneTokenPlace(g)
    BY DEF TokensPlaced
  <2> QED
    BY <2>2, <2>3 DEF OneTokenPlace
<1> QED
  BY <1>2, <1>3, <1>4 DEF TokensPlaced, OneTokenPlace

(* Every transfer taken has one place, also the one that is added. *)
LEMMA TokensPlacedMore ==
    ASSUME NEW g \in Seq(Group), NEW h, Stays(g, h),
           NEW ts \in Seq(TokenEntry), NEW i \in Nat, i < Len(ts),
           NEW a, TokenAdded(g, h, a, ts[i + 1]),
           TokensPlaced(ts, i, g),
           \A x, y \in DOMAIN ts :
             ts[x].token = ts[y].token /\ ts[x].account = ts[y].account => x = y
    PROVE  TokensPlaced(ts, i + 1, h)
<1> DEFINE c == i + 1
           t == ts[c]
<1>1. /\ c \in DOMAIN ts /\ c \notin 1..i
      /\ \A x : x \in 1..c <=> x \in 1..i \/ x = c
      /\ \A x \in 1..i : x \in DOMAIN ts
      /\ \A x \in DOMAIN ts : ts[x] \in TokenEntry
  OBVIOUS
<1>2. t \in TokenEntry
  BY <1>1
<1> HIDE DEF c
<1>3. \A k \in DOMAIN g : \A m \in DOMAIN g[k].transfers :
        /\ k \in DOMAIN h /\ m \in DOMAIN h[k].transfers
        /\ OldToken(g, h, k, m)
  BY <1>2, TokenPlacesAdded DEF c
<1>4. PICK n \in DOMAIN h[a].transfers :
        /\ a \in DOMAIN h /\ h[a].token = t.token
        /\ h[a].transfers[n] = TokenToProtobuf(t)
        /\ ~ (a \in DOMAIN g /\ n \in DOMAIN g[a].transfers)
        /\ \A k \in DOMAIN h : \A m \in DOMAIN h[k].transfers :
             OldToken(g, h, k, m) \/ (k = a /\ m = n)
  BY <1>2, TokenPlacesAdded DEF c
<1>5. TokenToProtobuf(t).account = t.account
  BY <1>2, Protos
<1>6. TokenAt(h, a, n, ts[c])
  BY <1>4 DEF TokenAt
<1> HIDE DEF t
<1>7. ASSUME NEW x \in 1..c
      PROVE  \E k, m : TokenAt(h, k, m, ts[x])
  <2>1. CASE x \in 1..i
    <3>1. PICK k, m : TokenAt(g, k, m, ts[x])
      BY <2>1 DEF TokensPlaced
    <3>2. TokenAt(h, k, m, ts[x])
      BY <1>3, <3>1 DEF TokenAt, OldToken
    <3> QED
      BY <3>2
  <2> QED
    BY <1>1, <1>6, <2>1
<1>8. ASSUME NEW k \in DOMAIN h, NEW m \in DOMAIN h[k].transfers,
             OldToken(g, h, k, m)
      PROVE  \E x \in 1..i : TokenAt(h, k, m, ts[x])
  <2>1. PICK x \in 1..i : TokenAt(g, k, m, ts[x])
    BY <1>8 DEF TokensPlaced, OldToken
  <2> QED
    BY <1>8, <2>1 DEF TokenAt, OldToken
<1>9. ASSUME NEW k \in DOMAIN h, NEW m \in DOMAIN h[k].transfers
      PROVE  \E x \in 1..c : TokenAt(h, k, m, ts[x])
  <2>1. CASE OldToken(g, h, k, m)
    BY <1>1, <1>8, <2>1
  <2>2. CASE k = a /\ m = n
    BY <1>1, <1>6, <2>2
  <2> QED
    BY <1>4, <2>1, <2>2
<1>10. ASSUME NEW k \in DOMAIN h, NEW m \in DOMAIN h[k].transfers,
              OldToken(g, h, k, m), h[k].token = t.token,
              h[k].transfers[m].account = t.account
       PROVE  FALSE
  <2>1. PICK x \in 1..i : TokenAt(h, k, m, ts[x])
    BY <1>8, <1>10
  <2>2. ts[x] \in TokenEntry /\ x \in DOMAIN ts
    BY <1>1
  <2>3. ts[x].token = t.token /\ TokenToProtobuf(ts[x]).account = t.account
    BY <1>10, <2>1 DEF TokenAt
  <2>4. ts[x].account = t.account
    BY <2>2, <2>3, Protos
  <2>5. x = c
    BY <1>1, <2>2, <2>3, <2>4 DEF t
  <2> QED
    BY <1>1, <2>5
<1>11. ASSUME NEW k \in DOMAIN h, NEW k2 \in DOMAIN h,
              NEW m \in DOMAIN h[k].transfers, NEW m2 \in DOMAIN h[k2].transfers,
              h[k].token = h[k2].token,
              h[k].transfers[m].account = h[k2].transfers[m2].account
       PROVE  k = k2 /\ m = m2
  <2>1. CASE OldToken(g, h, k, m) /\ OldToken(g, h, k2, m2)
    <3>1. /\ k \in DOMAIN g /\ m \in DOMAIN g[k].transfers
          /\ k2 \in DOMAIN g /\ m2 \in DOMAIN g[k2].transfers
          /\ g[k].token = g[k2].token
          /\ g[k].transfers[m].account = g[k2].transfers[m2].account
      BY <1>11, <2>1 DEF OldToken
    <3>2. OneTokenPlace(g)
      BY DEF TokensPlaced
    <3> QED
      BY <3>1, <3>2 DEF OneTokenPlace
  <2>2. CASE OldToken(g, h, k, m) /\ k2 = a /\ m2 = n
    BY <1>4, <1>5, <1>10, <1>11, <2>2
  <2>3. CASE k = a /\ m = n /\ OldToken(g, h, k2, m2)
    BY <1>4, <1>5, <1>10, <1>11, <2>3
  <2>4. CASE k = a /\ m = n /\ k2 = a /\ m2 = n
    BY <2>4
  <2> QED
    BY <1>4, <2>1, <2>2, <2>3, <2>4
<1>12. TokensPlaced(ts, c, h)
  BY <1>7, <1>9, <1>11 DEF TokensPlaced, OneTokenPlace
<1> QED
  BY <1>12 DEF c

(* The same of the NFTs. *)
OldNft(g, h, k, m) ==
  /\ k \in DOMAIN g /\ m \in DOMAIN g[k].nfts
  /\ h[k].token = g[k].token /\ h[k].nfts[m] = g[k].nfts[m]

(* The same four for NFTs. *)
LEMMA NftPlacesKept ==
    ASSUME NEW g \in Seq(Group), NEW h, Stays(g, h), NftsKept(g, h)
    PROVE  /\ \A k \in DOMAIN h : \A m \in DOMAIN h[k].nfts :
                OldNft(g, h, k, m)
           /\ \A k \in DOMAIN g : \A m \in DOMAIN g[k].nfts :
                /\ k \in DOMAIN h /\ m \in DOMAIN h[k].nfts
                /\ OldNft(g, h, k, m)
<1>1. ASSUME NEW k \in DOMAIN h, NEW m \in DOMAIN h[k].nfts
      PROVE  OldNft(g, h, k, m)
  <2>1. h[k].nfts = NftsAt(g, k)
    BY DEF NftsKept
  <2>2. k \in DOMAIN g
    <3>1. SUFFICES ASSUME k \notin DOMAIN g PROVE FALSE
      OBVIOUS
    <3>2. h[k].nfts = <<>>
      BY <2>1, <3>1 DEF NftsAt
    <3>3. m \in DOMAIN << >>
      BY <3>2, Zenon
    <3> QED
      BY <3>3
  <2>3. h[k].nfts = g[k].nfts /\ h[k].token = g[k].token
    BY <2>1, <2>2 DEF NftsAt, Stays
  <2> QED
    BY <2>2, <2>3 DEF OldNft
<1>2. ASSUME NEW k \in DOMAIN g, NEW m \in DOMAIN g[k].nfts
      PROVE  k \in DOMAIN h /\ m \in DOMAIN h[k].nfts
  <2>1. k \in DOMAIN h
    BY DEF Stays
  <2>2. h[k].nfts = g[k].nfts
    BY <2>1 DEF NftsKept, NftsAt
  <2> QED
    BY <2>1, <2>2
<1> QED
  BY <1>1, <1>2

LEMMA NftPlacesAdded ==
    ASSUME NEW g \in Seq(Group), NEW h, NEW a, NEW t \in NftEntry,
           Stays(g, h), NftAdded(g, h, a, t)
    PROVE  /\ \A k \in DOMAIN g : \A m \in DOMAIN g[k].nfts :
                /\ k \in DOMAIN h /\ m \in DOMAIN h[k].nfts
                /\ OldNft(g, h, k, m)
           /\ \E n \in DOMAIN h[a].nfts :
                /\ a \in DOMAIN h /\ h[a].token = t.token
                /\ h[a].nfts[n] = NftToProtobuf(t)
                /\ ~ (a \in DOMAIN g /\ n \in DOMAIN g[a].nfts)
                /\ \A k \in DOMAIN h : \A m \in DOMAIN h[k].nfts :
                     OldNft(g, h, k, m) \/ (k = a /\ m = n)
<1> DEFINE s == NftsAt(g, a)
           x == NftToProtobuf(t)
           n == Len(s) + 1
<1>1. \A k \in DOMAIN g : g[k].nfts \in NftProtos /\ k \in DOMAIN h
                          /\ h[k].token = g[k].token
  BY GroupFields DEF Stays
<1>2. s \in Seq(NftProto) /\ x \in NftProto
  <2>1. <<>> \in Seq(NftProto)
    OBVIOUS
  <2> QED
    BY <1>1, <2>1, Protos DEF NftsAt, NftProtos
<1>3. /\ a \in DOMAIN h /\ h[a].token = t.token /\ h[a].nfts = Append(s, x)
      /\ \A k \in DOMAIN h : k # a => h[k].nfts = NftsAt(g, k)
  BY DEF NftAdded
<1> HIDE DEF s, x
<1>4. /\ Len(s) \in Nat /\ DOMAIN s = 1..Len(s)
      /\ DOMAIN Append(s, x) = 1..n /\ Append(s, x)[n] = x
      /\ \A m \in 1..Len(s) : Append(s, x)[m] = s[m]
  BY <1>2, OneMore
<1>5. \A m : m \in 1..n <=> m \in 1..Len(s) \/ m = n
  BY <1>4
<1>6. n \notin 1..Len(s)
  BY <1>4
<1>7. a \in DOMAIN g => s = g[a].nfts
  BY DEF s, NftsAt
<1>8. a \notin DOMAIN g => s = <<>>
  BY DEF s, NftsAt
<1>9. ASSUME NEW k \in DOMAIN g, NEW m \in DOMAIN g[k].nfts
      PROVE  m \in DOMAIN h[k].nfts /\ OldNft(g, h, k, m)
  <2>1. CASE k # a
    <3>1. h[k].nfts = g[k].nfts
      BY <1>1, <1>3, <2>1 DEF NftsAt
    <3> QED
      BY <1>1, <3>1 DEF OldNft
  <2>2. CASE k = a
    <3>1. m \in 1..Len(s)
      BY <1>4, <1>7, <1>9, <2>2
    <3>2. m \in DOMAIN h[a].nfts /\ h[a].nfts[m] = s[m]
      BY <1>3, <1>4, <1>5, <3>1
    <3> QED
      BY <1>1, <1>7, <2>2, <3>2 DEF OldNft
  <2> QED
    BY <2>1, <2>2
<1>10. ASSUME NEW k \in DOMAIN h, NEW m \in DOMAIN h[k].nfts
       PROVE  OldNft(g, h, k, m) \/ (k = a /\ m = n)
  <2>1. CASE k # a
    <3>1. h[k].nfts = NftsAt(g, k)
      BY <1>3, <2>1
    <3>2. k \in DOMAIN g
      <4>1. SUFFICES ASSUME k \notin DOMAIN g PROVE FALSE
        OBVIOUS
      <4>2. h[k].nfts = <<>>
        BY <3>1, <4>1 DEF NftsAt
      <4>3. m \in DOMAIN << >>
        BY <4>2, Zenon
      <4> QED
        BY <4>3
    <3>3. h[k].nfts = g[k].nfts
      BY <3>1, <3>2 DEF NftsAt
    <3> QED
      BY <1>1, <3>2, <3>3 DEF OldNft
  <2>2. CASE k = a
    <3>1. m \in 1..Len(s) \/ m = n
      BY <1>3, <1>4, <1>5, <2>2
    <3>2. CASE m \in 1..Len(s)
      <4>1. a \in DOMAIN g
        <5>1. SUFFICES ASSUME a \notin DOMAIN g PROVE FALSE
          OBVIOUS
        <5>2. Len(s) = 0
          BY <1>8, <5>1
        <5> QED
          BY <3>2, <5>2
      <4>2. m \in DOMAIN g[a].nfts /\ h[a].nfts[m] = g[a].nfts[m]
        BY <1>3, <1>4, <1>7, <3>2, <4>1
      <4> QED
        BY <1>1, <2>2, <4>1, <4>2 DEF OldNft
    <3> QED
      BY <2>2, <3>1, <3>2
  <2> QED
    BY <2>1, <2>2
<1>11. n \in DOMAIN h[a].nfts /\ h[a].nfts[n] = x
  BY <1>3, <1>4, <1>5
<1>12. ~ (a \in DOMAIN g /\ n \in DOMAIN g[a].nfts)
  BY <1>4, <1>6, <1>7
<1> HIDE DEF n
<1>13. \E o \in DOMAIN h[a].nfts :
         /\ a \in DOMAIN h /\ h[a].token = t.token
         /\ h[a].nfts[o] = NftToProtobuf(t)
         /\ ~ (a \in DOMAIN g /\ o \in DOMAIN g[a].nfts)
         /\ \A k \in DOMAIN h : \A m \in DOMAIN h[k].nfts :
              OldNft(g, h, k, m) \/ (k = a /\ m = o)
  BY <1>3, <1>10, <1>11, <1>12 DEF x
<1> QED
  BY <1>1, <1>9, <1>13

(* Every NFT that the loop took has its place, and every place has one. *)
NftAt(g, k, m, e) ==
  /\ k \in DOMAIN g /\ m \in DOMAIN g[k].nfts
  /\ g[k].token = e.token /\ g[k].nfts[m] = NftToProtobuf(e)
OneNftPlace(g) ==
  \A k, k2 \in DOMAIN g :
    \A m \in DOMAIN g[k].nfts, m2 \in DOMAIN g[k2].nfts :
      /\ g[k].token = g[k2].token
      /\ g[k].nfts[m].serial = g[k2].nfts[m2].serial
      => k = k2 /\ m = m2
NftsPlaced(ns, i, g) ==
  /\ \A x \in 1..i : \E k, m : NftAt(g, k, m, ns[x])
  /\ \A k \in DOMAIN g : \A m \in DOMAIN g[k].nfts :
       \E x \in 1..i : NftAt(g, k, m, ns[x])
  /\ OneNftPlace(g)

LEMMA NftsPlacedKept ==
    ASSUME NEW g \in Seq(Group), NEW h, Stays(g, h), NftsKept(g, h),
           NEW ns, NEW i, NftsPlaced(ns, i, g)
    PROVE  NftsPlaced(ns, i, h)
<1>1. /\ \A k \in DOMAIN h : \A m \in DOMAIN h[k].nfts :
           OldNft(g, h, k, m)
      /\ \A k \in DOMAIN g : \A m \in DOMAIN g[k].nfts :
           /\ k \in DOMAIN h /\ m \in DOMAIN h[k].nfts
           /\ OldNft(g, h, k, m)
  BY NftPlacesKept
<1>2. ASSUME NEW x \in 1..i
      PROVE  \E k, m : NftAt(h, k, m, ns[x])
  <2>1. PICK k, m : NftAt(g, k, m, ns[x])
    BY DEF NftsPlaced
  <2> QED
    BY <1>1, <2>1 DEF NftAt, OldNft
<1>3. ASSUME NEW k \in DOMAIN h, NEW m \in DOMAIN h[k].nfts
      PROVE  \E x \in 1..i : NftAt(h, k, m, ns[x])
  <2>1. OldNft(g, h, k, m)
    BY <1>1
  <2>2. PICK x \in 1..i : NftAt(g, k, m, ns[x])
    BY <2>1 DEF NftsPlaced, OldNft
  <2> QED
    BY <2>1, <2>2 DEF NftAt, OldNft
<1>4. ASSUME NEW k \in DOMAIN h, NEW k2 \in DOMAIN h,
             NEW m \in DOMAIN h[k].nfts, NEW m2 \in DOMAIN h[k2].nfts,
             h[k].token = h[k2].token,
             h[k].nfts[m].serial = h[k2].nfts[m2].serial
      PROVE  k = k2 /\ m = m2
  <2>1. OldNft(g, h, k, m) /\ OldNft(g, h, k2, m2)
    BY <1>1
  <2>2. /\ k \in DOMAIN g /\ m \in DOMAIN g[k].nfts
        /\ k2 \in DOMAIN g /\ m2 \in DOMAIN g[k2].nfts
        /\ g[k].token = g[k2].token
        /\ g[k].nfts[m].serial = g[k2].nfts[m2].serial
    BY <1>4, <2>1 DEF OldNft
  <2>3. OneNftPlace(g)
    BY DEF NftsPlaced
  <2> QED
    BY <2>2, <2>3 DEF OneNftPlace
<1> QED
  BY <1>2, <1>3, <1>4 DEF NftsPlaced, OneNftPlace

LEMMA NftsPlacedMore ==
    ASSUME NEW g \in Seq(Group), NEW h, Stays(g, h),
           NEW ns \in Seq(NftEntry), NEW i \in Nat, i < Len(ns),
           NEW a, NftAdded(g, h, a, ns[i + 1]),
           NftsPlaced(ns, i, g),
           \A x, y \in DOMAIN ns :
             ns[x].token = ns[y].token /\ ns[x].serial = ns[y].serial => x = y
    PROVE  NftsPlaced(ns, i + 1, h)
<1> DEFINE c == i + 1
           t == ns[c]
<1>1. /\ c \in DOMAIN ns /\ c \notin 1..i
      /\ \A x : x \in 1..c <=> x \in 1..i \/ x = c
      /\ \A x \in 1..i : x \in DOMAIN ns
      /\ \A x \in DOMAIN ns : ns[x] \in NftEntry
  OBVIOUS
<1>2. t \in NftEntry
  BY <1>1
<1> HIDE DEF c
<1>3. \A k \in DOMAIN g : \A m \in DOMAIN g[k].nfts :
        /\ k \in DOMAIN h /\ m \in DOMAIN h[k].nfts
        /\ OldNft(g, h, k, m)
  BY <1>2, NftPlacesAdded DEF c
<1>4. PICK n \in DOMAIN h[a].nfts :
        /\ a \in DOMAIN h /\ h[a].token = t.token
        /\ h[a].nfts[n] = NftToProtobuf(t)
        /\ ~ (a \in DOMAIN g /\ n \in DOMAIN g[a].nfts)
        /\ \A k \in DOMAIN h : \A m \in DOMAIN h[k].nfts :
             OldNft(g, h, k, m) \/ (k = a /\ m = n)
  BY <1>2, NftPlacesAdded DEF c
<1>5. NftToProtobuf(t).serial = t.serial
  BY <1>2, Protos
<1>6. NftAt(h, a, n, ns[c])
  BY <1>4 DEF NftAt
<1> HIDE DEF t
<1>7. ASSUME NEW x \in 1..c
      PROVE  \E k, m : NftAt(h, k, m, ns[x])
  <2>1. CASE x \in 1..i
    <3>1. PICK k, m : NftAt(g, k, m, ns[x])
      BY <2>1 DEF NftsPlaced
    <3>2. NftAt(h, k, m, ns[x])
      BY <1>3, <3>1 DEF NftAt, OldNft
    <3> QED
      BY <3>2
  <2> QED
    BY <1>1, <1>6, <2>1
<1>8. ASSUME NEW k \in DOMAIN h, NEW m \in DOMAIN h[k].nfts,
             OldNft(g, h, k, m)
      PROVE  \E x \in 1..i : NftAt(h, k, m, ns[x])
  <2>1. PICK x \in 1..i : NftAt(g, k, m, ns[x])
    BY <1>8 DEF NftsPlaced, OldNft
  <2> QED
    BY <1>8, <2>1 DEF NftAt, OldNft
<1>9. ASSUME NEW k \in DOMAIN h, NEW m \in DOMAIN h[k].nfts
      PROVE  \E x \in 1..c : NftAt(h, k, m, ns[x])
  <2>1. CASE OldNft(g, h, k, m)
    BY <1>1, <1>8, <2>1
  <2>2. CASE k = a /\ m = n
    BY <1>1, <1>6, <2>2
  <2> QED
    BY <1>4, <2>1, <2>2
<1>10. ASSUME NEW k \in DOMAIN h, NEW m \in DOMAIN h[k].nfts,
              OldNft(g, h, k, m), h[k].token = t.token,
              h[k].nfts[m].serial = t.serial
       PROVE  FALSE
  <2>1. PICK x \in 1..i : NftAt(h, k, m, ns[x])
    BY <1>8, <1>10
  <2>2. ns[x] \in NftEntry /\ x \in DOMAIN ns
    BY <1>1
  <2>3. ns[x].token = t.token /\ NftToProtobuf(ns[x]).serial = t.serial
    BY <1>10, <2>1 DEF NftAt
  <2>4. ns[x].serial = t.serial
    BY <2>2, <2>3, Protos
  <2>5. x = c
    BY <1>1, <2>2, <2>3, <2>4 DEF t
  <2> QED
    BY <1>1, <2>5
<1>11. ASSUME NEW k \in DOMAIN h, NEW k2 \in DOMAIN h,
              NEW m \in DOMAIN h[k].nfts, NEW m2 \in DOMAIN h[k2].nfts,
              h[k].token = h[k2].token,
              h[k].nfts[m].serial = h[k2].nfts[m2].serial
       PROVE  k = k2 /\ m = m2
  <2>1. CASE OldNft(g, h, k, m) /\ OldNft(g, h, k2, m2)
    <3>1. /\ k \in DOMAIN g /\ m \in DOMAIN g[k].nfts
          /\ k2 \in DOMAIN g /\ m2 \in DOMAIN g[k2].nfts
          /\ g[k].token = g[k2].token
          /\ g[k].nfts[m].serial = g[k2].nfts[m2].serial
      BY <1>11, <2>1 DEF OldNft
    <3>2. OneNftPlace(g)
      BY DEF NftsPlaced
    <3> QED
      BY <3>1, <3>2 DEF OneNftPlace
  <2>2. CASE OldNft(g, h, k, m) /\ k2 = a /\ m2 = n
    BY <1>4, <1>5, <1>10, <1>11, <2>2
  <2>3. CASE k = a /\ m = n /\ OldNft(g, h, k2, m2)
    BY <1>4, <1>5, <1>10, <1>11, <2>3
  <2>4. CASE k = a /\ m = n /\ k2 = a /\ m2 = n
    BY <2>4
  <2> QED
    BY <1>4, <2>1, <2>2, <2>3, <2>4
<1>12. NftsPlaced(ns, c, h)
  BY <1>7, <1>9, <1>11 DEF NftsPlaced, OneNftPlace
<1> QED
  BY <1>12 DEF c

(* ---- The loop *)

Inputs(ts, ns) ==
  /\ ts \in Seq(TokenEntry) /\ ns \in Seq(NftEntry) /\ TokensSorted(ts)
  /\ \A x, y \in DOMAIN ts :
       ts[x].token = ts[y].token /\ ts[x].account = ts[y].account => x = y
  /\ \A x, y \in DOMAIN ns :
       ns[x].token = ns[y].token /\ ns[x].serial = ns[y].serial => x = y
Step(ts, ns, l, m) ==
  \/ TokenJoins(ts, ns, l, m) \/ NftJoins(ts, ns, l, m)
  \/ JointNew(ts, ns, l, m) \/ TokenNew(ts, ns, l, m) \/ NftNew(ts, ns, l, m)

(* What the two sorted lists are made of. *)
LEMMA InputFacts ==
    ASSUME NEW ts, NEW ns, Inputs(ts, ns)
    PROVE  /\ Len(ts) \in Nat /\ DOMAIN ts = 1..Len(ts)
           /\ Len(ns) \in Nat /\ DOMAIN ns = 1..Len(ns)
           /\ \A x \in DOMAIN ts : ts[x] \in TokenEntry /\ ts[x].token \in Int
           /\ \A x \in DOMAIN ns : ns[x] \in NftEntry /\ ns[x].token \in Int
           /\ \A x, y \in DOMAIN ts : x < y => ts[x].token <= ts[y].token
<1>1. ts \in Seq(TokenEntry) /\ ns \in Seq(NftEntry)
  BY DEF Inputs
<1>2. /\ Len(ts) \in Nat /\ DOMAIN ts = 1..Len(ts)
      /\ Len(ns) \in Nat /\ DOMAIN ns = 1..Len(ns)
      /\ \A x \in DOMAIN ts : ts[x] \in TokenEntry
      /\ \A x \in DOMAIN ns : ns[x] \in NftEntry
  BY <1>1
<1>3. \A x \in DOMAIN ts : ts[x].token \in Int
  BY <1>2 DEF TokenEntry
<1>4. \A x \in DOMAIN ns : ns[x].token \in Int
  BY <1>2 DEF NftEntry
<1>5. ASSUME NEW x \in DOMAIN ts, NEW y \in DOMAIN ts, x < y
      PROVE  ts[x].token <= ts[y].token
  <2>1. TokenOrder(ts[x], ts[y])
    BY <1>5 DEF Inputs, TokensSorted
  <2> QED
    BY <1>3, <2>1 DEF TokenOrder
<1> QED
  BY <1>2, <1>3, <1>4, <1>5

(* What a step takes. *)
LEMMA StepTakes ==
    ASSUME NEW ts, NEW ns, Inputs(ts, ns), NEW l, NEW m, Ranges(ts, ns, l),
           Step(ts, ns, l, m)
    PROVE  /\ Stays(l.groups, m.groups)
           /\ Len(m.groups) \in {Len(l.groups), Len(l.groups) + 1}
           /\ \/ m.i = l.i /\ TokensKept(l.groups, m.groups)
              \/ /\ l.i < Len(ts) /\ m.i = l.i + 1
                 /\ \E a : TokenAdded(l.groups, m.groups, a, ts[l.i + 1])
           /\ \/ m.j = l.j /\ NftsKept(l.groups, m.groups)
              \/ /\ l.j < Len(ns) /\ m.j = l.j + 1
                 /\ \E b : NftAdded(l.groups, m.groups, b, ns[l.j + 1])
           /\ m.i + m.j >= l.i + l.j + 1
<1>1. l.i \in Int /\ l.j \in Int
  BY InputFacts DEF Ranges
<1>2. CASE TokenJoins(ts, ns, l, m)
  BY <1>1, <1>2 DEF TokenJoins, Taken
<1>3. CASE NftJoins(ts, ns, l, m)
  BY <1>1, <1>3 DEF NftJoins, Taken
<1>4. CASE JointNew(ts, ns, l, m)
  BY <1>1, <1>4 DEF JointNew, Taken, Both
<1>5. CASE TokenNew(ts, ns, l, m)
  BY <1>1, <1>5 DEF TokenNew, Taken
<1>6. CASE NftNew(ts, ns, l, m)
  BY <1>1, <1>6 DEF NftNew, Taken
<1> QED
  BY <1>2, <1>3, <1>4, <1>5, <1>6 DEF Step

(* A step takes no more than there is. *)
LEMMA RangesKept ==
    ASSUME NEW ts, NEW ns, Inputs(ts, ns), NEW l, NEW m, Ranges(ts, ns, l),
           Step(ts, ns, l, m)
    PROVE  Ranges(ts, ns, m)
<1>1. m.groups \in Seq(Group)
  BY StepTakes DEF Stays
<1>2. m.i = l.i \/ (l.i < Len(ts) /\ m.i = l.i + 1)
  BY StepTakes
<1>3. m.j = l.j \/ (l.j < Len(ns) /\ m.j = l.j + 1)
  BY StepTakes
<1>4. Len(ts) \in Nat /\ Len(ns) \in Nat
  BY InputFacts
<1> QED
  BY <1>1, <1>2, <1>3, <1>4 DEF Ranges

(* A step leaves every transfer taken in one place. *)
LEMMA PlacesKept ==
    ASSUME NEW ts, NEW ns, Inputs(ts, ns), NEW l, NEW m, Ranges(ts, ns, l),
           Step(ts, ns, l, m),
           TokensPlaced(ts, l.i, l.groups), NftsPlaced(ns, l.j, l.groups)
    PROVE  TokensPlaced(ts, m.i, m.groups) /\ NftsPlaced(ns, m.j, m.groups)
<1>1. Stays(l.groups, m.groups)
  BY StepTakes
<1>2. l.groups \in Seq(Group) /\ l.i \in Nat /\ l.j \in Nat
  BY InputFacts DEF Ranges
<1>3. ts \in Seq(TokenEntry) /\ ns \in Seq(NftEntry)
  BY DEF Inputs
<1>4. TokensPlaced(ts, m.i, m.groups)
  <2>1. CASE m.i = l.i /\ TokensKept(l.groups, m.groups)
    BY <1>1, <1>2, <2>1, TokensPlacedKept
  <2>2. CASE /\ l.i < Len(ts) /\ m.i = l.i + 1
             /\ \E a : TokenAdded(l.groups, m.groups, a, ts[l.i + 1])
    <3>1. PICK a : TokenAdded(l.groups, m.groups, a, ts[l.i + 1])
      BY <2>2
    <3>2. \A x, y \in DOMAIN ts :
            ts[x].token = ts[y].token /\ ts[x].account = ts[y].account => x = y
      BY DEF Inputs
    <3>3. TokensPlaced(ts, l.i + 1, m.groups)
      BY <1>1, <1>2, <1>3, <2>2, <3>1, <3>2, TokensPlacedMore
    <3> QED
      BY <2>2, <3>3
  <2> QED
    BY <2>1, <2>2, StepTakes
<1>5. NftsPlaced(ns, m.j, m.groups)
  <2>1. CASE m.j = l.j /\ NftsKept(l.groups, m.groups)
    BY <1>1, <1>2, <2>1, NftsPlacedKept
  <2>2. CASE /\ l.j < Len(ns) /\ m.j = l.j + 1
             /\ \E b : NftAdded(l.groups, m.groups, b, ns[l.j + 1])
    <3>1. PICK b : NftAdded(l.groups, m.groups, b, ns[l.j + 1])
      BY <2>2
    <3>2. \A x, y \in DOMAIN ns :
            ns[x].token = ns[y].token /\ ns[x].serial = ns[y].serial => x = y
      BY DEF Inputs
    <3>3. NftsPlaced(ns, l.j + 1, m.groups)
      BY <1>1, <1>2, <1>3, <2>2, <3>1, <3>2, NftsPlacedMore
    <3> QED
      BY <2>2, <3>3
  <2> QED
    BY <2>1, <2>2, StepTakes
<1> QED
  BY <1>4, <1>5

(* The groups of a step: the old ones and perhaps a last one. *)
LEMMA StepGroups ==
    ASSUME NEW g \in Seq(Group), NEW h, Stays(g, h),
           Len(h) \in {Len(g), Len(g) + 1}
    PROVE  /\ Len(g) \in Nat /\ Len(h) \in Nat /\ DOMAIN g = 1..Len(g)
           /\ DOMAIN h = 1..Len(h)
           /\ \A k \in DOMAIN h : h[k].token \in Int
           /\ \A k \in DOMAIN g : g[k].token \in Int
           /\ \A k \in DOMAIN h :
                \/ /\ k \in DOMAIN g /\ h[k].token = g[k].token
                   /\ h[k].decimals = g[k].decimals
                \/ k = Len(h) /\ Len(h) = Len(g) + 1
<1>1. h \in Seq(Group)
  BY DEF Stays
<1>2. /\ Len(g) \in Nat /\ DOMAIN g = 1..Len(g)
      /\ \A k \in DOMAIN g : g[k].token \in Int
  BY GroupFields
<1>3. /\ Len(h) \in Nat /\ DOMAIN h = 1..Len(h)
      /\ \A k \in DOMAIN h : h[k].token \in Int
  BY <1>1, GroupFields
<1>4. ASSUME NEW k \in DOMAIN h
      PROVE  \/ k \in DOMAIN g
             \/ k = Len(h) /\ Len(h) = Len(g) + 1
  <2>1. Len(h) = Len(g) \/ Len(h) = Len(g) + 1
    OBVIOUS
  <2>2. k \in 1..Len(h)
    BY <1>3
  <2>3. k \in 1..Len(g) \/ (k = Len(h) /\ Len(h) = Len(g) + 1)
    <3> DEFINE a == Len(g)
               b == Len(h)
    <3>1. a \in Nat /\ b \in Nat /\ (b = a \/ b = a + 1) /\ k \in 1..b
      BY <1>2, <1>3, <2>1, <2>2
    <3> HIDE DEF a, b
    <3>2. k \in 1..a \/ (k = b /\ b = a + 1)
      BY <3>1
    <3> QED
      BY <3>2 DEF a, b
  <2> QED
    BY <1>2, <2>3
<1> QED
  BY <1>2, <1>3, <1>4 DEF Stays

(* The tokens of the groups are behind that of the next transfer, and only  *)
(* the last group can be the one that it joins.                             *)
Ahead(ts, l) ==
  l.i < Len(ts) =>
  \A k \in DOMAIN l.groups :
    /\ l.groups[k].token <= ts[l.i + 1].token
    /\ l.groups[k].token = ts[l.i + 1].token =>
         /\ k = Len(l.groups) /\ l.i >= 1
         /\ ts[l.i].token = ts[l.i + 1].token

(* A token that starts a group comes after those of all groups, as far as   *)
(* the fungible transfers are still to be taken.                            *)
LEMMA Strictly ==
    ASSUME NEW ts, NEW ns, Inputs(ts, ns), NEW l, Ranges(ts, ns, l),
           Ahead(ts, l), l.i < Len(ts), NEW both \in BOOLEAN,
           NoGroup(l.groups, ts[l.i + 1].token, both)
    PROVE  \A k \in DOMAIN l.groups : l.groups[k].token < ts[l.i + 1].token
<1>1. \A k \in DOMAIN l.groups : l.groups[k].token \in Int
  BY GroupFields DEF Ranges
<1>2. l.i + 1 \in DOMAIN ts
  BY InputFacts DEF Ranges
<1>3. ts[l.i + 1].token \in Int
  BY <1>2, InputFacts
<1>4. ASSUME NEW k \in DOMAIN l.groups
      PROVE  l.groups[k].token # ts[l.i + 1].token
  <2>1. SUFFICES ASSUME l.groups[k].token = ts[l.i + 1].token PROVE FALSE
    OBVIOUS
  <2>2. k = Len(l.groups)
    BY <2>1 DEF Ahead
  <2> QED
    BY <2>1, <2>2 DEF NoGroup
<1>5. \A k \in DOMAIN l.groups : l.groups[k].token <= ts[l.i + 1].token
  BY DEF Ahead
<1> QED
  BY <1>1, <1>3, <1>4, <1>5

(* A step keeps the groups no further than the next fungible transfer. *)
LEMMA AheadKept ==
    ASSUME NEW ts, NEW ns, Inputs(ts, ns), NEW l, NEW m, Ranges(ts, ns, l),
           Step(ts, ns, l, m), Ahead(ts, l)
    PROVE  Ahead(ts, m)
<1> DEFINE g == l.groups
           h == m.groups
           t == ts[l.i + 1].token
<1>1. g \in Seq(Group) /\ Stays(g, h) /\ Len(h) \in {Len(g), Len(g) + 1}
  BY StepTakes DEF Ranges
<1>2. /\ Len(g) \in Nat /\ Len(h) \in Nat /\ DOMAIN g = 1..Len(g)
      /\ DOMAIN h = 1..Len(h)
      /\ \A k \in DOMAIN h : h[k].token \in Int
      /\ \A k \in DOMAIN h :
           \/ k \in DOMAIN g /\ h[k].token = g[k].token
           \/ k = Len(h) /\ Len(h) = Len(g) + 1
  BY <1>1, StepGroups
<1>3. l.i \in Nat /\ Len(ts) \in Nat /\ DOMAIN ts = 1..Len(ts)
  BY InputFacts DEF Ranges
<1>4. l.i < Len(ts) => t \in Int
  <2>1. l.i < Len(ts) => l.i + 1 \in DOMAIN ts
    BY <1>3
  <2> QED
    BY <2>1, InputFacts
<1>5. ASSUME l.i + 1 < Len(ts)
      PROVE  /\ ts[(l.i + 1) + 1].token \in Int /\ t <= ts[(l.i + 1) + 1].token
  <2>1. l.i + 1 \in DOMAIN ts /\ (l.i + 1) + 1 \in DOMAIN ts
        /\ l.i + 1 < (l.i + 1) + 1
    BY <1>3, <1>5
  <2> QED
    BY <2>1, InputFacts
<1>6. CASE TokenJoins(ts, ns, l, m)
  <2>1. l.i < Len(ts) /\ m.i = l.i + 1 /\ Len(h) = Len(g)
    BY <1>6 DEF TokenJoins, Taken
  <2>2. SUFFICES ASSUME m.i < Len(ts), NEW k \in DOMAIN h
                 PROVE  /\ h[k].token <= ts[m.i + 1].token
                        /\ h[k].token = ts[m.i + 1].token =>
                             /\ k = Len(h) /\ m.i >= 1
                             /\ ts[m.i].token = ts[m.i + 1].token
    BY DEF Ahead
  <2>3. k \in DOMAIN g /\ h[k].token = g[k].token
    BY <1>2, <2>1
  <2>4. g[k].token <= t /\ (g[k].token = t => k = Len(g))
    BY <2>1, <2>3 DEF Ahead
  <2>5. h[k].token \in Int /\ t \in Int /\ ts[m.i + 1].token \in Int
        /\ t <= ts[m.i + 1].token
    BY <1>2, <1>4, <1>5, <2>1, <2>2
  <2> HIDE DEF t
  <2>6. /\ h[k].token <= ts[m.i + 1].token
        /\ h[k].token = ts[m.i + 1].token =>
             k = Len(h) /\ t = ts[m.i + 1].token
    BY <2>1, <2>3, <2>4, <2>5
  <2>7. m.i >= 1 /\ ts[m.i].token = t
    BY <1>3, <2>1 DEF t
  <2> QED
    BY <2>6, <2>7
<1>7. ASSUME l.i < Len(ts), m.i = l.i + 1, Len(h) = Len(g) + 1,
             h[Len(h)].token = t, NEW both \in BOOLEAN, NoGroup(g, t, both)
      PROVE  Ahead(ts, m)
  <2>2. SUFFICES ASSUME m.i < Len(ts), NEW k \in DOMAIN h
                 PROVE  /\ h[k].token <= ts[m.i + 1].token
                        /\ h[k].token = ts[m.i + 1].token =>
                             /\ k = Len(h) /\ m.i >= 1
                             /\ ts[m.i].token = ts[m.i + 1].token
    BY DEF Ahead
  <2>3. \A x \in DOMAIN g : g[x].token < t
    BY <1>7, Strictly
  <2>4. h[k].token \in Int /\ t \in Int /\ ts[m.i + 1].token \in Int
        /\ t <= ts[m.i + 1].token
    BY <1>2, <1>4, <1>5, <1>7, <2>2
  <2>5. h[k].token < t \/ (k = Len(h) /\ h[k].token = t)
    BY <1>2, <1>7, <2>3
  <2>6. m.i >= 1 /\ ts[m.i].token = t
    BY <1>3, <1>7
  <2> HIDE DEF t
  <2> QED
    BY <2>4, <2>5, <2>6
<1>8. CASE JointNew(ts, ns, l, m)
  <2>1. /\ l.i < Len(ts) /\ m.i = l.i + 1 /\ Len(h) = Len(g) + 1
        /\ h[Len(h)].token = t /\ NoGroup(g, t, TRUE)
    BY <1>8 DEF JointNew, Taken, Both, TokenAdded
  <2> QED
    BY <1>7, <2>1
<1>9. CASE TokenNew(ts, ns, l, m)
  <2>1. /\ l.i < Len(ts) /\ m.i = l.i + 1 /\ Len(h) = Len(g) + 1
        /\ h[Len(h)].token = t /\ NoGroup(g, t, Both(ts, ns, l))
    BY <1>9 DEF TokenNew, Taken, TokenAdded
  <2>2. Both(ts, ns, l) \in BOOLEAN
    BY DEF Both
  <2> QED
    BY <1>7, <2>1, <2>2
<1>10. CASE NftJoins(ts, ns, l, m)
  <2>1. m.i = l.i /\ Len(h) = Len(g)
    BY <1>3, <1>10 DEF NftJoins, Taken
  <2>2. \A k \in DOMAIN h : k \in DOMAIN g /\ h[k].token = g[k].token
    BY <1>2, <2>1
  <2> QED
    BY <2>1, <2>2 DEF Ahead
<1>11. CASE NftNew(ts, ns, l, m)
  <2>0. m.i = l.i + 0 /\ h[Len(h)].token = ns[l.j + 1].token
    BY <1>11 DEF NftNew, Taken, NftAdded
  <2>a. m.i = l.i
    BY <1>3, <2>0
  <2>1. /\ m.i = l.i /\ Len(h) = Len(g) + 1 /\ h[Len(h)].token = ns[l.j + 1].token
        /\ l.i < Len(ts) => ns[l.j + 1].token < t /\ NoGroup(g, t, TRUE)
    BY <1>11, <2>0, <2>a, Zenon DEF NftNew
  <2>2. SUFFICES ASSUME l.i < Len(ts), NEW k \in DOMAIN h
                 PROVE  h[k].token < t
    <3>1. l.i < Len(ts) => \A k \in DOMAIN h : h[k].token < t
      BY <2>2
    <3> HIDE DEF t
    <3>2. l.i < Len(ts) => \A k \in DOMAIN h : h[k].token <= t /\ h[k].token # t
      BY <1>2, <1>4, <3>1
    <3> QED
      BY <2>1, <3>2 DEF Ahead, t
  <2>3. \A x \in DOMAIN g : g[x].token < t
    BY <2>1, <2>2, Strictly
  <2> QED
    BY <1>2, <2>1, <2>2, <2>3
<1> QED
  BY <1>6, <1>8, <1>9, <1>10, <1>11 DEF Step

(* While both lists last, a last group without NFTs is the furthest one, and *)
(* before the next NFT.                                                      *)
Behind(ts, ns, l) ==
  LET g == l.groups IN
  (Both(ts, ns, l) /\ Len(g) \in DOMAIN g /\ g[Len(g)].nfts = <<>>) =>
    /\ g[Len(g)].token < ns[l.j + 1].token
    /\ \A k \in DOMAIN g : g[k].token <= g[Len(g)].token

(* A group that got a transfer is not without. *)
LEMMA AddedSome ==
    ASSUME NEW g \in Seq(Group), NEW h, NEW a, NEW e, Stays(g, h)
    PROVE  /\ e \in TokenEntry /\ TokenAdded(g, h, a, e) => h[a].transfers # <<>>
           /\ e \in NftEntry /\ NftAdded(g, h, a, e) => h[a].nfts # <<>>
<1>1. DOMAIN << >> = {}
  OBVIOUS
<1>2. ASSUME e \in TokenEntry, TokenAdded(g, h, a, e)
      PROVE  DOMAIN h[a].transfers # {}
  BY <1>2, TokenPlacesAdded
<1>3. ASSUME e \in NftEntry, NftAdded(g, h, a, e)
      PROVE  DOMAIN h[a].nfts # {}
  BY <1>3, NftPlacesAdded
<1> QED
  BY <1>1, <1>2, <1>3

(* What is taken next. *)
LEMMA NextEntries ==
    ASSUME NEW ts, NEW ns, Inputs(ts, ns), NEW l, Ranges(ts, ns, l)
    PROVE  /\ l.i \in Nat /\ l.j \in Nat
           /\ l.i < Len(ts) => /\ l.i + 1 \in DOMAIN ts
                               /\ ts[l.i + 1] \in TokenEntry
                               /\ ts[l.i + 1].token \in Int
           /\ l.j < Len(ns) => /\ l.j + 1 \in DOMAIN ns
                               /\ ns[l.j + 1] \in NftEntry
                               /\ ns[l.j + 1].token \in Int
<1>1. /\ l.i \in Nat /\ l.j \in Nat
      /\ Len(ts) \in Nat /\ DOMAIN ts = 1..Len(ts)
      /\ Len(ns) \in Nat /\ DOMAIN ns = 1..Len(ns)
  BY InputFacts DEF Ranges
<1>2. /\ l.i < Len(ts) => l.i + 1 \in DOMAIN ts
      /\ l.j < Len(ns) => l.j + 1 \in DOMAIN ns
  BY <1>1
<1> QED
  BY <1>1, <1>2, InputFacts

(* A step keeps what is said of the tokens behind. *)
LEMMA BehindKept ==
    ASSUME NEW ts, NEW ns, Inputs(ts, ns), NEW l, NEW m, Ranges(ts, ns, l),
           Step(ts, ns, l, m), Ahead(ts, l), Behind(ts, ns, l)
    PROVE  Behind(ts, ns, m)
<1> DEFINE g == l.groups
           h == m.groups
<1>1. g \in Seq(Group) /\ Stays(g, h) /\ Len(h) \in {Len(g), Len(g) + 1}
  BY StepTakes DEF Ranges
<1>2. /\ Len(g) \in Nat /\ Len(h) \in Nat /\ DOMAIN g = 1..Len(g)
      /\ DOMAIN h = 1..Len(h)
      /\ \A k \in DOMAIN h : h[k].token \in Int
      /\ \A k \in DOMAIN h :
           \/ k \in DOMAIN g /\ h[k].token = g[k].token
           \/ k = Len(h) /\ Len(h) = Len(g) + 1
  BY <1>1, StepGroups
<1>3. /\ l.i \in Nat /\ l.j \in Nat
      /\ l.i < Len(ts) => /\ ts[l.i + 1] \in TokenEntry
                          /\ ts[l.i + 1].token \in Int
      /\ l.j < Len(ns) => /\ ns[l.j + 1] \in NftEntry
                          /\ ns[l.j + 1].token \in Int
  BY NextEntries
<1>4. Len(ts) \in Nat
  BY InputFacts
<1>5. CASE TokenJoins(ts, ns, l, m)
  <2>1. /\ m.i = l.i + 1 /\ m.j = l.j + 0 /\ Len(h) = Len(g) /\ NftsKept(g, h)
    BY <1>5 DEF TokenJoins, Taken
  <2>2. m.j = l.j
    BY <1>3, <2>1
  <2>3. Both(ts, ns, m) => Both(ts, ns, l)
    BY <1>3, <1>4, <2>1, <2>2 DEF Both
  <2>4. \A k \in DOMAIN h : k \in DOMAIN g /\ h[k].token = g[k].token
    BY <1>2, <2>1
  <2>5. \A k \in DOMAIN h : h[k].nfts = g[k].nfts
    BY <2>1, <2>4 DEF NftsKept, NftsAt
  <2>6. DOMAIN h = DOMAIN g
    BY <1>2, <2>1
  <2> QED
    BY <2>1, <2>2, <2>3, <2>4, <2>5, <2>6 DEF Behind
<1>6. ASSUME l.j < Len(ns), NftAdded(g, h, Len(h), ns[l.j + 1])
      PROVE  Behind(ts, ns, m)
  <2>1. h[Len(h)].nfts # <<>>
    BY <1>1, <1>3, <1>6, AddedSome
  <2> QED
    BY <2>1 DEF Behind
<1>7. CASE NftJoins(ts, ns, l, m)
  <2>1. /\ l.j < Len(ns) /\ m.i = l.i + 0 /\ m.j = l.j + 1 /\ Len(h) = Len(g)
    BY <1>7 DEF NftJoins, Taken
  <2>2. PICK b \in DOMAIN g : /\ Both(ts, ns, l) => b = Len(g)
                              /\ NftAdded(g, h, b, ns[l.j + 1])
    BY <1>7 DEF NftJoins
  <2>3. m.i = l.i
    BY <1>3, <2>1
  <2>4. CASE Both(ts, ns, l)
    BY <1>6, <2>1, <2>2, <2>4
  <2>5. CASE ~ Both(ts, ns, l)
    BY <2>1, <2>3, <2>5 DEF Both, Behind
  <2> QED
    BY <2>4, <2>5
<1>8. CASE JointNew(ts, ns, l, m)
  <2>1. l.j < Len(ns) /\ NftAdded(g, h, Len(h), ns[l.j + 1])
    BY <1>8 DEF JointNew, Both
  <2> QED
    BY <1>6, <2>1
<1>9. CASE NftNew(ts, ns, l, m)
  <2>1. l.j < Len(ns) /\ NftAdded(g, h, Len(h), ns[l.j + 1])
    BY <1>9 DEF NftNew
  <2> QED
    BY <1>6, <2>1
<1>10. CASE TokenNew(ts, ns, l, m)
  <2> DEFINE t == ts[l.i + 1].token
  <2>1. /\ l.i < Len(ts) /\ m.j = l.j + 0 /\ Len(h) = Len(g) + 1
        /\ l.j < Len(ns) => t < ns[l.j + 1].token
        /\ NoGroup(g, t, Both(ts, ns, l)) /\ h[Len(h)].token = t
    BY <1>10 DEF TokenNew, Taken, TokenAdded
  <2>2. m.j = l.j
    BY <1>3, <2>1
  <2>3. \A k \in DOMAIN g : g[k].token < t
    <3>1. Both(ts, ns, l) \in BOOLEAN
      BY DEF Both
    <3> QED
      BY <2>1, <3>1, Strictly
  <2>4. t \in Int
    BY <1>3, <2>1
  <2> HIDE DEF t
  <2>5. \A k \in DOMAIN h : h[k].token <= h[Len(h)].token
    BY <1>2, <2>1, <2>3, <2>4
  <2>6. l.j < Len(ns) => h[Len(h)].token < ns[m.j + 1].token
    BY <2>1, <2>2
  <2> QED
    BY <2>2, <2>5, <2>6 DEF Behind, Both
<1> QED
  BY <1>5, <1>7, <1>8, <1>9, <1>10 DEF Step

(* Two groups of one token come with three tokens. *)
Scattered(ts, ns, g) ==
  (\E k, k2 \in DOMAIN g : k # k2 /\ g[k].token = g[k2].token) =>
  \E x \in DOMAIN ts, y, z \in DOMAIN ns :
    /\ ts[x].token # ns[y].token /\ ts[x].token # ns[z].token
    /\ ns[y].token # ns[z].token

(* A step makes a second group of a token only among NFTs of other tokens. *)
LEMMA ScatteredKept ==
    ASSUME NEW ts, NEW ns, Inputs(ts, ns), NEW l, NEW m, Ranges(ts, ns, l),
           Step(ts, ns, l, m), Ahead(ts, l), Behind(ts, ns, l),
           NftsPlaced(ns, l.j, l.groups), Scattered(ts, ns, l.groups)
    PROVE  Scattered(ts, ns, m.groups)
<1> DEFINE g == l.groups
           h == m.groups
           Three == \E x \in DOMAIN ts, y, z \in DOMAIN ns :
                      /\ ts[x].token # ns[y].token /\ ts[x].token # ns[z].token
                      /\ ns[y].token # ns[z].token
<1>1. g \in Seq(Group) /\ Stays(g, h) /\ Len(h) \in {Len(g), Len(g) + 1}
  BY StepTakes DEF Ranges
<1>2. /\ Len(g) \in Nat /\ Len(h) \in Nat /\ DOMAIN g = 1..Len(g)
      /\ DOMAIN h = 1..Len(h)
      /\ \A k \in DOMAIN h : h[k].token \in Int
      /\ \A k \in DOMAIN g : g[k].token \in Int
      /\ \A k \in DOMAIN h :
           \/ k \in DOMAIN g /\ h[k].token = g[k].token
           \/ k = Len(h) /\ Len(h) = Len(g) + 1
  BY <1>1, StepGroups
<1>3. /\ l.i \in Nat /\ l.j \in Nat
      /\ l.i < Len(ts) => /\ l.i + 1 \in DOMAIN ts
                          /\ ts[l.i + 1] \in TokenEntry
                          /\ ts[l.i + 1].token \in Int
      /\ l.j < Len(ns) => /\ l.j + 1 \in DOMAIN ns
                          /\ ns[l.j + 1] \in NftEntry
                          /\ ns[l.j + 1].token \in Int
  BY NextEntries
<1>4. (\E k, k2 \in DOMAIN g : k # k2 /\ g[k].token = g[k2].token) => Three
  BY DEF Scattered
<1>5. SUFFICES ASSUME NEW k \in DOMAIN g, Len(h) = Len(g) + 1,
                      g[k].token = h[Len(h)].token
               PROVE  Three
  <2>1. SUFFICES ASSUME NEW k \in DOMAIN h, NEW k2 \in DOMAIN h, k # k2,
                        h[k].token = h[k2].token
                 PROVE  Three
    BY DEF Scattered
  <2> HIDE DEF Three
  <2>2. CASE k \in DOMAIN g /\ k2 \in DOMAIN g
    <3>1. g[k].token = g[k2].token
      BY <1>1, <2>1, <2>2 DEF Stays
    <3> QED
      BY <1>4, <2>1, <2>2, <3>1
  <2>3. CASE k \in DOMAIN g /\ k2 = Len(h) /\ Len(h) = Len(g) + 1
    <3>1. g[k].token = h[Len(h)].token
      BY <1>1, <2>1, <2>3 DEF Stays
    <3> QED
      BY <1>5, <2>3, <3>1
  <2>4. CASE k2 \in DOMAIN g /\ k = Len(h) /\ Len(h) = Len(g) + 1
    <3>1. g[k2].token = h[Len(h)].token
      BY <1>1, <2>1, <2>4 DEF Stays
    <3> QED
      BY <1>5, <2>4, <3>1
  <2> QED
    BY <1>2, <2>1, <2>2, <2>3, <2>4
<1>6. Len(g) + 1 # Len(g)
  BY <1>2
<1>7. ASSUME l.i < Len(ts), NEW both \in BOOLEAN,
             NoGroup(g, ts[l.i + 1].token, both),
             h[Len(h)].token = ts[l.i + 1].token
      PROVE  FALSE
  <2>1. \A x \in DOMAIN g : g[x].token < ts[l.i + 1].token
    BY <1>7, Strictly
  <2> QED
    BY <1>2, <1>3, <1>5, <1>7, <2>1
<1>8. CASE TokenJoins(ts, ns, l, m)
  BY <1>5, <1>6, <1>8 DEF TokenJoins
<1>9. CASE NftJoins(ts, ns, l, m)
  BY <1>5, <1>6, <1>9 DEF NftJoins
<1>10. CASE JointNew(ts, ns, l, m)
  <2>1. /\ l.i < Len(ts) /\ NoGroup(g, ts[l.i + 1].token, TRUE)
        /\ h[Len(h)].token = ts[l.i + 1].token
    BY <1>10 DEF JointNew, Both, TokenAdded
  <2> QED
    BY <1>7, <2>1
<1>11. CASE TokenNew(ts, ns, l, m)
  <2>1. /\ l.i < Len(ts) /\ NoGroup(g, ts[l.i + 1].token, Both(ts, ns, l))
        /\ h[Len(h)].token = ts[l.i + 1].token
    BY <1>11 DEF TokenNew, TokenAdded
  <2>2. Both(ts, ns, l) \in BOOLEAN
    BY DEF Both
  <2> QED
    BY <1>7, <2>1, <2>2
<1>12. CASE NftNew(ts, ns, l, m)
  <2> DEFINE t == ts[l.i + 1].token
             n == ns[l.j + 1].token
             last == g[Len(g)]
  <2>1. /\ l.j < Len(ns) /\ h[Len(h)].token = n
        /\ l.i < Len(ts) => n < t /\ NoGroup(g, t, TRUE)
        /\ NoGroup(g, n, Both(ts, ns, l))
    BY <1>12 DEF NftNew, NftAdded
  <2>2. Both(ts, ns, l) /\ Len(g) \in DOMAIN g /\ last.token # n
    BY <1>5, <2>1 DEF NoGroup
  <2>3. l.i < Len(ts)
    BY <2>2 DEF Both
  <2>4. last.token < t /\ n < t /\ t \in Int /\ n \in Int /\ last.token \in Int
    <3>1. \A x \in DOMAIN g : g[x].token < t
      BY <2>1, <2>3, Strictly
    <3> QED
      BY <1>2, <1>3, <2>1, <2>2, <2>3, <3>1
  <2>5. last.nfts # <<>>
    <3>1. SUFFICES ASSUME last.nfts = <<>> PROVE FALSE
      OBVIOUS
    <3>2. last.token < n /\ g[k].token <= last.token
      BY <2>2, <3>1 DEF Behind
    <3>3. g[k].token = n /\ g[k].token \in Int
      BY <1>2, <1>5, <2>1
    <3> HIDE DEF last, n
    <3> QED
      BY <2>4, <3>2, <3>3
  <2>6. PICK y \in 1..l.j : ns[y].token = last.token
    <3>1. PICK o : o \in DOMAIN last.nfts
      <4>1. last.nfts \in NftProtos
        BY <1>1, <2>2, GroupFields
      <4> HIDE DEF last
      <4>2. Len(last.nfts) \in Nat /\ DOMAIN last.nfts = 1..Len(last.nfts)
            /\ Len(last.nfts) # 0
        BY <2>5, <4>1 DEF NftProtos
      <4>3. 1 \in DOMAIN last.nfts
        BY <4>2
      <4> QED
        BY <4>3
    <3>2. PICK y \in 1..l.j : NftAt(g, Len(g), o, ns[y])
      BY <2>2, <3>1 DEF NftsPlaced
    <3> QED
      BY <3>2 DEF NftAt
  <2>7. y \in DOMAIN ns
    BY <1>3, <2>1, InputFacts
  <2>8. l.i + 1 \in DOMAIN ts /\ l.j + 1 \in DOMAIN ns
    BY <1>3, <2>1, <2>3
  <2>9. t # ns[y].token /\ t # n /\ ns[y].token # n
    <3> HIDE DEF t, n, last
    <3> QED
      BY <2>2, <2>4, <2>6
  <2> QED
    BY <2>7, <2>8, <2>9
<1> HIDE DEF Three
<1> QED
  BY <1>8, <1>9, <1>10, <1>11, <1>12 DEF Step

(* A group has the decimals of the first transfer of its token. *)
FirstOf(ts, token, f) ==
  /\ f \in DOMAIN ts /\ ts[f].token = token
  /\ \A y \in DOMAIN ts : ts[y].token = token => f <= y
DecimalsOf(ts, g) ==
  \A k \in DOMAIN g :
    /\ g[k].transfers = <<>> => g[k].decimals = Null
    /\ g[k].transfers # <<>> =>
         \E f : FirstOf(ts, g[k].token, f) /\ g[k].decimals = ts[f].decimals

(* A step keeps the decimals those of the first transfer of the token. *)
LEMMA DecimalsKept ==
    ASSUME NEW ts, NEW ns, Inputs(ts, ns), NEW l, NEW m, Ranges(ts, ns, l),
           Step(ts, ns, l, m), Ahead(ts, l),
           TokensPlaced(ts, l.i, l.groups), DecimalsOf(ts, l.groups)
    PROVE  DecimalsOf(ts, m.groups)
<1> DEFINE g == l.groups
           h == m.groups
           t == ts[l.i + 1]
           Right(k) ==
             /\ h[k].transfers = <<>> => h[k].decimals = Null
             /\ h[k].transfers # <<>> =>
                  \E f : /\ FirstOf(ts, h[k].token, f)
                         /\ h[k].decimals = ts[f].decimals
<1>1. g \in Seq(Group) /\ Stays(g, h) /\ Len(h) \in {Len(g), Len(g) + 1}
  BY StepTakes DEF Ranges
<1>2. /\ Len(g) \in Nat /\ Len(h) \in Nat /\ DOMAIN g = 1..Len(g)
      /\ DOMAIN h = 1..Len(h)
      /\ \A k \in DOMAIN h : h[k].token \in Int
      /\ \A k \in DOMAIN h :
           \/ /\ k \in DOMAIN g /\ h[k].token = g[k].token
              /\ h[k].decimals = g[k].decimals
           \/ k = Len(h) /\ Len(h) = Len(g) + 1
  BY <1>1, StepGroups
<1>3. /\ l.i \in Nat /\ l.j \in Nat
      /\ l.i < Len(ts) => /\ l.i + 1 \in DOMAIN ts /\ t \in TokenEntry
                          /\ t.token \in Int
  BY NextEntries
<1>4. Len(ts) \in Nat /\ DOMAIN ts = 1..Len(ts)
  BY InputFacts
<1>5. ASSUME NEW k \in DOMAIN g, h[k].transfers = g[k].transfers
      PROVE  Right(k)
  BY <1>1, <1>5 DEF Stays, DecimalsOf
<1>6. ASSUME l.i < Len(ts), NEW both \in BOOLEAN, NoGroup(g, t.token, both),
             TokenAdded(g, h, Len(h), t), h[Len(h)].decimals = t.decimals
      PROVE  Right(Len(h))
  <2>1. \A x \in DOMAIN g : g[x].token < t.token
    BY <1>6, Strictly
  <2>2. h[Len(h)].token = t.token
    BY <1>6 DEF TokenAdded
  <2>3. h[Len(h)].transfers # <<>>
    BY <1>1, <1>3, <1>6, AddedSome
  <2>4. ASSUME NEW y \in DOMAIN ts, ts[y].token = t.token
        PROVE  l.i + 1 <= y
    <3>1. SUFFICES ASSUME ~ (l.i + 1 <= y) PROVE FALSE
      OBVIOUS
    <3>2. y \in 1..l.i
      BY <1>3, <1>4, <3>1
    <3>3. PICK k, o : TokenAt(g, k, o, ts[y])
      BY <3>2 DEF TokensPlaced
    <3>4. k \in DOMAIN g /\ g[k].token = t.token
      BY <2>4, <3>3 DEF TokenAt
    <3>5. g[k].token < t.token /\ t.token \in Int
      BY <1>3, <1>6, <2>1, <3>4
    <3> HIDE DEF t
    <3> QED
      BY <3>4, <3>5
  <2>5. FirstOf(ts, h[Len(h)].token, l.i + 1)
    BY <1>3, <1>6, <2>2, <2>4 DEF FirstOf
  <2> QED
    BY <1>6, <2>3, <2>5
<1>7. CASE TokenJoins(ts, ns, l, m)
  <2>1. l.i < Len(ts) /\ Len(h) = Len(g)
    BY <1>7 DEF TokenJoins
  <2>2. PICK a \in DOMAIN g : g[a].token = t.token /\ TokenAdded(g, h, a, t)
    BY <1>7 DEF TokenJoins
  <2>3. a = Len(g) /\ l.i >= 1 /\ ts[l.i].token = t.token
    BY <2>1, <2>2 DEF Ahead
  <2>4. PICK k, o : TokenAt(g, k, o, ts[l.i])
    <3>1. l.i \in 1..l.i
      BY <1>3, <2>3
    <3> QED
      BY <3>1 DEF TokensPlaced
  <2>5. k \in DOMAIN g /\ g[k].token = t.token /\ o \in DOMAIN g[k].transfers
    BY <2>3, <2>4 DEF TokenAt
  <2>6. k = a
    BY <2>1, <2>3, <2>5 DEF Ahead
  <2>7. g[a].transfers # <<>>
    <3>1. DOMAIN << >> = {}
      OBVIOUS
    <3> QED
      BY <2>5, <2>6, <3>1
  <2>8. Right(a)
    <3>1. h[a].transfers # <<>>
      BY <1>1, <1>3, <2>1, <2>2, AddedSome
    <3>2. h[a].token = g[a].token /\ h[a].decimals = g[a].decimals
      BY <1>1, <2>2 DEF Stays
    <3> QED
      BY <2>2, <2>7, <3>1, <3>2 DEF DecimalsOf
  <2>9. ASSUME NEW k2 \in DOMAIN h, k2 # a
        PROVE  Right(k2)
    <3>1. k2 \in DOMAIN g
      BY <1>2, <2>1
    <3>2. h[k2].transfers = g[k2].transfers
      BY <2>2, <2>9, <3>1 DEF TokenAdded, TransfersAt
    <3> QED
      BY <1>5, <3>1, <3>2
  <2> QED
    BY <2>8, <2>9 DEF DecimalsOf
<1>8. ASSUME NEW k \in DOMAIN h, TokensKept(g, h), k \in DOMAIN g
      PROVE  Right(k)
  <2>1. h[k].transfers = g[k].transfers
    BY <1>8 DEF TokensKept, TransfersAt
  <2> QED
    BY <1>5, <1>8, <2>1
<1>9. ASSUME NEW k \in DOMAIN h, TokenAdded(g, h, Len(h), t), k \in DOMAIN g,
             Len(h) = Len(g) + 1
      PROVE  Right(k)
  <2>1. k # Len(h)
    BY <1>2, <1>9
  <2>2. h[k].transfers = g[k].transfers
    BY <1>9, <2>1 DEF TokenAdded, TransfersAt
  <2> QED
    BY <1>5, <1>9, <2>2
<1>10. CASE NftJoins(ts, ns, l, m)
  <2>1. TokensKept(g, h) /\ Len(h) = Len(g)
    BY <1>10 DEF NftJoins
  <2>2. \A k \in DOMAIN h : k \in DOMAIN g
    BY <1>2, <2>1
  <2> QED
    BY <1>8, <2>1, <2>2 DEF DecimalsOf
<1>11. CASE NftNew(ts, ns, l, m)
  <2>1. /\ TokensKept(g, h) /\ Len(h) = Len(g) + 1
        /\ h[Len(h)].decimals = Null
    BY <1>11 DEF NftNew
  <2>2. Len(h) \notin DOMAIN g /\ Len(h) \in DOMAIN h
    BY <1>2, <2>1
  <2>3. h[Len(h)].transfers = <<>>
    BY <2>1, <2>2 DEF TokensKept, TransfersAt
  <2>4. Right(Len(h))
    BY <2>1, <2>3
  <2>5. \A k \in DOMAIN h : Right(k)
    <3> HIDE DEF Right
    <3> QED
      BY <1>2, <1>8, <2>1, <2>4
  <2> QED
    BY <2>5 DEF DecimalsOf
<1>12. CASE JointNew(ts, ns, l, m)
  <2>1. /\ l.i < Len(ts) /\ NoGroup(g, t.token, TRUE)
        /\ TokenAdded(g, h, Len(h), t) /\ h[Len(h)].decimals = t.decimals
        /\ Len(h) = Len(g) + 1
    BY <1>12 DEF JointNew, Both
  <2>2. Right(Len(h))
    BY <1>6, <2>1
  <2>3. \A k \in DOMAIN h : Right(k)
    <3> HIDE DEF Right
    <3> QED
      BY <1>2, <1>9, <2>1, <2>2
  <2> QED
    BY <2>3 DEF DecimalsOf
<1>13. CASE TokenNew(ts, ns, l, m)
  <2>1. /\ l.i < Len(ts) /\ NoGroup(g, t.token, Both(ts, ns, l))
        /\ TokenAdded(g, h, Len(h), t) /\ h[Len(h)].decimals = t.decimals
        /\ Len(h) = Len(g) + 1
    BY <1>13 DEF TokenNew
  <2>2. Both(ts, ns, l) \in BOOLEAN
    BY DEF Both
  <2>3. Right(Len(h))
    BY <1>6, <2>1, <2>2
  <2>4. \A k \in DOMAIN h : Right(k)
    <3> HIDE DEF Right
    <3> QED
      BY <1>2, <1>9, <2>1, <2>3
  <2> QED
    BY <2>4 DEF DecimalsOf
<1> QED
  BY <1>7, <1>10, <1>11, <1>12, <1>13 DEF Step

(* What is so at every iteration. *)
LoopState(ts, ns, l) ==
  /\ Ranges(ts, ns, l)
  /\ TokensPlaced(ts, l.i, l.groups) /\ NftsPlaced(ns, l.j, l.groups)
  /\ Ahead(ts, l) /\ Behind(ts, ns, l)
  /\ Scattered(ts, ns, l.groups) /\ DecimalsOf(ts, l.groups)
AtEnd(ts, ns, l) == l.i = Len(ts) /\ l.j = Len(ns)

(* What the loop leaves is a recursive function of the number of steps. *)
LEMMA LoopSteps ==
    ASSUME NEW ts, NEW ns, Len(ts) \in Nat, Len(ns) \in Nat
    PROVE  /\ Loop(ts, ns)[0] = [i |-> 0, j |-> 0, groups |-> <<>>]
           /\ \A k \in 1..(Len(ts) + Len(ns)) :
                Loop(ts, ns)[k] = GroupStep(ts, ns, Loop(ts, ns)[k - 1])
<1> DEFINE n == Len(ts) + Len(ns)
           First == [i |-> 0, j |-> 0, groups |-> <<>>]
           Next1(l) == GroupStep(ts, ns, l)
           Upto(g, m) == g = [k \in 0..m |-> IF k = 0 THEN First
                                             ELSE Next1(g[k - 1])]
           Stuck == {m \in Nat : ~ \E g : Upto(g, m)}
<1> HIDE DEF Next1, First
<1>1. Stuck = {}
  <2>1. SUFFICES ASSUME Stuck # {} PROVE FALSE
    OBVIOUS
  <2>2. PICK m \in Stuck : \A y \in Stuck : m <= y
    BY <2>1, LeastNat
  <2>3. CASE m = 0
    <3> DEFINE g == [i \in 0..0 |-> First]
    <3>1. Upto(g, 0)
      OBVIOUS
    <3> QED
      BY <2>2, <2>3, <3>1
  <2>4. CASE m # 0
    <3>1. m - 1 \in Nat /\ m - 1 \notin Stuck
      <4> HIDE DEF Upto
      <4>1. m \in Nat /\ m - 1 \in Nat /\ ~ (m <= m - 1)
        BY <2>4
      <4> HIDE DEF Stuck
      <4> QED
        BY <2>2, <4>1
    <3>2. PICK g : Upto(g, m - 1)
      BY <3>1
    <3> DEFINE h == [i \in 0..m |-> IF i = m THEN Next1(g[m - 1]) ELSE g[i]]
    <3>3. ASSUME NEW i \in 0..m
          PROVE  h[i] = IF i = 0 THEN First ELSE Next1(h[i - 1])
      <4>1. CASE i = 0
        BY <2>2, <2>4, <3>2, <4>1
      <4>2. CASE i = m
        <5>1. h[m - 1] = g[m - 1]
          BY <3>1
        <5> QED
          BY <2>2, <2>4, <4>2, <5>1
      <4>3. CASE i # 0 /\ i # m
        <5>1. i \in 0..(m - 1) /\ i - 1 \in 0..m /\ i - 1 # m
          BY <2>2, <4>3
        <5>2. h[i] = g[i] /\ h[i - 1] = g[i - 1]
          BY <4>3, <5>1
        <5>3. g[i] = Next1(g[i - 1])
          BY <3>2, <4>3, <5>1
        <5> QED
          BY <4>3, <5>2, <5>3
      <4> QED
        BY <4>1, <4>2, <4>3
    <3>4. Upto(h, m)
      BY <3>3
    <3> QED
      BY <2>2, <3>4
  <2> QED
    BY <2>3, <2>4
<1>2. \E g : Upto(g, n)
  <2>1. n \in Nat
    OBVIOUS
  <2> HIDE DEF n, Upto
  <2>2. n \notin Stuck
    BY <1>1, Zenon
  <2> QED
    BY <2>1, <2>2
<1> DEFINE f == CHOOSE g : Upto(g, n)
<1>3. Upto(f, n)
  <2> HIDE DEF Upto
  <2> QED
    BY <1>2
<1>4. Loop(ts, ns) = f
  BY DEF Loop, Next1, First
<1> HIDE DEF f
<1>5. n \in Nat
  OBVIOUS
<1> HIDE DEF n
<1>6. f[0] = First /\ \A k \in 1..n : f[k] = Next1(f[k - 1])
  BY <1>3, <1>5
<1> QED
  BY <1>4, <1>6 DEF n, First, Next1

(* What is so at an iteration is so at the next. *)
LEMMA LoopStateStep ==
    ASSUME NEW ts, NEW ns, Inputs(ts, ns), NEW l, LoopState(ts, ns, l)
    PROVE  LET m == GroupStep(ts, ns, l) IN
           /\ LoopState(ts, ns, m)
           /\ AtEnd(ts, ns, l) => m = l
           /\ ~ AtEnd(ts, ns, l) => /\ Step(ts, ns, l, m)
                                    /\ m.i + m.j >= l.i + l.j + 1
<1> DEFINE m == GroupStep(ts, ns, l)
<1>1. ts \in Seq(TokenEntry) /\ ns \in Seq(NftEntry) /\ Ranges(ts, ns, l)
  BY DEF Inputs, LoopState
<1>2. CASE AtEnd(ts, ns, l)
  <2>1. m = l
    <3>1. l.i = Len(ts) /\ l.j = Len(ns)
      BY <1>2 DEF AtEnd
    <3>2. ~ (l.i < Len(ts)) /\ ~ (l.j < Len(ns))
      BY <1>1, <3>1
    <3> QED
      BY <3>1, <3>2, Zenon DEF GroupStep
  <2> QED
    BY <1>2, <2>1
<1>3. CASE ~ AtEnd(ts, ns, l)
  <2>1. l.i < Len(ts) \/ l.j < Len(ns)
    BY <1>1, <1>3, InputFacts DEF AtEnd, Ranges
  <2>2. Step(ts, ns, l, m)
    BY <1>1, <2>1, StepEffect DEF Step
  <2> HIDE DEF m
  <2>3. Ranges(ts, ns, m)
    BY <1>1, <2>2, RangesKept
  <2>4. TokensPlaced(ts, m.i, m.groups) /\ NftsPlaced(ns, m.j, m.groups)
    BY <1>1, <2>2, PlacesKept DEF LoopState
  <2>5. Ahead(ts, m)
    BY <1>1, <2>2, AheadKept DEF LoopState
  <2>6. Behind(ts, ns, m)
    BY <1>1, <2>2, BehindKept DEF LoopState
  <2>7. Scattered(ts, ns, m.groups)
    BY <1>1, <2>2, ScatteredKept DEF LoopState
  <2>8. DecimalsOf(ts, m.groups)
    BY <1>1, <2>2, DecimalsKept DEF LoopState
  <2>9. LoopState(ts, ns, m)
    BY <2>3, <2>4, <2>5, <2>6, <2>7, <2>8 DEF LoopState
  <2>10. m.i + m.j >= l.i + l.j + 1
    BY <1>1, <2>2, StepTakes
  <2> QED
    BY <1>3, <2>2, <2>9, <2>10 DEF m
<1> QED
  BY <1>2, <1>3

(* What is so at every iteration; each takes a transfer until none is left. *)
LEMMA LoopStates ==
    ASSUME NEW ts, NEW ns, Inputs(ts, ns)
    PROVE  \A k \in 0..(Len(ts) + Len(ns)) :
             LET l == Loop(ts, ns)[k] IN
             LoopState(ts, ns, l) /\ (AtEnd(ts, ns, l) \/ k <= l.i + l.j)
<1> DEFINE n == Len(ts) + Len(ns)
           f == Loop(ts, ns)
           Ok(k) == /\ LoopState(ts, ns, f[k])
                    /\ AtEnd(ts, ns, f[k]) \/ k <= f[k].i + f[k].j
           Wrong == {k \in 0..n : ~ Ok(k)}
<1>1. Len(ts) \in Nat /\ Len(ns) \in Nat /\ n \in Nat
  BY InputFacts
<1>2. /\ f[0] = [i |-> 0, j |-> 0, groups |-> <<>>]
      /\ \A k \in 1..n : f[k] = GroupStep(ts, ns, f[k - 1])
  BY <1>1, LoopSteps
<1> HIDE DEF n, f
<1>3. Ok(0)
  <2>1. f[0].i = 0 /\ f[0].j = 0 /\ f[0].groups = <<>>
    BY <1>2
  <2>2. DOMAIN << >> = {} /\ <<>> \in Seq(Group) /\ 1..0 = {}
    OBVIOUS
  <2> HIDE DEF Ok
  <2>3. Ranges(ts, ns, f[0])
    BY <1>1, <2>1, <2>2 DEF Ranges
  <2>4. TokensPlaced(ts, 0, <<>>) /\ NftsPlaced(ns, 0, <<>>)
    BY <2>2 DEF TokensPlaced, NftsPlaced, OneTokenPlace, OneNftPlace
  <2>5. Ahead(ts, f[0]) /\ Behind(ts, ns, f[0])
    BY <2>1, <2>2 DEF Ahead, Behind
  <2>6. Scattered(ts, ns, <<>>) /\ DecimalsOf(ts, <<>>)
    BY <2>2 DEF Scattered, DecimalsOf
  <2>7. LoopState(ts, ns, f[0])
    BY <2>1, <2>3, <2>4, <2>5, <2>6 DEF LoopState
  <2> QED
    BY <2>1, <2>7 DEF Ok
<1>4. ASSUME NEW k \in 1..n, Ok(k - 1)
      PROVE  Ok(k)
  <2> DEFINE l == f[k - 1]
             m == f[k]
  <2>1. m = GroupStep(ts, ns, l)
    BY <1>2
  <2>2. LoopState(ts, ns, l) /\ (AtEnd(ts, ns, l) \/ k - 1 <= l.i + l.j)
    BY <1>4
  <2> HIDE DEF l, m
  <2>3. /\ LoopState(ts, ns, m)
        /\ AtEnd(ts, ns, l) => m = l
        /\ ~ AtEnd(ts, ns, l) => m.i + m.j >= l.i + l.j + 1
    BY <2>1, <2>2, LoopStateStep
  <2>4. CASE AtEnd(ts, ns, l)
    BY <2>3, <2>4 DEF m
  <2>5. CASE ~ AtEnd(ts, ns, l)
    <3>1. l.i \in Nat /\ l.j \in Nat /\ m.i \in Nat /\ m.j \in Nat
      BY <1>1, <2>2, <2>3 DEF LoopState, Ranges
    <3>2. k <= m.i + m.j
      BY <1>1, <2>2, <2>3, <2>5, <3>1
    <3> QED
      BY <2>3, <3>2 DEF m
  <2> QED
    BY <2>4, <2>5
<1> HIDE DEF Ok
<1>5. Wrong = {}
  <2>1. SUFFICES ASSUME Wrong # {} PROVE FALSE
    OBVIOUS
  <2>2. PICK k \in Wrong : \A y \in Wrong : k <= y
    <3>1. Wrong \subseteq Nat
      BY <1>1
    <3> HIDE DEF Wrong
    <3> QED
      BY <2>1, <3>1, LeastNat
  <2>3. k \in 0..n /\ ~ Ok(k)
    OBVIOUS
  <2>4. k # 0
    BY <1>3, <2>3
  <2>5. k - 1 \in 0..n /\ ~ (k <= k - 1) /\ k \in 1..n
    BY <1>1, <2>3, <2>4
  <2>6. k - 1 \notin Wrong
    <3> HIDE DEF Wrong
    <3> QED
      BY <2>2, <2>5
  <2>7. Ok(k - 1)
    BY <2>5, <2>6
  <2> QED
    BY <1>4, <2>3, <2>5, <2>7
<1>6. \A k \in 0..n : Ok(k)
  BY <1>5
<1> QED
  BY <1>6 DEF Ok, n, f

(* What the groups have after the loop. *)
LEMMA GroupedRight ==
    ASSUME NEW ts, NEW ns, Inputs(ts, ns)
    PROVE  LET g == Grouped(ts, ns) IN
           /\ g \in Seq(Group)
           /\ TokensPlaced(ts, Len(ts), g) /\ NftsPlaced(ns, Len(ns), g)
           /\ Scattered(ts, ns, g) /\ DecimalsOf(ts, g)
<1> DEFINE n == Len(ts) + Len(ns)
           l == Loop(ts, ns)[n]
<1>1. Len(ts) \in Nat /\ Len(ns) \in Nat /\ n \in 0..n
  BY InputFacts
<1>2. LoopState(ts, ns, l) /\ (AtEnd(ts, ns, l) \/ n <= l.i + l.j)
  BY <1>1, LoopStates
<1>3. Grouped(ts, ns) = l.groups
  BY DEF Grouped
<1> HIDE DEF l
<1>4. l.i = Len(ts) /\ l.j = Len(ns)
  BY <1>1, <1>2 DEF AtEnd, LoopState, Ranges
<1> QED
  BY <1>2, <1>3, <1>4 DEF LoopState, Ranges

(* ---- The body *)

(* The places, one by one. *)
LEMMA PlacesOf ==
    ASSUME NEW g, NEW c, NEW p
    PROVE  /\ p \in TokenPlaces(g, c) <=>
                \E k \in DOMAIN g : \E m \in DOMAIN g[k].transfers :
                  /\ p = <<k, m>> /\ g[k].token = c.token
                  /\ g[k].transfers[m].account = c.account
           /\ p \in NftPlaces(g, c) <=>
                \E k \in DOMAIN g : \E m \in DOMAIN g[k].nfts :
                  /\ p = <<k, m>> /\ g[k].token = c.token
                  /\ g[k].nfts[m].serial = c.serial
<1>1. \A k, m : <<k, m>>[1] = k /\ <<k, m>>[2] = m
  OBVIOUS
<1>2. p \in UNION {{k} \X DOMAIN g[k].transfers : k \in DOMAIN g}
        <=> \E k \in DOMAIN g : \E m \in DOMAIN g[k].transfers : p = <<k, m>>
  OBVIOUS
<1>3. p \in UNION {{k} \X DOMAIN g[k].nfts : k \in DOMAIN g}
        <=> \E k \in DOMAIN g : \E m \in DOMAIN g[k].nfts : p = <<k, m>>
  OBVIOUS
<1>4. p \in TokenPlaces(g, c) <=>
        /\ p \in UNION {{k} \X DOMAIN g[k].transfers : k \in DOMAIN g}
        /\ g[p[1]].token = c.token
        /\ g[p[1]].transfers[p[2]].account = c.account
  BY DEF TokenPlaces
<1>5. p \in NftPlaces(g, c) <=>
        /\ p \in UNION {{k} \X DOMAIN g[k].nfts : k \in DOMAIN g}
        /\ g[p[1]].token = c.token
        /\ g[p[1]].nfts[p[2]].serial = c.serial
  BY DEF NftPlaces
<1> QED
  BY <1>1, <1>2, <1>3, <1>4, <1>5

(* The calls for an entry are those for a call that it was made for. *)
LEMMA SameCalls ==
    ASSUME NEW calls, NEW e, NEW c
    PROVE  /\ e.account = c.account => U2UCalls(calls, e) = U2UCalls(calls, c)
           /\ e.token = c.token /\ e.account = c.account =>
                TokenCalls(calls, e) = TokenCalls(calls, c)
           /\ e.token = c.token /\ e.serial = c.serial =>
                NftCalls(calls, e) = NftCalls(calls, c)
BY DEF U2UCalls, TokenCalls, NftCalls, Where

(* Lists that are right and sorted are what the loop is given. *)
LEMMA ListsAreInputs ==
    ASSUME NEW calls, NEW ts, NEW ns, TokenList(calls, ts), TokensSorted(ts),
           NftList(calls, ns)
    PROVE  Inputs(ts, ns)
BY DEF TokenList, NftList, Inputs

(* The body moves what was asked for an account. *)
LEMMA MovesU2U ==
    ASSUME NEW calls, NEW us, U2UList(calls, us),
           NEW transfers,
           transfers = [i \in DOMAIN us |-> TokenToProtobuf(us[i])],
           NEW c, NEW m \in DOMAIN calls, c = calls[m], c.op = "u2u"
    PROVE  \E i \in DOMAIN transfers :
             /\ {j \in DOMAIN transfers : transfers[j].account = c.account} = {i}
             /\ transfers[i].amount = Sum(calls, U2UCalls(calls, c))
<1> DEFINE at == {j \in DOMAIN transfers : transfers[j].account = c.account}
<1>1. PICK i \in DOMAIN us : us[i].account = c.account
  BY DEF U2UList
<1>2. /\ DOMAIN transfers = DOMAIN us
      /\ \A j \in DOMAIN us : /\ transfers[j].account = us[j].account
                              /\ transfers[j].amount = us[j].amount
  BY DEF TokenToProtobuf
<1>3. at = {j \in DOMAIN transfers : transfers[j].account = c.account}
  OBVIOUS
<1>4. \A j \in DOMAIN us : us[j].account = c.account => j = i
  BY <1>1 DEF U2UList
<1> HIDE DEF at
<1>5. at = {i}
  BY <1>1, <1>2, <1>3, <1>4
<1>6. us[i].amount = Sum(calls, U2UCalls(calls, c))
  <2>1. us[i].amount = Sum(calls, U2UCalls(calls, us[i]))
    BY DEF U2UList, U2UOk
  <2>2. U2UCalls(calls, us[i]) = U2UCalls(calls, c)
    BY <1>1, SameCalls
  <2> QED
    BY <2>1, <2>2
<1>7. i \in DOMAIN transfers /\ transfers[i].amount = Sum(calls, U2UCalls(calls, c))
  BY <1>2, <1>6
<1> QED
  BY <1>5, <1>7 DEF at

(* The groups move what was asked for a token and an account. *)
LEMMA MovesTokens ==
    ASSUME NEW calls, NEW ts, TokenList(calls, ts), NEW g,
           TokensPlaced(ts, Len(ts), g), NEW c, NEW m \in DOMAIN calls,
           c = calls[m], c.op \in PaidOps
    PROVE  \E p \in TokenPlaces(g, c) :
             /\ TokenPlaces(g, c) = {p}
             /\ g[p[1]].transfers[p[2]].amount = Sum(calls, TokenCalls(calls, c))
<1>1. PICK x \in DOMAIN ts : ts[x].token = c.token /\ ts[x].account = c.account
  BY DEF TokenList
<1>2. x \in 1..Len(ts) /\ ts[x] \in TokenEntry /\ TokenOk(calls, ts[x])
  BY TokenListTyped
<1>3. PICK k, o : TokenAt(g, k, o, ts[x])
  BY <1>2 DEF TokensPlaced
<1>4. /\ TokenToProtobuf(ts[x]).account = c.account
      /\ TokenToProtobuf(ts[x]).amount = ts[x].amount
  BY <1>1, <1>2, Protos
<1>5. /\ k \in DOMAIN g /\ o \in DOMAIN g[k].transfers /\ g[k].token = c.token
      /\ g[k].transfers[o].account = c.account
      /\ g[k].transfers[o].amount = ts[x].amount
  BY <1>1, <1>3, <1>4 DEF TokenAt
<1>6. <<k, o>> \in TokenPlaces(g, c)
  BY <1>5, PlacesOf
<1>7. ASSUME NEW q \in TokenPlaces(g, c)
      PROVE  q = <<k, o>>
  <2>1. PICK k2, o2 :
          /\ k2 \in DOMAIN g /\ o2 \in DOMAIN g[k2].transfers
          /\ q = <<k2, o2>> /\ g[k2].token = c.token
          /\ g[k2].transfers[o2].account = c.account
    BY PlacesOf
  <2>2. OneTokenPlace(g)
    BY DEF TokensPlaced
  <2>3. k2 = k /\ o2 = o
    BY <1>5, <2>1, <2>2 DEF OneTokenPlace
  <2> QED
    BY <2>1, <2>3
<1>8. ts[x].amount = Sum(calls, TokenCalls(calls, c))
  <2>1. TokenCalls(calls, ts[x]) = TokenCalls(calls, c)
    BY <1>1, SameCalls
  <2> QED
    BY <1>2, <2>1 DEF TokenOk
<1> DEFINE p == <<k, o>>
<1>9. p[1] = k /\ p[2] = o
  OBVIOUS
<1>10. TokenPlaces(g, c) = {p}
  BY <1>6, <1>7
<1> HIDE DEF p
<1>11. g[p[1]].transfers[p[2]].amount = Sum(calls, TokenCalls(calls, c))
  BY <1>5, <1>8, <1>9
<1> QED
  BY <1>10, <1>11

(* The groups move the NFTs, between the parties named last. *)
LEMMA MovesNfts ==
    ASSUME NEW calls, NEW ns, NftList(calls, ns), NEW g,
           NftsPlaced(ns, Len(ns), g), NEW c, NEW n \in DOMAIN calls,
           c = calls[n], c.op = "nft"
    PROVE  \E p \in NftPlaces(g, c), m \in NftCalls(calls, c) :
             /\ NftPlaces(g, c) = {p} /\ IsLast(m, NftCalls(calls, c))
             /\ g[p[1]].nfts[p[2]].sender = calls[m].sender
             /\ g[p[1]].nfts[p[2]].receiver = calls[m].receiver
<1>1. PICK x \in DOMAIN ns : ns[x].token = c.token /\ ns[x].serial = c.serial
  BY DEF NftList
<1>2. x \in 1..Len(ns) /\ ns[x] \in NftEntry /\ NftOk(calls, ns[x])
  BY NftListTyped
<1>3. PICK k, o : NftAt(g, k, o, ns[x])
  BY <1>2 DEF NftsPlaced
<1>4. /\ NftToProtobuf(ns[x]).serial = c.serial
      /\ NftToProtobuf(ns[x]).sender = ns[x].sender
      /\ NftToProtobuf(ns[x]).receiver = ns[x].receiver
  BY <1>1, <1>2, Protos
<1>5. /\ k \in DOMAIN g /\ o \in DOMAIN g[k].nfts /\ g[k].token = c.token
      /\ g[k].nfts[o].serial = c.serial
      /\ g[k].nfts[o].sender = ns[x].sender
      /\ g[k].nfts[o].receiver = ns[x].receiver
  BY <1>1, <1>3, <1>4 DEF NftAt
<1>6. <<k, o>> \in NftPlaces(g, c)
  BY <1>5, PlacesOf
<1>7. ASSUME NEW q \in NftPlaces(g, c)
      PROVE  q = <<k, o>>
  <2>1. PICK k2, o2 :
          /\ k2 \in DOMAIN g /\ o2 \in DOMAIN g[k2].nfts
          /\ q = <<k2, o2>> /\ g[k2].token = c.token
          /\ g[k2].nfts[o2].serial = c.serial
    BY PlacesOf
  <2>2. OneNftPlace(g)
    BY DEF NftsPlaced
  <2>3. k2 = k /\ o2 = o
    BY <1>5, <2>1, <2>2 DEF OneNftPlace
  <2> QED
    BY <2>1, <2>3
<1>8. PICK m : /\ IsLast(m, NftCalls(calls, c))
               /\ ns[x].sender = calls[m].sender
               /\ ns[x].receiver = calls[m].receiver
  <2>1. NftCalls(calls, ns[x]) = NftCalls(calls, c)
    BY <1>1, SameCalls
  <2> QED
    BY <1>2, <2>1 DEF NftOk
<1>9. m \in NftCalls(calls, c)
  BY <1>8 DEF IsLast
<1> DEFINE p == <<k, o>>
<1>10. p[1] = k /\ p[2] = o
  OBVIOUS
<1>11. NftPlaces(g, c) = {p}
  BY <1>6, <1>7
<1> HIDE DEF p
<1>12. /\ g[p[1]].nfts[p[2]].sender = calls[m].sender
       /\ g[p[1]].nfts[p[2]].receiver = calls[m].receiver
  BY <1>5, <1>8, <1>10
<1> QED
  BY <1>8, <1>9, <1>11, <1>12

(* A body made of lists that are right is faithful to the calls. *)
LEMMA BodyRight ==
    ASSUME NEW calls, NEW us, NEW ts, NEW ns, U2UList(calls, us),
           TokenList(calls, ts), TokensSorted(ts), NftList(calls, ns)
    PROVE  BodyFaithful(TransferMake(us, ts, ns), calls)
<1> DEFINE g == Grouped(ts, ns)
           u == [i \in DOMAIN us |-> TokenToProtobuf(us[i])]
           body == TransferMake(us, ts, ns)
<1>1. body.transfers = u /\ body.tokenTransfers = g
  BY DEF TransferMake
<1>0. u = [i \in DOMAIN us |-> TokenToProtobuf(us[i])]
  OBVIOUS
<1>2. /\ TokensPlaced(ts, Len(ts), g) /\ NftsPlaced(ns, Len(ns), g)
      /\ Scattered(ts, ns, g) /\ DecimalsOf(ts, g)
  BY ListsAreInputs, GroupedRight
<1>3. /\ \A x \in DOMAIN ts : TokenOk(calls, ts[x])
      /\ \A x \in DOMAIN ns : NftOk(calls, ns[x])
  BY DEF TokenList, NftList
<1> HIDE DEF g, u, body
<1>4. MovesWhatWasAsked(body, calls)
  <2>1. ASSUME NEW c \in Range(calls), c.op = "u2u"
        PROVE  \E i \in DOMAIN u :
                 /\ Where(u, LAMBDA t : t.account = c.account) = {i}
                 /\ u[i].amount = Sum(calls, U2UCalls(calls, c))
    <3>1. PICK m \in DOMAIN calls : calls[m] = c
      BY DEF Range
    <3>2. \E i \in DOMAIN u :
            /\ {j \in DOMAIN u : u[j].account = c.account} = {i}
            /\ u[i].amount = Sum(calls, U2UCalls(calls, c))
      BY <1>0, <2>1, <3>1, MovesU2U
    <3> QED
      BY <3>2 DEF Where
  <2>2. ASSUME NEW c \in Range(calls), c.op \in PaidOps
        PROVE  \E p \in TokenPlaces(g, c) :
                 /\ TokenPlaces(g, c) = {p}
                 /\ g[p[1]].transfers[p[2]].amount
                      = Sum(calls, TokenCalls(calls, c))
    <3>1. PICK m \in DOMAIN calls : calls[m] = c
      BY DEF Range
    <3> QED
      BY <1>2, <2>2, <3>1, MovesTokens
  <2>3. ASSUME NEW c \in Range(calls), c.op = "nft"
        PROVE  \E p \in NftPlaces(g, c), m \in NftCalls(calls, c) :
                 /\ NftPlaces(g, c) = {p} /\ IsLast(m, NftCalls(calls, c))
                 /\ g[p[1]].nfts[p[2]].sender = calls[m].sender
                 /\ g[p[1]].nfts[p[2]].receiver = calls[m].receiver
    <3>1. PICK m \in DOMAIN calls : calls[m] = c
      BY DEF Range
    <3> QED
      BY <1>2, <2>3, <3>1, MovesNfts
  <2> QED
    BY <1>1, <2>1, <2>2, <2>3, Zenon DEF MovesWhatWasAsked
<1>5. OneGroupPerToken(body, calls)
  <2>1. SUFFICES ASSUME NEW k \in DOMAIN g, NEW l \in DOMAIN g, k # l,
                        g[k].token = g[l].token
                 PROVE  \E c, d, e \in Range(calls) :
                          /\ c.op \in PaidOps
                          /\ d.op = "nft" /\ e.op = "nft"
                          /\ c.token # d.token /\ c.token # e.token
                          /\ d.token # e.token
    BY <1>1 DEF OneGroupPerToken
  <2>2. PICK x \in DOMAIN ts, y \in DOMAIN ns, z \in DOMAIN ns :
          /\ ts[x].token # ns[y].token /\ ts[x].token # ns[z].token
          /\ ns[y].token # ns[z].token
    BY <1>2, <2>1 DEF Scattered
  <2>3. PICK m \in DOMAIN calls : /\ calls[m].op \in PaidOps
                                  /\ calls[m].token = ts[x].token
    BY <1>3 DEF TokenOk, TokenCalls, Where
  <2>4. \A v \in DOMAIN ns : \E o \in DOMAIN calls :
          calls[o].op = "nft" /\ calls[o].token = ns[v].token
    BY <1>3 DEF NftOk, NftCalls, Where, IsLast
  <2>5. PICK o \in DOMAIN calls : calls[o].op = "nft" /\ calls[o].token = ns[y].token
    BY <2>4
  <2>6. PICK q \in DOMAIN calls : calls[q].op = "nft" /\ calls[q].token = ns[z].token
    BY <2>4
  <2>7. /\ calls[m] \in Range(calls) /\ calls[o] \in Range(calls)
        /\ calls[q] \in Range(calls)
    BY DEF Range
  <2> QED
    BY <2>2, <2>3, <2>5, <2>6, <2>7
<1>6. DecimalsAsGiven(body, calls)
  <2>1. SUFFICES ASSUME NEW k \in DOMAIN g, g[k].decimals # Null
                 PROVE  \E m \in DOMAIN calls :
                          /\ GivesDecimals(m, calls, g[k].token)
                          /\ calls[m].decimals = g[k].decimals
    BY <1>1 DEF DecimalsAsGiven
  <2>2. PICK f : FirstOf(ts, g[k].token, f) /\ g[k].decimals = ts[f].decimals
    BY <1>2, <2>1 DEF DecimalsOf
  <2>3. f \in DOMAIN ts /\ ts[f].token = g[k].token
    BY <2>2 DEF FirstOf
  <2>4. Given(calls, ts[f].token, ts[f].decimals)
    BY <1>3, <2>3 DEF TokenOk
  <2> QED
    BY <2>1, <2>2, <2>3, <2>4 DEF Given
<1> QED
  BY <1>4, <1>5, <1>6 DEF BodyFaithful, body

(* ---- Reading the lists back *)

(* Two sequences that an asymmetric relation orders strictly are the same if *)
(* they have the same elements.                                              *)
Asymmetric(R) == \A x, y : <<x, y>> \in R => <<y, x>> \notin R
InOrder(R, n, a) == \A i, j \in 1..n : i < j => <<a[i], a[j]>> \in R
AllIn(n, a, m, b) == \A i \in 1..n : \E j \in 1..m : a[i] = b[j]
LEMMA UniqueOrder ==
    ASSUME NEW R, Asymmetric(R), NEW n \in Nat, NEW m \in Nat, NEW a, NEW b,
           InOrder(R, n, a), InOrder(R, m, b),
           AllIn(n, a, m, b), AllIn(m, b, n, a)
    PROVE  n = m /\ \A i \in 1..n : a[i] = b[i]
<1> USE DEF Asymmetric, InOrder, AllIn
<1> DEFINE Differ == {i \in Nat : i \in 1..n /\ i \in 1..m /\ a[i] # b[i]}
<1>1. \A x : <<x, x>> \notin R
  OBVIOUS
<1>2. Differ = {}
  <2>1. SUFFICES ASSUME Differ # {} PROVE FALSE
    OBVIOUS
  <2>2. PICK i \in Differ : \A y \in Differ : i <= y
    <3>1. Differ \subseteq Nat
      OBVIOUS
    <3> HIDE DEF Differ
    <3> QED
      BY <2>1, <3>1, LeastNat
  <2>3. i \in 1..n /\ i \in 1..m /\ a[i] # b[i]
    OBVIOUS
  <2>4. \A y \in 1..n : y \in 1..m /\ y < i => a[y] = b[y]
    <3>1. SUFFICES ASSUME NEW y \in 1..n, y \in 1..m, y < i, a[y] # b[y]
                   PROVE  FALSE
      OBVIOUS
    <3>2. y \in Differ
      BY <3>1
    <3> HIDE DEF Differ
    <3> QED
      BY <2>2, <2>3, <3>1, <3>2
  <2> HIDE DEF Differ
  <2>5. PICK j \in 1..m : a[i] = b[j]
    BY <2>3
  <2>6. PICK k \in 1..n : b[i] = a[k]
    BY <2>3
  <2>7. i < j
    <3>1. CASE j < i
      <4>1. j \in 1..n
        BY <2>3, <3>1
      <4>2. a[j] = a[i]
        BY <2>4, <2>5, <3>1, <4>1
      <4> QED
        BY <1>1, <2>3, <3>1, <4>1, <4>2
    <3>2. j # i
      BY <2>3, <2>5
    <3> QED
      BY <2>3, <3>1, <3>2
  <2>8. i < k
    <3>1. CASE k < i
      <4>1. k \in 1..m
        BY <2>3, <3>1
      <4>2. b[k] = b[i]
        BY <2>4, <2>6, <3>1, <4>1
      <4> QED
        BY <1>1, <2>3, <3>1, <4>1, <4>2
    <3>2. k # i
      BY <2>3, <2>6
    <3> QED
      BY <2>3, <3>1, <3>2
  <2>9. <<b[i], b[j]>> \in R /\ <<a[i], a[k]>> \in R
    BY <2>3, <2>7, <2>8
  <2>10. <<b[i], a[i]>> \in R /\ <<a[i], b[i]>> \in R
    BY <2>5, <2>6, <2>9
  <2> QED
    BY <2>10
<1>3. \A i \in 1..n : i \in 1..m => a[i] = b[i]
  BY <1>2
<1>4. n = m
  <2>1. CASE n < m
    <3>1. n + 1 \in 1..m
      BY <2>1
    <3>2. PICK i \in 1..n : b[n + 1] = a[i]
      BY <3>1
    <3>3. i \in 1..m /\ i < n + 1
      BY <2>1
    <3>4. b[n + 1] = b[i]
      BY <1>3, <3>2, <3>3
    <3>5. <<b[i], b[n + 1]>> \in R
      BY <3>1, <3>3
    <3> QED
      BY <1>1, <3>4, <3>5
  <2>2. CASE m < n
    <3>1. m + 1 \in 1..n
      BY <2>2
    <3>2. PICK i \in 1..m : a[m + 1] = b[i]
      BY <3>1
    <3>3. i \in 1..n /\ i < m + 1
      BY <2>2
    <3>4. a[m + 1] = a[i]
      BY <1>3, <3>2, <3>3
    <3>5. <<a[i], a[m + 1]>> \in R
      BY <3>1, <3>3
    <3> QED
      BY <1>1, <3>4, <3>5
  <2> QED
    BY <2>1, <2>2
<1> QED
  BY <1>3, <1>4

(* Where the elements of the first n sequences are in their concatenation. *)
Flattened(seqs, n, s, kk, mm) ==
  /\ \A x \in DOMAIN s : /\ kk[x] \in 1..n /\ mm[x] \in DOMAIN seqs[kk[x]]
                         /\ s[x] = seqs[kk[x]][mm[x]]
  /\ \A x, y \in DOMAIN s : kk[x] = kk[y] /\ mm[x] = mm[y] => x = y
  /\ \A k \in 1..n : \A m \in DOMAIN seqs[k] :
       \E x \in DOMAIN s : kk[x] = k /\ mm[x] = m

(* One more list. *)
LEMMA FlattenedMore ==
    ASSUME NEW S, NEW seqs, NEW n \in Nat, NEW s \in Seq(S), NEW kk, NEW mm,
           Flattened(seqs, n, s, kk, mm), seqs[n + 1] \in Seq(S)
    PROVE  \E kk2, mm2 :
             Flattened(seqs, n + 1, s \o seqs[n + 1], kk2, mm2)
<1> DEFINE e == seqs[n + 1]
           t == s \o e
           N == Len(s)
           kk2 == [x \in DOMAIN t |-> IF x \in 1..N THEN kk[x] ELSE n + 1]
           mm2 == [x \in DOMAIN t |-> IF x \in 1..N THEN mm[x] ELSE x - N]
           c == n + 1
<1>1. /\ N \in Nat /\ DOMAIN s = 1..N /\ Len(e) \in Nat
      /\ DOMAIN e = 1..Len(e) /\ DOMAIN t = 1..(N + Len(e))
      /\ \A j \in 1..N : t[j] = s[j]
      /\ \A j \in 1..Len(e) : t[N + j] = e[j]
  BY ConcatElements
<1>2. \A k : k \in 1..c <=> k \in 1..n \/ k = c
  OBVIOUS
<1>3. c \notin 1..n
  OBVIOUS
<1> HIDE DEF t, e, c, N
<1>4. /\ \A x \in 1..N : x \in DOMAIN t /\ kk2[x] = kk[x] /\ mm2[x] = mm[x]
      /\ \A j \in 1..Len(e) : /\ N + j \in DOMAIN t
                              /\ kk2[N + j] = c /\ mm2[N + j] = j
      /\ \A x \in DOMAIN t : \/ x \in 1..N
                             \/ \E j \in 1..Len(e) : x = N + j
  <2>1. \A x \in 1..N : x \in DOMAIN t
    BY <1>1
  <2>2. \A j \in 1..Len(e) : N + j \in DOMAIN t /\ N + j \notin 1..N
                             /\ (N + j) - N = j
    BY <1>1
  <2>3. ASSUME NEW x \in DOMAIN t, x \notin 1..N
        PROVE  x - N \in 1..Len(e) /\ x = N + (x - N)
    BY <1>1, <2>3
  <2> QED
    BY <2>1, <2>2, <2>3 DEF c
<1> HIDE DEF kk2, mm2
<1>a. /\ \A x \in DOMAIN s : /\ kk[x] \in 1..n
                               /\ mm[x] \in DOMAIN seqs[kk[x]]
                               /\ s[x] = seqs[kk[x]][mm[x]]
      /\ \A x, y \in DOMAIN s : kk[x] = kk[y] /\ mm[x] = mm[y] => x = y
      /\ \A k \in 1..n : \A m \in DOMAIN seqs[k] :
           \E x \in DOMAIN s : kk[x] = k /\ mm[x] = m
  BY Zenon DEF Flattened
<1>b. DOMAIN s = 1..N
  BY <1>1
<1>5. /\ \A x \in 1..N : /\ kk[x] \in 1..n /\ mm[x] \in DOMAIN seqs[kk[x]]
                         /\ s[x] = seqs[kk[x]][mm[x]]
      /\ \A x, y \in 1..N : kk[x] = kk[y] /\ mm[x] = mm[y] => x = y
      /\ \A k \in 1..n : \A m \in DOMAIN seqs[k] :
           \E x \in 1..N : kk[x] = k /\ mm[x] = m
  BY <1>a, <1>b
<1>6. seqs[c] = e
  BY DEF c, e
<1>7. ASSUME NEW x \in DOMAIN t
      PROVE  /\ kk2[x] \in 1..c /\ mm2[x] \in DOMAIN seqs[kk2[x]]
             /\ t[x] = seqs[kk2[x]][mm2[x]]
  <2>1. CASE x \in 1..N
    BY <1>1, <1>2, <1>4, <1>5, <2>1
  <2>2. CASE x \notin 1..N
    <3>1. PICK j \in 1..Len(e) : x = N + j
      BY <1>4, <2>2
    <3> QED
      BY <1>1, <1>2, <1>4, <1>6, <3>1
  <2> QED
    BY <2>1, <2>2
<1>8. ASSUME NEW x \in DOMAIN t, NEW y \in DOMAIN t, kk2[x] = kk2[y],
             mm2[x] = mm2[y]
      PROVE  x = y
  <2>1. CASE x \in 1..N /\ y \in 1..N
    BY <1>4, <1>5, <1>8, <2>1
  <2>2. CASE x \in 1..N /\ y \notin 1..N
    BY <1>3, <1>4, <1>5, <1>8, <2>2
  <2>3. CASE x \notin 1..N /\ y \in 1..N
    BY <1>3, <1>4, <1>5, <1>8, <2>3
  <2>4. CASE x \notin 1..N /\ y \notin 1..N
    BY <1>4, <1>8, <2>4
  <2> QED
    BY <2>1, <2>2, <2>3, <2>4
<1>9. ASSUME NEW k \in 1..c, NEW m \in DOMAIN seqs[k]
      PROVE  \E x \in DOMAIN t : kk2[x] = k /\ mm2[x] = m
  <2>1. CASE k \in 1..n
    <3>1. PICK x \in 1..N : kk[x] = k /\ mm[x] = m
      BY <1>5, <2>1
    <3> QED
      BY <1>4, <3>1
  <2>2. CASE k = c
    <3>1. m \in 1..Len(e)
      BY <1>1, <1>6, <2>2
    <3> QED
      BY <1>4, <2>2, <3>1
  <2> QED
    BY <1>2, <2>1, <2>2
<1>10. Flattened(seqs, c, t, kk2, mm2)
  BY <1>7, <1>8, <1>9 DEF Flattened
<1> QED
  BY <1>10 DEF t, e, c

(* FlattenSeq() puts the lists one after the other. *)
LEMMA FlattenSteps ==
    ASSUME NEW seqs, Len(seqs) \in Nat, Len(seqs) # 0
    PROVE  \E f : /\ f[1] = seqs[1]
                  /\ \A i \in 2..Len(seqs) : f[i] = f[i - 1] \o seqs[i]
                  /\ FlattenSeq(seqs) = f[Len(seqs)]
<1> DEFINE n == Len(seqs)
           Next1(v, k) == v \o seqs[k]
           Upto(g, m) == g = [i \in 1..m |-> IF i = 1 THEN seqs[i]
                                             ELSE Next1(g[i - 1], i)]
           Stuck == {m \in Nat : m # 0 /\ ~ \E g : Upto(g, m)}
<1> HIDE DEF Next1
<1>1. Stuck = {}
  <2>1. SUFFICES ASSUME Stuck # {} PROVE FALSE
    OBVIOUS
  <2>2. PICK m \in Stuck : \A y \in Stuck : m <= y
    <3>1. Stuck \subseteq Nat
      OBVIOUS
    <3> HIDE DEF Stuck
    <3> QED
      BY <2>1, <3>1, LeastNat
  <2>a. m \in Nat /\ m # 0 /\ ~ \E g : Upto(g, m)
    <3> HIDE DEF Upto
    <3> QED
      BY <2>2
  <2>3. CASE m = 1
    <3> DEFINE g == [i \in 1..1 |-> seqs[i]]
    <3>1. Upto(g, 1)
      OBVIOUS
    <3> HIDE DEF Upto
    <3> QED
      BY <2>a, <2>3, <3>1
  <2>4. CASE m # 1
    <3>1. m - 1 \in Nat /\ m - 1 # 0 /\ ~ (m <= m - 1)
      BY <2>a, <2>4
    <3>a. m - 1 \notin Stuck
      <4> HIDE DEF Stuck
      <4> QED
        BY <2>2, <3>1
    <3>2. PICK g : Upto(g, m - 1)
      <4> HIDE DEF Upto
      <4> QED
        BY <3>1, <3>a
    <3> DEFINE h == [i \in 1..m |-> IF i = m THEN Next1(g[m - 1], m) ELSE g[i]]
    <3>3. ASSUME NEW i \in 1..m
          PROVE  h[i] = IF i = 1 THEN seqs[i] ELSE Next1(h[i - 1], i)
      <4>1. CASE i = 1
        <5>1. 1 \in 1..(m - 1) /\ 1 # m
          BY <2>a, <2>4
        <5>2. h[1] = g[1]
          BY <2>a, <5>1
        <5>3. g[1] = seqs[1]
          BY <3>2, <5>1
        <5> QED
          BY <4>1, <5>2, <5>3
      <4>2. CASE i = m
        <5>1. m - 1 \in 1..m /\ m - 1 # m
          BY <2>a, <2>4
        <5>2. h[m - 1] = g[m - 1]
          BY <5>1
        <5> QED
          BY <2>a, <2>4, <4>2, <5>2
      <4>3. CASE i # 1 /\ i # m
        <5>1. i \in 1..(m - 1) /\ i - 1 \in 1..m /\ i - 1 # m
          BY <2>a, <4>3
        <5>2. h[i] = g[i] /\ h[i - 1] = g[i - 1]
          BY <4>3, <5>1
        <5>3. g[i] = Next1(g[i - 1], i)
          BY <3>2, <4>3, <5>1
        <5> QED
          BY <4>3, <5>2, <5>3
      <4> QED
        BY <4>1, <4>2, <4>3
    <3>4. Upto(h, m)
      BY <3>3
    <3> HIDE DEF Upto
    <3> QED
      BY <2>a, <3>4
  <2> QED
    BY <2>3, <2>4
<1>2. \E g : Upto(g, n)
  <2>1. n \in Nat /\ n # 0
    OBVIOUS
  <2> HIDE DEF n, Upto
  <2>2. n \notin Stuck
    BY <1>1, Zenon
  <2> QED
    BY <2>1, <2>2
<1> DEFINE f == CHOOSE g : Upto(g, n)
<1>3. Upto(f, n)
  <2> HIDE DEF Upto
  <2> QED
    BY <1>2
<1>4. FlattenSeq(seqs) = f[n]
  <2>1. ~ (Len(seqs) = 0)
    OBVIOUS
  <2> QED
    BY <2>1, Zenon DEF FlattenSeq, Next1
<1> HIDE DEF f
<1>5. n \in Nat /\ n # 0
  OBVIOUS
<1> HIDE DEF n
<1>6. f[1] = seqs[1]
  BY <1>3, <1>5
<1>7. ASSUME NEW i \in 2..n
      PROVE  f[i] = Next1(f[i - 1], i)
  <2>1. i \in 1..n /\ i # 1
    BY <1>5
  <2> QED
    BY <1>3, <2>1
<1> QED
  BY <1>4, <1>6, <1>7 DEF n, Next1

(* Where the elements of the lists are in it. *)
LEMMA FlattenPlaces ==
    ASSUME NEW S, NEW seqs \in Seq(Seq(S))
    PROVE  /\ FlattenSeq(seqs) \in Seq(S)
           /\ \E kk, mm : Flattened(seqs, Len(seqs), FlattenSeq(seqs), kk, mm)
<1>1. Len(seqs) \in Nat /\ DOMAIN seqs = 1..Len(seqs)
      /\ \A k \in DOMAIN seqs : seqs[k] \in Seq(S)
  OBVIOUS
<1>2. CASE Len(seqs) = 0
  <2>1. FlattenSeq(seqs) = seqs
    BY <1>2 DEF FlattenSeq
  <2>2. seqs = <<>>
    BY <1>2
  <2>3. <<>> \in Seq(S) /\ DOMAIN << >> = {} /\ 1..0 = {}
    OBVIOUS
  <2>4. Flattened(seqs, 0, <<>>, 0, 0)
    BY <2>3 DEF Flattened
  <2> QED
    BY <1>2, <2>1, <2>2, <2>3, <2>4
<1>3. CASE Len(seqs) # 0
  <2> DEFINE n == Len(seqs)
  <2>1. PICK f : /\ f[1] = seqs[1]
                 /\ \A i \in 2..n : f[i] = f[i - 1] \o seqs[i]
                 /\ FlattenSeq(seqs) = f[n]
    BY <1>1, <1>3, FlattenSteps
  <2> DEFINE Ok(k) == /\ f[k] \in Seq(S)
                      /\ \E kk, mm : Flattened(seqs, k, f[k], kk, mm)
             Wrong == {k \in 1..n : ~ Ok(k)}
  <2>2. n \in Nat /\ n # 0
    BY <1>1, <1>3
  <2>3. \A k \in 1..n : seqs[k] \in Seq(S)
    BY <1>1
  <2> HIDE DEF n
  <2>4. Ok(1)
    <3>1. 1 \in 1..n
      BY <2>2
    <3>2. f[1] \in Seq(S)
      BY <2>1, <2>3, <3>1
    <3>3. <<>> \in Seq(S) /\ DOMAIN << >> = {} /\ 1..0 = {}
      OBVIOUS
    <3>4. Flattened(seqs, 0, <<>>, 0, 0)
      BY <3>3 DEF Flattened
    <3>5. 0 \in Nat /\ 0 + 1 = 1
      OBVIOUS
    <3>6. \E kk, mm : Flattened(seqs, 1, <<>> \o seqs[1], kk, mm)
      <4>1. seqs[0 + 1] \in Seq(S)
        BY <2>3, <3>1, <3>5
      <4> QED
        BY <3>3, <3>4, <3>5, <4>1, FlattenedMore
    <3>7. <<>> \o seqs[1] = seqs[1]
      <4>1. seqs[1] \in Seq(S)
        BY <2>3, <3>1
      <4> QED
        BY <4>1
    <3> QED
      BY <2>1, <3>2, <3>6, <3>7
  <2>5. ASSUME NEW k \in 2..n, Ok(k - 1)
        PROVE  Ok(k)
    <3> DEFINE c == k - 1
    <3>1. c \in Nat /\ c + 1 = k /\ k \in 1..n
      BY <2>2
    <3>2. f[k] = f[c] \o seqs[c + 1] /\ seqs[c + 1] \in Seq(S)
      BY <2>1, <2>3, <3>1
    <3>3. f[c] \in Seq(S) /\ \E kk, mm : Flattened(seqs, c, f[c], kk, mm)
      BY <2>5
    <3> HIDE DEF c
    <3>4. PICK kk, mm : Flattened(seqs, c, f[c], kk, mm)
      BY <3>3
    <3>5. \E kk2, mm2 : Flattened(seqs, c + 1, f[c] \o seqs[c + 1], kk2, mm2)
      BY <3>1, <3>2, <3>3, <3>4, FlattenedMore
    <3>6. f[k] \in Seq(S)
      BY <3>2, <3>3, ConcatElements
    <3> QED
      BY <3>1, <3>2, <3>5, <3>6
  <2> HIDE DEF Ok
  <2>6. Wrong = {}
    <3>1. SUFFICES ASSUME Wrong # {} PROVE FALSE
      OBVIOUS
    <3>2. PICK k \in Wrong : \A y \in Wrong : k <= y
      <4>1. Wrong \subseteq Nat
        BY <2>2
      <4> HIDE DEF Wrong
      <4> QED
        BY <3>1, <4>1, LeastNat
    <3>3. k \in 1..n /\ ~ Ok(k)
      OBVIOUS
    <3>4. k # 1
      BY <2>4, <3>3
    <3>5. k - 1 \in 1..n /\ ~ (k <= k - 1) /\ k \in 2..n
      BY <2>2, <3>3, <3>4
    <3>6. k - 1 \notin Wrong
      <4> HIDE DEF Wrong
      <4> QED
        BY <3>2, <3>5
    <3>7. Ok(k - 1)
      BY <3>5, <3>6
    <3> QED
      BY <2>5, <3>3, <3>5, <3>7
  <2>7. Ok(n)
    BY <2>2, <2>6
  <2> QED
    BY <2>1, <2>7 DEF Ok, n
<1> QED
  BY <1>2, <1>3

(* What is read from a place of the groups. *)
ReadToken(g, k, m) ==
  [token |-> g[k].token, account |-> g[k].transfers[m].account,
   amount |-> g[k].transfers[m].amount, decimals |-> g[k].decimals,
   approved |-> g[k].transfers[m].approval]

(* What a fungible transfer is read as. *)
LEMMA ReadTokenFields ==
    ASSUME NEW g \in Seq(Group), NEW k \in DOMAIN g, NEW m \in DOMAIN g[k].transfers
    PROVE  /\ ReadToken(g, k, m) \in TokenEntry
           /\ ReadToken(g, k, m).token = g[k].token
           /\ ReadToken(g, k, m).account = g[k].transfers[m].account
           /\ ReadToken(g, k, m).amount = g[k].transfers[m].amount
           /\ ReadToken(g, k, m).decimals = g[k].decimals
<1>1. /\ g[k].token \in Int /\ g[k].decimals \in Decimals
      /\ g[k].transfers \in TokenProtos
  BY GroupFields
<1> DEFINE e == g[k].transfers[m]
<1>2. e \in TokenProto
  BY <1>1 DEF TokenProtos
<1>3. e.account \in Int /\ e.amount \in Int /\ e.approval \in BOOLEAN
  <2> HIDE DEF e
  <2> QED
    BY <1>2 DEF TokenProto
<1> QED
  BY <1>1, <1>3 DEF ReadToken, TokenEntry

(* The fungible transfers of the groups are read back, each once. *)
LEMMA TokensReread ==
    ASSUME NEW g \in Seq(Group), OneTokenPlace(g)
    PROVE  LET s == TokenTransferFrom(g) IN
           /\ s \in Seq(TokenEntry)
           /\ \A x \in DOMAIN s :
                \E k \in DOMAIN g : \E m \in DOMAIN g[k].transfers :
                  s[x] = ReadToken(g, k, m)
           /\ \A k \in DOMAIN g : \A m \in DOMAIN g[k].transfers :
                \E x \in DOMAIN s : s[x] = ReadToken(g, k, m)
           /\ \A x, y \in DOMAIN s :
                s[x].token = s[y].token /\ s[x].account = s[y].account => x = y
<1> DEFINE s == TokenTransferFrom(g)
           n == Len(g)
           One(k) == [m \in DOMAIN g[k].transfers |-> ReadToken(g, k, m)]
           seqs == [k \in DOMAIN g |-> One(k)]
<1>1. s = FlattenSeq(seqs)
  BY DEF TokenTransferFrom, ReadToken
<1>2. n \in Nat /\ DOMAIN g = 1..n
  BY GroupFields
<1>3. ASSUME NEW k \in DOMAIN g
      PROVE  One(k) \in Seq(TokenEntry)
  <2>1. g[k].transfers \in Seq(TokenProto)
    BY GroupFields DEF TokenProtos
  <2> DEFINE v == g[k].transfers
  <2>2. Len(v) \in Nat /\ DOMAIN v = 1..Len(v)
    BY <2>1
  <2>3. \A m \in DOMAIN v : ReadToken(g, k, m) \in TokenEntry
    BY ReadTokenFields
  <2>4. One(k) = [m \in DOMAIN v |-> ReadToken(g, k, m)]
    OBVIOUS
  <2> HIDE DEF v, One
  <2>5. One(k) \in [1..Len(v) -> TokenEntry]
    BY <2>2, <2>3, <2>4
  <2> QED
    BY <2>2, <2>5
<1>4. \A k \in DOMAIN g : DOMAIN One(k) = DOMAIN g[k].transfers
  OBVIOUS
<1>5. \A k \in DOMAIN g : \A m \in DOMAIN g[k].transfers :
        One(k)[m] = ReadToken(g, k, m)
  OBVIOUS
<1> HIDE DEF s, One
<1>6. seqs \in Seq(Seq(TokenEntry)) /\ Len(seqs) = n
  <2>1. seqs \in [1..n -> Seq(TokenEntry)]
    BY <1>2, <1>3
  <2> QED
    BY <1>2, <2>1
<1>7. \A k \in DOMAIN g : seqs[k] = One(k)
  OBVIOUS
<1> HIDE DEF seqs, n
<1>8. s \in Seq(TokenEntry) /\ \E kk, mm : Flattened(seqs, n, s, kk, mm)
  BY <1>1, <1>6, FlattenPlaces
<1>9. PICK kk, mm : Flattened(seqs, n, s, kk, mm)
  BY <1>8
<1>10. ASSUME NEW x \in DOMAIN s
       PROVE  /\ kk[x] \in DOMAIN g /\ mm[x] \in DOMAIN g[kk[x]].transfers
              /\ s[x] = ReadToken(g, kk[x], mm[x])
  <2>1. /\ kk[x] \in 1..n /\ mm[x] \in DOMAIN seqs[kk[x]]
        /\ s[x] = seqs[kk[x]][mm[x]]
    BY <1>9 DEF Flattened
  <2>2. kk[x] \in DOMAIN g /\ seqs[kk[x]] = One(kk[x])
    BY <1>2, <1>7, <2>1
  <2>3. mm[x] \in DOMAIN g[kk[x]].transfers
    BY <1>4, <2>1, <2>2
  <2> QED
    BY <1>5, <2>1, <2>2, <2>3
<1>11. ASSUME NEW k \in DOMAIN g, NEW m \in DOMAIN g[k].transfers
       PROVE  \E x \in DOMAIN s : s[x] = ReadToken(g, k, m)
  <2>1. k \in 1..n /\ m \in DOMAIN seqs[k]
    BY <1>2, <1>4, <1>7
  <2>2. PICK x \in DOMAIN s : kk[x] = k /\ mm[x] = m
    BY <1>9, <2>1 DEF Flattened
  <2> QED
    BY <1>10, <2>2
<1>12. ASSUME NEW x \in DOMAIN s, NEW y \in DOMAIN s,
              s[x].token = s[y].token, s[x].account = s[y].account
       PROVE  x = y
  <2> DEFINE k == kk[x]
             m == mm[x]
             k2 == kk[y]
             m2 == mm[y]
  <2>1. /\ k \in DOMAIN g /\ m \in DOMAIN g[k].transfers
        /\ k2 \in DOMAIN g /\ m2 \in DOMAIN g[k2].transfers
        /\ s[x] = ReadToken(g, k, m) /\ s[y] = ReadToken(g, k2, m2)
    BY <1>10
  <2> HIDE DEF k, m, k2, m2
  <2>2. /\ g[k].token = g[k2].token
        /\ g[k].transfers[m].account = g[k2].transfers[m2].account
    BY <1>12, <2>1, ReadTokenFields
  <2>3. k = k2 /\ m = m2
    BY <2>1, <2>2 DEF OneTokenPlace
  <2> QED
    BY <1>9, <2>3 DEF Flattened, k, m, k2, m2
<1> QED
  BY <1>8, <1>10, <1>11, <1>12 DEF s

ReadNft(g, k, m) ==
  [token |-> g[k].token, serial |-> g[k].nfts[m].serial,
   sender |-> g[k].nfts[m].sender, receiver |-> g[k].nfts[m].receiver,
   approved |-> g[k].nfts[m].approval]

(* What an NFT is read as. *)
LEMMA ReadNftFields ==
    ASSUME NEW g \in Seq(Group), NEW k \in DOMAIN g, NEW m \in DOMAIN g[k].nfts
    PROVE  /\ ReadNft(g, k, m) \in NftEntry
           /\ ReadNft(g, k, m).token = g[k].token
           /\ ReadNft(g, k, m).serial = g[k].nfts[m].serial
           /\ ReadNft(g, k, m).sender = g[k].nfts[m].sender
           /\ ReadNft(g, k, m).receiver = g[k].nfts[m].receiver
<1>1. g[k].token \in Int /\ g[k].nfts \in NftProtos
  BY GroupFields
<1> DEFINE e == g[k].nfts[m]
<1>2. e \in NftProto
  BY <1>1 DEF NftProtos
<1>3. /\ e.serial \in Int /\ e.sender \in Int /\ e.receiver \in Int
      /\ e.approval \in BOOLEAN
  <2> HIDE DEF e
  <2> QED
    BY <1>2 DEF NftProto
<1> QED
  BY <1>1, <1>3 DEF ReadNft, NftEntry

(* The NFTs of the groups are read back, each once. *)
LEMMA NftsReread ==
    ASSUME NEW g \in Seq(Group), OneNftPlace(g)
    PROVE  LET s == TokenNftTransferFrom(g) IN
           /\ s \in Seq(NftEntry)
           /\ \A x \in DOMAIN s :
                \E k \in DOMAIN g : \E m \in DOMAIN g[k].nfts :
                  s[x] = ReadNft(g, k, m)
           /\ \A k \in DOMAIN g : \A m \in DOMAIN g[k].nfts :
                \E x \in DOMAIN s : s[x] = ReadNft(g, k, m)
           /\ \A x, y \in DOMAIN s :
                s[x].token = s[y].token /\ s[x].serial = s[y].serial => x = y
<1> DEFINE s == TokenNftTransferFrom(g)
           n == Len(g)
           One(k) == [m \in DOMAIN g[k].nfts |-> ReadNft(g, k, m)]
           seqs == [k \in DOMAIN g |-> One(k)]
<1>1. s = FlattenSeq(seqs)
  BY DEF TokenNftTransferFrom, ReadNft
<1>2. n \in Nat /\ DOMAIN g = 1..n
  BY GroupFields
<1>3. ASSUME NEW k \in DOMAIN g
      PROVE  One(k) \in Seq(NftEntry)
  <2>1. g[k].nfts \in Seq(NftProto)
    BY GroupFields DEF NftProtos
  <2> DEFINE v == g[k].nfts
  <2>2. Len(v) \in Nat /\ DOMAIN v = 1..Len(v)
    BY <2>1
  <2>3. \A m \in DOMAIN v : ReadNft(g, k, m) \in NftEntry
    BY ReadNftFields
  <2>4. One(k) = [m \in DOMAIN v |-> ReadNft(g, k, m)]
    OBVIOUS
  <2> HIDE DEF v, One
  <2>5. One(k) \in [1..Len(v) -> NftEntry]
    BY <2>2, <2>3, <2>4
  <2> QED
    BY <2>2, <2>5
<1>4. \A k \in DOMAIN g : DOMAIN One(k) = DOMAIN g[k].nfts
  OBVIOUS
<1>5. \A k \in DOMAIN g : \A m \in DOMAIN g[k].nfts :
        One(k)[m] = ReadNft(g, k, m)
  OBVIOUS
<1> HIDE DEF s, One
<1>6. seqs \in Seq(Seq(NftEntry)) /\ Len(seqs) = n
  <2>1. seqs \in [1..n -> Seq(NftEntry)]
    BY <1>2, <1>3
  <2> QED
    BY <1>2, <2>1
<1>7. \A k \in DOMAIN g : seqs[k] = One(k)
  OBVIOUS
<1> HIDE DEF seqs, n
<1>8. s \in Seq(NftEntry) /\ \E kk, mm : Flattened(seqs, n, s, kk, mm)
  BY <1>1, <1>6, FlattenPlaces
<1>9. PICK kk, mm : Flattened(seqs, n, s, kk, mm)
  BY <1>8
<1>10. ASSUME NEW x \in DOMAIN s
       PROVE  /\ kk[x] \in DOMAIN g /\ mm[x] \in DOMAIN g[kk[x]].nfts
              /\ s[x] = ReadNft(g, kk[x], mm[x])
  <2>1. /\ kk[x] \in 1..n /\ mm[x] \in DOMAIN seqs[kk[x]]
        /\ s[x] = seqs[kk[x]][mm[x]]
    BY <1>9 DEF Flattened
  <2>2. kk[x] \in DOMAIN g /\ seqs[kk[x]] = One(kk[x])
    BY <1>2, <1>7, <2>1
  <2>3. mm[x] \in DOMAIN g[kk[x]].nfts
    BY <1>4, <2>1, <2>2
  <2> QED
    BY <1>5, <2>1, <2>2, <2>3
<1>11. ASSUME NEW k \in DOMAIN g, NEW m \in DOMAIN g[k].nfts
       PROVE  \E x \in DOMAIN s : s[x] = ReadNft(g, k, m)
  <2>1. k \in 1..n /\ m \in DOMAIN seqs[k]
    BY <1>2, <1>4, <1>7
  <2>2. PICK x \in DOMAIN s : kk[x] = k /\ mm[x] = m
    BY <1>9, <2>1 DEF Flattened
  <2> QED
    BY <1>10, <2>2
<1>12. ASSUME NEW x \in DOMAIN s, NEW y \in DOMAIN s,
              s[x].token = s[y].token, s[x].serial = s[y].serial
       PROVE  x = y
  <2> DEFINE k == kk[x]
             m == mm[x]
             k2 == kk[y]
             m2 == mm[y]
  <2>1. /\ k \in DOMAIN g /\ m \in DOMAIN g[k].nfts
        /\ k2 \in DOMAIN g /\ m2 \in DOMAIN g[k2].nfts
        /\ s[x] = ReadNft(g, k, m) /\ s[y] = ReadNft(g, k2, m2)
    BY <1>10
  <2> HIDE DEF k, m, k2, m2
  <2>2. /\ g[k].token = g[k2].token
        /\ g[k].nfts[m].serial = g[k2].nfts[m2].serial
    BY <1>12, <2>1, ReadNftFields
  <2>3. k = k2 /\ m = m2
    BY <2>1, <2>2 DEF OneNftPlace
  <2> QED
    BY <1>9, <2>3 DEF Flattened, k, m, k2, m2
<1> QED
  BY <1>8, <1>10, <1>11, <1>12 DEF s

(* ---- Lists alike *)

LikeU2U(e, d) == e.account = d.account /\ e.amount = d.amount
LikeToken(e, d) ==
  e.token = d.token /\ e.account = d.account /\ e.amount = d.amount
LikeNft(e, d) == /\ e.token = d.token /\ e.serial = d.serial
                 /\ e.sender = d.sender /\ e.receiver = d.receiver

(* A list with the entries of another, in any order, but for approvals; its  *)
(* decimals are those of the first transfer of the token.                    *)
U2UAlike(us, s) ==
  /\ s \in Seq(U2UEntry)
  /\ \A x, y \in DOMAIN s : s[x].account = s[y].account => x = y
  /\ \A x \in DOMAIN s : \E y \in DOMAIN us : LikeU2U(s[x], us[y])
  /\ \A y \in DOMAIN us : \E x \in DOMAIN s : LikeU2U(s[x], us[y])
TokensAlike(ts, s) ==
  /\ s \in Seq(TokenEntry)
  /\ \A x, y \in DOMAIN s :
       s[x].token = s[y].token /\ s[x].account = s[y].account => x = y
  /\ \A x \in DOMAIN s : \E y \in DOMAIN ts : LikeToken(s[x], ts[y])
  /\ \A y \in DOMAIN ts : \E x \in DOMAIN s : LikeToken(s[x], ts[y])
  /\ \A x \in DOMAIN s : \E f : /\ FirstOf(ts, s[x].token, f)
                                /\ s[x].decimals = ts[f].decimals
NftsAlike(ns, s) ==
  /\ s \in Seq(NftEntry)
  /\ \A x, y \in DOMAIN s :
       s[x].token = s[y].token /\ s[x].serial = s[y].serial => x = y
  /\ \A x \in DOMAIN s : \E y \in DOMAIN ns : LikeNft(s[x], ns[y])
  /\ \A y \in DOMAIN ns : \E x \in DOMAIN s : LikeNft(s[x], ns[y])

(* What fromBytes() returns has the transfers that were encoded. *)
LEMMA RereadU2UAlike ==
    ASSUME NEW calls, NEW us, U2UList(calls, us)
    PROVE  U2UAlike(us, TransferFrom([i \in DOMAIN us |-> TokenToProtobuf(us[i])]))
<1> DEFINE v == [i \in DOMAIN us |-> TokenToProtobuf(us[i])]
           s == TransferFrom(v)
<1>1. /\ us \in Seq(U2UEntry)
      /\ \A x, y \in DOMAIN us : us[x].account = us[y].account => x = y
  BY DEF U2UList
<1>2. DOMAIN s = DOMAIN us
  BY DEF TransferFrom
<1>3. \A x \in DOMAIN us : /\ s[x].account = us[x].account
                           /\ s[x].amount = us[x].amount
                           /\ s[x] = [account |-> us[x].account,
                                      amount |-> us[x].amount,
                                      approved |-> us[x].approved]
  BY DEF TransferFrom, TokenToProtobuf
<1> HIDE DEF s
<1>4. s \in Seq(U2UEntry)
  <2> DEFINE n == Len(us)
  <2>1. n \in Nat /\ DOMAIN us = 1..n /\ \A x \in 1..n : us[x] \in U2UEntry
    BY <1>1
  <2> HIDE DEF n
  <2>2. \A x \in 1..n : s[x] \in U2UEntry
    BY <1>3, <2>1 DEF U2UEntry
  <2>3. s = [x \in 1..n |-> s[x]]
    BY <2>1 DEF s, TransferFrom
  <2>4. s \in [1..n -> U2UEntry]
    BY <2>2, <2>3
  <2> QED
    BY <2>1, <2>4
<1>5. \A x \in DOMAIN us : LikeU2U(s[x], us[x])
  BY <1>3 DEF LikeU2U
<1>6. \A x, y \in DOMAIN s : s[x].account = s[y].account => x = y
  BY <1>1, <1>2, <1>3
<1> QED
  BY <1>2, <1>4, <1>5, <1>6 DEF U2UAlike, s

(* It has the fungible transfers that were encoded. *)
LEMMA RereadTokensAlike ==
    ASSUME NEW ts, NEW ns, Inputs(ts, ns)
    PROVE  TokensAlike(ts, TokenTransferFrom(Grouped(ts, ns)))
<1> DEFINE g == Grouped(ts, ns)
           s == TokenTransferFrom(g)
<1>1. /\ g \in Seq(Group) /\ TokensPlaced(ts, Len(ts), g) /\ DecimalsOf(ts, g)
  BY GroupedRight
<1>2. DOMAIN ts = 1..Len(ts) /\ \A x \in DOMAIN ts : ts[x] \in TokenEntry
  BY InputFacts
<1> HIDE DEF g
<1>3. OneTokenPlace(g)
  BY <1>1 DEF TokensPlaced
<1>4. /\ s \in Seq(TokenEntry)
      /\ \A x \in DOMAIN s :
           \E k \in DOMAIN g : \E m \in DOMAIN g[k].transfers :
             s[x] = ReadToken(g, k, m)
      /\ \A k \in DOMAIN g : \A m \in DOMAIN g[k].transfers :
           \E x \in DOMAIN s : s[x] = ReadToken(g, k, m)
      /\ \A x, y \in DOMAIN s :
           s[x].token = s[y].token /\ s[x].account = s[y].account => x = y
  BY <1>1, <1>3, TokensReread
<1> HIDE DEF s
<1>5. ASSUME NEW k, NEW m, NEW y \in DOMAIN ts, TokenAt(g, k, m, ts[y]),
             NEW e, e = ReadToken(g, k, m)
      PROVE  LikeToken(e, ts[y])
  <2>1. /\ k \in DOMAIN g /\ m \in DOMAIN g[k].transfers
        /\ g[k].token = ts[y].token
        /\ g[k].transfers[m] = TokenToProtobuf(ts[y])
    BY <1>5 DEF TokenAt
  <2>2. /\ e.token = g[k].token /\ e.account = g[k].transfers[m].account
        /\ e.amount = g[k].transfers[m].amount
    BY <1>1, <1>5, <2>1, ReadTokenFields
  <2>3. /\ TokenToProtobuf(ts[y]).account = ts[y].account
        /\ TokenToProtobuf(ts[y]).amount = ts[y].amount
    BY <1>2, Protos
  <2> QED
    BY <2>1, <2>2, <2>3 DEF LikeToken
<1>6. ASSUME NEW x \in DOMAIN s
      PROVE  /\ \E y \in DOMAIN ts : LikeToken(s[x], ts[y])
             /\ \E f : /\ FirstOf(ts, s[x].token, f)
                       /\ s[x].decimals = ts[f].decimals
  <2>1. PICK k, m : /\ k \in DOMAIN g /\ m \in DOMAIN g[k].transfers
                    /\ s[x] = ReadToken(g, k, m)
    BY <1>4
  <2>2. PICK y \in 1..Len(ts) : TokenAt(g, k, m, ts[y])
    BY <1>1, <2>1 DEF TokensPlaced
  <2>3. y \in DOMAIN ts /\ LikeToken(s[x], ts[y])
    BY <1>2, <1>5, <2>1, <2>2
  <2>4. g[k].transfers # <<>>
    <3>1. DOMAIN << >> = {}
      OBVIOUS
    <3> QED
      BY <2>1, <3>1
  <2>5. s[x].token = g[k].token /\ s[x].decimals = g[k].decimals
    BY <1>1, <2>1, ReadTokenFields
  <2>6. \E f : FirstOf(ts, g[k].token, f) /\ g[k].decimals = ts[f].decimals
    BY <1>1, <2>1, <2>4 DEF DecimalsOf
  <2> QED
    BY <2>3, <2>5, <2>6
<1>7. ASSUME NEW y \in DOMAIN ts
      PROVE  \E x \in DOMAIN s : LikeToken(s[x], ts[y])
  <2>1. PICK k, m : TokenAt(g, k, m, ts[y])
    BY <1>1, <1>2 DEF TokensPlaced
  <2>2. k \in DOMAIN g /\ m \in DOMAIN g[k].transfers
    BY <2>1 DEF TokenAt
  <2>3. PICK x \in DOMAIN s : s[x] = ReadToken(g, k, m)
    BY <1>4, <2>2
  <2> QED
    BY <1>5, <2>1, <2>3
<1> QED
  BY <1>4, <1>6, <1>7 DEF TokensAlike, s, g

(* It has the NFTs that were encoded. *)
LEMMA RereadNftsAlike ==
    ASSUME NEW ts, NEW ns, Inputs(ts, ns)
    PROVE  NftsAlike(ns, TokenNftTransferFrom(Grouped(ts, ns)))
<1> DEFINE g == Grouped(ts, ns)
           s == TokenNftTransferFrom(g)
<1>1. g \in Seq(Group) /\ NftsPlaced(ns, Len(ns), g)
  BY GroupedRight
<1>2. DOMAIN ns = 1..Len(ns) /\ \A x \in DOMAIN ns : ns[x] \in NftEntry
  BY InputFacts
<1> HIDE DEF g
<1>3. OneNftPlace(g)
  BY <1>1 DEF NftsPlaced
<1>4. /\ s \in Seq(NftEntry)
      /\ \A x \in DOMAIN s :
           \E k \in DOMAIN g : \E m \in DOMAIN g[k].nfts :
             s[x] = ReadNft(g, k, m)
      /\ \A k \in DOMAIN g : \A m \in DOMAIN g[k].nfts :
           \E x \in DOMAIN s : s[x] = ReadNft(g, k, m)
      /\ \A x, y \in DOMAIN s :
           s[x].token = s[y].token /\ s[x].serial = s[y].serial => x = y
  BY <1>1, <1>3, NftsReread
<1> HIDE DEF s
<1>5. ASSUME NEW k, NEW m, NEW y \in DOMAIN ns, NftAt(g, k, m, ns[y]),
             NEW e, e = ReadNft(g, k, m)
      PROVE  LikeNft(e, ns[y])
  <2>1. /\ k \in DOMAIN g /\ m \in DOMAIN g[k].nfts
        /\ g[k].token = ns[y].token
        /\ g[k].nfts[m] = NftToProtobuf(ns[y])
    BY <1>5 DEF NftAt
  <2>2. /\ e.token = g[k].token /\ e.serial = g[k].nfts[m].serial
        /\ e.sender = g[k].nfts[m].sender
        /\ e.receiver = g[k].nfts[m].receiver
    BY <1>1, <1>5, <2>1, ReadNftFields
  <2>3. /\ NftToProtobuf(ns[y]).serial = ns[y].serial
        /\ NftToProtobuf(ns[y]).sender = ns[y].sender
        /\ NftToProtobuf(ns[y]).receiver = ns[y].receiver
    BY <1>2, Protos
  <2> QED
    BY <2>1, <2>2, <2>3 DEF LikeNft
<1>6. ASSUME NEW x \in DOMAIN s
      PROVE  \E y \in DOMAIN ns : LikeNft(s[x], ns[y])
  <2>1. PICK k, m : /\ k \in DOMAIN g /\ m \in DOMAIN g[k].nfts
                    /\ s[x] = ReadNft(g, k, m)
    BY <1>4
  <2>2. PICK y \in 1..Len(ns) : NftAt(g, k, m, ns[y])
    BY <1>1, <2>1 DEF NftsPlaced
  <2> QED
    BY <1>2, <1>5, <2>1, <2>2
<1>7. ASSUME NEW y \in DOMAIN ns
      PROVE  \E x \in DOMAIN s : LikeNft(s[x], ns[y])
  <2>1. PICK k, m : NftAt(g, k, m, ns[y])
    BY <1>1, <1>2 DEF NftsPlaced
  <2>2. k \in DOMAIN g /\ m \in DOMAIN g[k].nfts
    BY <2>1 DEF NftAt
  <2>3. PICK x \in DOMAIN s : s[x] = ReadNft(g, k, m)
    BY <1>4, <2>2
  <2> QED
    BY <1>5, <2>1, <2>3
<1> QED
  BY <1>4, <1>6, <1>7 DEF NftsAlike, s, g

(* Such a list says what was asked for too. *)
LEMMA AlikeU2URight ==
    ASSUME NEW calls, NEW us, NEW s, U2UList(calls, us), U2UAlike(us, s)
    PROVE  U2UList(calls, s)
<1>1. ASSUME NEW x \in DOMAIN s
      PROVE  U2UOk(calls, s[x])
  <2>1. PICK y \in DOMAIN us : LikeU2U(s[x], us[y])
    BY DEF U2UAlike
  <2>2. U2UOk(calls, us[y])
    BY DEF U2UList
  <2>3. U2UCalls(calls, s[x]) = U2UCalls(calls, us[y])
    BY <2>1, SameCalls DEF LikeU2U
  <2> QED
    BY <2>1, <2>2, <2>3 DEF U2UOk, LikeU2U
<1>2. ASSUME NEW m \in DOMAIN calls, calls[m].op = "u2u"
      PROVE  \E x \in DOMAIN s : s[x].account = calls[m].account
  <2>1. PICK y \in DOMAIN us : us[y].account = calls[m].account
    BY <1>2 DEF U2UList
  <2>2. PICK x \in DOMAIN s : LikeU2U(s[x], us[y])
    BY DEF U2UAlike
  <2> QED
    BY <2>1, <2>2 DEF LikeU2U
<1> QED
  BY <1>1, <1>2 DEF U2UList, U2UAlike

(* The same for fungible transfers. *)
LEMMA AlikeTokensRight ==
    ASSUME NEW calls, NEW ts, NEW s, TokenList(calls, ts), TokensAlike(ts, s)
    PROVE  TokenList(calls, s)
<1>1. ASSUME NEW x \in DOMAIN s
      PROVE  TokenOk(calls, s[x])
  <2>1. PICK y \in DOMAIN ts : LikeToken(s[x], ts[y])
    BY DEF TokensAlike
  <2>2. TokenOk(calls, ts[y])
    BY DEF TokenList
  <2>3. TokenCalls(calls, s[x]) = TokenCalls(calls, ts[y])
    BY <2>1, SameCalls DEF LikeToken
  <2>4. PICK f : FirstOf(ts, s[x].token, f) /\ s[x].decimals = ts[f].decimals
    BY DEF TokensAlike
  <2>5. f \in DOMAIN ts /\ ts[f].token = s[x].token
    BY <2>4 DEF FirstOf
  <2>6. Given(calls, ts[f].token, ts[f].decimals)
    BY <2>5 DEF TokenList, TokenOk
  <2>7. Given(calls, s[x].token, s[x].decimals)
    BY <2>4, <2>5, <2>6
  <2> QED
    BY <2>1, <2>2, <2>3, <2>7 DEF TokenOk, LikeToken
<1>2. ASSUME NEW m \in DOMAIN calls, calls[m].op \in PaidOps
      PROVE  \E x \in DOMAIN s : /\ s[x].token = calls[m].token
                                 /\ s[x].account = calls[m].account
  <2>1. PICK y \in DOMAIN ts : /\ ts[y].token = calls[m].token
                               /\ ts[y].account = calls[m].account
    BY <1>2 DEF TokenList
  <2>2. PICK x \in DOMAIN s : LikeToken(s[x], ts[y])
    BY DEF TokensAlike
  <2> QED
    BY <2>1, <2>2 DEF LikeToken
<1> QED
  BY <1>1, <1>2 DEF TokenList, TokensAlike

(* The same for NFTs. *)
LEMMA AlikeNftsRight ==
    ASSUME NEW calls, NEW ns, NEW s, NftList(calls, ns), NftsAlike(ns, s)
    PROVE  NftList(calls, s)
<1>1. ASSUME NEW x \in DOMAIN s
      PROVE  NftOk(calls, s[x])
  <2>1. PICK y \in DOMAIN ns : LikeNft(s[x], ns[y])
    BY DEF NftsAlike
  <2>2. NftOk(calls, ns[y])
    BY DEF NftList
  <2>3. NftCalls(calls, s[x]) = NftCalls(calls, ns[y])
    BY <2>1, SameCalls DEF LikeNft
  <2> QED
    BY <2>1, <2>2, <2>3 DEF NftOk, LikeNft
<1>2. ASSUME NEW m \in DOMAIN calls, calls[m].op = "nft"
      PROVE  \E x \in DOMAIN s : /\ s[x].token = calls[m].token
                                 /\ s[x].serial = calls[m].serial
  <2>1. PICK y \in DOMAIN ns : /\ ns[y].token = calls[m].token
                               /\ ns[y].serial = calls[m].serial
    BY <1>2 DEF NftList
  <2>2. PICK x \in DOMAIN s : LikeNft(s[x], ns[y])
    BY DEF NftsAlike
  <2> QED
    BY <2>1, <2>2 DEF LikeNft
<1> QED
  BY <1>1, <1>2 DEF NftList, NftsAlike

(* It stays so when approvals are set, and when it is sorted. *)
LEMMA AlikeU2USame ==
    ASSUME NEW us, NEW s, NEW new, U2UAlike(us, s), SameU2U(s, new)
    PROVE  U2UAlike(us, new)
<1>1. /\ DOMAIN new = DOMAIN s /\ new \in Seq(U2UEntry)
      /\ \A x \in DOMAIN s : /\ new[x].account = s[x].account
                             /\ new[x].amount = s[x].amount
  BY DEF SameU2U
<1>2. \A x \in DOMAIN s : \A y \in DOMAIN us :
        LikeU2U(s[x], us[y]) => LikeU2U(new[x], us[y])
  BY <1>1 DEF LikeU2U
<1> QED
  BY <1>1, <1>2 DEF U2UAlike

LEMMA AlikeTokensSame ==
    ASSUME NEW ts, NEW s, NEW new, TokensAlike(ts, s), SameTokens(s, new)
    PROVE  TokensAlike(ts, new)
<1>1. /\ DOMAIN new = DOMAIN s /\ new \in Seq(TokenEntry)
      /\ \A x \in DOMAIN s : /\ new[x].token = s[x].token
                             /\ new[x].account = s[x].account
                             /\ new[x].amount = s[x].amount
                             /\ new[x].decimals = s[x].decimals
  BY DEF SameTokens
<1>2. \A x \in DOMAIN s : \A y \in DOMAIN ts :
        LikeToken(s[x], ts[y]) => LikeToken(new[x], ts[y])
  BY <1>1 DEF LikeToken
<1>3. ASSUME NEW x \in DOMAIN s
      PROVE  \E f : FirstOf(ts, new[x].token, f) /\ new[x].decimals = ts[f].decimals
  BY <1>1 DEF TokensAlike
<1> QED
  BY <1>1, <1>2, <1>3 DEF TokensAlike

LEMMA AlikeNftsSame ==
    ASSUME NEW ns, NEW s, NEW new, NftsAlike(ns, s), SameNfts(s, new)
    PROVE  NftsAlike(ns, new)
<1>1. /\ DOMAIN new = DOMAIN s /\ new \in Seq(NftEntry)
      /\ \A x \in DOMAIN s : /\ new[x].token = s[x].token
                             /\ new[x].serial = s[x].serial
                             /\ new[x].sender = s[x].sender
                             /\ new[x].receiver = s[x].receiver
  BY DEF SameNfts
<1>2. \A x \in DOMAIN s : \A y \in DOMAIN ns :
        LikeNft(s[x], ns[y]) => LikeNft(new[x], ns[y])
  BY <1>1 DEF LikeNft
<1> QED
  BY <1>1, <1>2 DEF NftsAlike

LEMMA AlikeRearranged ==
    ASSUME NEW list, NEW s, NEW new, Rearranged(s, new)
    PROVE  /\ U2UAlike(list, s) /\ new \in Seq(U2UEntry) => U2UAlike(list, new)
           /\ TokensAlike(list, s) /\ new \in Seq(TokenEntry) =>
                TokensAlike(list, new)
           /\ NftsAlike(list, s) /\ new \in Seq(NftEntry) => NftsAlike(list, new)
<1>1. DOMAIN new = DOMAIN s
  BY DEF Rearranged
<1>2. PICK p \in [DOMAIN s -> DOMAIN s] :
        /\ \A k \in DOMAIN s : new[k] = s[p[k]]
        /\ \A w \in DOMAIN s : \E v \in DOMAIN s : p[v] = w
        /\ \A k, l \in DOMAIN s : p[k] = p[l] => k = l
  BY DEF Rearranged
<1>3. \A x \in DOMAIN s : p[x] \in DOMAIN s /\ new[x] = s[p[x]]
  BY <1>2
<1>4. \A w \in DOMAIN s : \E v \in DOMAIN s : new[v] = s[w]
  BY <1>2
<1>5. ASSUME U2UAlike(list, s), new \in Seq(U2UEntry)
      PROVE  U2UAlike(list, new)
  <2>1. \A x, y \in DOMAIN s : new[x].account = new[y].account => x = y
    <3>1. \A x, y \in DOMAIN s : s[x].account = s[y].account => x = y
      BY <1>5 DEF U2UAlike
    <3> QED
      BY <1>2, <1>3, <3>1
  <2>2. \A x \in DOMAIN s : \E y \in DOMAIN list : LikeU2U(new[x], list[y])
    BY <1>3, <1>5 DEF U2UAlike
  <2>3. ASSUME NEW y \in DOMAIN list
        PROVE  \E x \in DOMAIN s : LikeU2U(new[x], list[y])
    <3>1. PICK w \in DOMAIN s : LikeU2U(s[w], list[y])
      BY <1>5 DEF U2UAlike
    <3> QED
      BY <1>4, <3>1
  <2> QED
    BY <1>1, <1>5, <2>1, <2>2, <2>3 DEF U2UAlike
<1>6. ASSUME TokensAlike(list, s), new \in Seq(TokenEntry)
      PROVE  TokensAlike(list, new)
  <2>1. \A x, y \in DOMAIN s :
          new[x].token = new[y].token /\ new[x].account = new[y].account => x = y
    <3>1. \A x, y \in DOMAIN s :
            s[x].token = s[y].token /\ s[x].account = s[y].account => x = y
      BY <1>6 DEF TokensAlike
    <3> QED
      BY <1>2, <1>3, <3>1
  <2>2. \A x \in DOMAIN s : \E y \in DOMAIN list : LikeToken(new[x], list[y])
    BY <1>3, <1>6 DEF TokensAlike
  <2>3. ASSUME NEW y \in DOMAIN list
        PROVE  \E x \in DOMAIN s : LikeToken(new[x], list[y])
    <3>1. PICK w \in DOMAIN s : LikeToken(s[w], list[y])
      BY <1>6 DEF TokensAlike
    <3> QED
      BY <1>4, <3>1
  <2>4. ASSUME NEW x \in DOMAIN s
        PROVE  \E f : /\ FirstOf(list, new[x].token, f)
                      /\ new[x].decimals = list[f].decimals
    <3>1. \A w \in DOMAIN s : \E f : /\ FirstOf(list, s[w].token, f)
                                     /\ s[w].decimals = list[f].decimals
      BY <1>6 DEF TokensAlike
    <3>2. p[x] \in DOMAIN s /\ new[x] = s[p[x]]
      BY <1>3
    <3> QED
      BY <3>1, <3>2
  <2> QED
    BY <1>1, <1>6, <2>1, <2>2, <2>3, <2>4 DEF TokensAlike
<1>7. ASSUME NftsAlike(list, s), new \in Seq(NftEntry)
      PROVE  NftsAlike(list, new)
  <2>1. \A x, y \in DOMAIN s :
          new[x].token = new[y].token /\ new[x].serial = new[y].serial => x = y
    <3>1. \A x, y \in DOMAIN s :
            s[x].token = s[y].token /\ s[x].serial = s[y].serial => x = y
      BY <1>7 DEF NftsAlike
    <3> QED
      BY <1>2, <1>3, <3>1
  <2>2. \A x \in DOMAIN s : \E y \in DOMAIN list : LikeNft(new[x], list[y])
    BY <1>3, <1>7 DEF NftsAlike
  <2>3. ASSUME NEW y \in DOMAIN list
        PROVE  \E x \in DOMAIN s : LikeNft(new[x], list[y])
    <3>1. PICK w \in DOMAIN s : LikeNft(s[w], list[y])
      BY <1>7 DEF NftsAlike
    <3> QED
      BY <1>4, <3>1
  <2> QED
    BY <1>1, <1>7, <2>1, <2>2, <2>3 DEF NftsAlike
<1> QED
  BY <1>5, <1>6, <1>7

(* In the order of the sort, lists that are alike are so entry by entry. *)
LEMMA SortedU2UAlike ==
    ASSUME NEW us \in Seq(U2UEntry), NEW s, U2UAlike(us, s),
           U2USorted(us), U2USorted(s)
    PROVE  Len(s) = Len(us) /\ \A x \in DOMAIN us : LikeU2U(s[x], us[x])
<1> DEFINE n == Len(us)
           m == Len(s)
           a == [x \in 1..n |-> us[x].account]
           b == [x \in 1..m |-> s[x].account]
           R == {r \in Int \X Int : r[1] < r[2]}
<1>1. /\ s \in Seq(U2UEntry) /\ n \in Nat /\ DOMAIN us = 1..n
      /\ m \in Nat /\ DOMAIN s = 1..m
  BY DEF U2UAlike
<1>2. /\ \A x \in 1..n : us[x].account \in Int
      /\ \A x \in 1..m : s[x].account \in Int
  <2>1. \A x \in 1..n : us[x] \in U2UEntry
    BY <1>1
  <2>2. \A x \in 1..m : s[x] \in U2UEntry
    BY <1>1
  <2> QED
    BY <2>1, <2>2, EntryFields
<1>3. \A x, y : <<x, y>> \in R <=> x \in Int /\ y \in Int /\ x < y
  OBVIOUS
<1> HIDE DEF n, m, R
<1>4. InOrder(R, n, a)
  BY <1>1, <1>2, <1>3 DEF U2USorted, InOrder
<1>5. InOrder(R, m, b)
  BY <1>1, <1>2, <1>3 DEF U2USorted, InOrder
<1>6. AllIn(n, a, m, b)
  BY <1>1 DEF U2UAlike, LikeU2U, AllIn
<1>7. AllIn(m, b, n, a)
  BY <1>1 DEF U2UAlike, LikeU2U, AllIn
<1>8. \A x \in 1..n : a[x] = us[x].account
  OBVIOUS
<1>9. \A x \in 1..m : b[x] = s[x].account
  OBVIOUS
<1>10. Asymmetric(R)
  BY <1>3 DEF Asymmetric
<1> HIDE DEF a, b
<1>11. n = m /\ \A i \in 1..n : a[i] = b[i]
  BY <1>1, <1>4, <1>5, <1>6, <1>7, <1>10, UniqueOrder
<1>12. ASSUME NEW x \in DOMAIN us
       PROVE  LikeU2U(s[x], us[x])
  <2>1. PICK y \in DOMAIN us : LikeU2U(s[x], us[y])
    BY <1>1, <1>11 DEF U2UAlike
  <2>2. us[y].account = us[x].account
    BY <1>1, <1>8, <1>9, <1>11, <2>1 DEF LikeU2U
  <2>3. x = y
    <3>1. x < y => us[x].account < us[y].account
      BY DEF U2USorted
    <3>2. y < x => us[y].account < us[x].account
      BY DEF U2USorted
    <3> QED
      BY <1>1, <1>2, <2>2, <3>1, <3>2
  <2> QED
    BY <2>1, <2>3
<1> QED
  BY <1>11, <1>12 DEF n, m

(* The same for fungible transfers. *)
LEMMA SortedTokensAlike ==
    ASSUME NEW ts \in Seq(TokenEntry), NEW s, TokensAlike(ts, s),
           \A x, y \in DOMAIN ts :
             ts[x].token = ts[y].token /\ ts[x].account = ts[y].account => x = y,
           TokensSorted(ts), TokensSorted(s)
    PROVE  Len(s) = Len(ts) /\ \A x \in DOMAIN ts : LikeToken(s[x], ts[x])
<1> DEFINE n == Len(ts)
           m == Len(s)
           Key(e) == <<e.token, e.account>>
           a == [x \in 1..n |-> Key(ts[x])]
           b == [x \in 1..m |-> Key(s[x])]
           R == {r \in (Int \X Int) \X (Int \X Int) :
                   \/ r[1][1] < r[2][1]
                   \/ r[1][1] = r[2][1] /\ r[1][2] < r[2][2]}
<1>1. /\ s \in Seq(TokenEntry) /\ n \in Nat /\ DOMAIN ts = 1..n
      /\ m \in Nat /\ DOMAIN s = 1..m
  BY DEF TokensAlike
<1>2. /\ \A x \in 1..n : ts[x].token \in Int /\ ts[x].account \in Int
      /\ \A x \in 1..m : s[x].token \in Int /\ s[x].account \in Int
  <2>1. \A x \in 1..n : ts[x] \in TokenEntry
    BY <1>1
  <2>2. \A x \in 1..m : s[x] \in TokenEntry
    BY <1>1
  <2> QED
    BY <2>1, <2>2, EntryFields
<1>3. \A p, q \in Int \X Int :
        <<p, q>> \in R <=> p[1] < q[1] \/ (p[1] = q[1] /\ p[2] < q[2])
  OBVIOUS
<1>4. ASSUME NEW e, NEW d, e.token \in Int, e.account \in Int,
             d.token \in Int, d.account \in Int
      PROVE  /\ Key(e) \in Int \X Int /\ Key(d) \in Int \X Int
             /\ <<Key(e), Key(d)>> \in R <=> TokenOrder(e, d)
             /\ Key(e) = Key(d) <=> e.token = d.token /\ e.account = d.account
  BY <1>4 DEF TokenOrder
<1>5. Asymmetric(R)
  <2>1. SUFFICES ASSUME NEW x, NEW y, <<x, y>> \in R, <<y, x>> \in R
                 PROVE  FALSE
    BY DEF Asymmetric
  <2>2. x \in Int \X Int /\ y \in Int \X Int
    BY <2>1
  <2>3. x[1] \in Int /\ x[2] \in Int /\ y[1] \in Int /\ y[2] \in Int
    BY <2>2
  <2> HIDE DEF R
  <2> QED
    BY <1>3, <2>1, <2>2, <2>3
<1> HIDE DEF n, m, R, Key
<1>6. InOrder(R, n, a)
  <2>1. SUFFICES ASSUME NEW i \in 1..n, NEW j \in 1..n, i < j
                 PROVE  <<Key(ts[i]), Key(ts[j])>> \in R
    BY DEF InOrder
  <2>2. TokenOrder(ts[i], ts[j])
    BY <1>1, <2>1 DEF TokensSorted
  <2> QED
    BY <1>2, <1>4, <2>2
<1>7. InOrder(R, m, b)
  <2>1. SUFFICES ASSUME NEW i \in 1..m, NEW j \in 1..m, i < j
                 PROVE  <<Key(s[i]), Key(s[j])>> \in R
    BY DEF InOrder
  <2>2. TokenOrder(s[i], s[j])
    BY <1>1, <2>1 DEF TokensSorted
  <2> QED
    BY <1>2, <1>4, <2>2
<1>8. \A x \in 1..m : \A y \in 1..n : LikeToken(s[x], ts[y]) => b[x] = a[y]
  BY DEF LikeToken, Key
<1>9. AllIn(n, a, m, b)
  BY <1>1, <1>8 DEF TokensAlike, AllIn
<1>10. AllIn(m, b, n, a)
  BY <1>1, <1>8 DEF TokensAlike, AllIn
<1>11. /\ \A x \in 1..n : a[x] = Key(ts[x])
       /\ \A x \in 1..m : b[x] = Key(s[x])
  OBVIOUS
<1> HIDE DEF a, b
<1>12. n = m /\ \A i \in 1..n : a[i] = b[i]
  BY <1>1, <1>5, <1>6, <1>7, <1>9, <1>10, UniqueOrder
<1>13. ASSUME NEW x \in DOMAIN ts
       PROVE  LikeToken(s[x], ts[x])
  <2>1. PICK y \in DOMAIN ts : LikeToken(s[x], ts[y])
    BY <1>1, <1>12 DEF TokensAlike
  <2>2. Key(ts[y]) = Key(ts[x])
    BY <1>1, <1>8, <1>11, <1>12, <2>1
  <2>3. ts[y].token = ts[x].token /\ ts[y].account = ts[x].account
    BY <1>1, <1>2, <1>4, <2>2
  <2>4. x = y
    BY <2>3
  <2> QED
    BY <2>1, <2>4
<1> QED
  BY <1>12, <1>13 DEF n, m

(* Approvals do not count in the order. *)
LEMMA LikeNftOrder ==
    ASSUME NEW e, NEW d, NEW e2, NEW d2, LikeNft(e, d), LikeNft(e2, d2)
    PROVE  NftOrder(e, e2) <=> NftOrder(d, d2)
BY DEF LikeNft, NftOrder

(* The same for NFTs, unless two of them tie. *)
LEMMA SortedNftsAlike ==
    ASSUME NEW ns \in Seq(NftEntry), NEW s, NftsAlike(ns, s),
           \A x, y \in DOMAIN ns :
             ns[x].token = ns[y].token /\ ns[x].serial = ns[y].serial => x = y,
           NftsSorted(ns), NftsSorted(s), ~ Tied(s)
    PROVE  Len(s) = Len(ns) /\ \A x \in DOMAIN ns : LikeNft(s[x], ns[x])
<1> DEFINE n == Len(ns)
           m == Len(s)
           Key(e) == <<<<e.sender, e.receiver>>, <<e.serial, e.token>>>>
           a == [x \in 1..n |-> Key(ns[x])]
           b == [x \in 1..m |-> Key(s[x])]
           K == (Int \X Int) \X (Int \X Int)
           R == {r \in K \X K :
                   \/ r[1][1][1] < r[2][1][1]
                   \/ r[1][1][1] = r[2][1][1] /\ r[1][1][2] < r[2][1][2]
                   \/ /\ r[1][1][1] = r[2][1][1] /\ r[1][1][2] = r[2][1][2]
                      /\ r[1][2][1] < r[2][2][1]}
<1>1. /\ s \in Seq(NftEntry) /\ n \in Nat /\ DOMAIN ns = 1..n
      /\ m \in Nat /\ DOMAIN s = 1..m
  BY DEF NftsAlike
<1>2. /\ \A x \in 1..n : ns[x] \in NftEntry
      /\ \A x \in 1..m : s[x] \in NftEntry
  BY <1>1
<1>3. \A p, q \in K :
        <<p, q>> \in R <=>
          \/ p[1][1] < q[1][1]
          \/ p[1][1] = q[1][1] /\ p[1][2] < q[1][2]
          \/ p[1][1] = q[1][1] /\ p[1][2] = q[1][2] /\ p[2][1] < q[2][1]
  <2> HIDE DEF K
  <2> QED
    OBVIOUS
<1>a. \A e \in NftEntry : Key(e) \in K
  BY EntryFields
<1>4. ASSUME NEW e \in NftEntry, NEW d \in NftEntry
      PROVE  /\ <<Key(e), Key(d)>> \in R <=> NftOrder(e, d)
             /\ Key(e) = Key(d) => e.token = d.token /\ e.serial = d.serial
  <2>1. Key(e) \in K /\ Key(d) \in K
    BY <1>a
  <2>2. /\ Key(e)[1][1] = e.sender /\ Key(e)[1][2] = e.receiver
        /\ Key(e)[2][1] = e.serial /\ Key(e)[2][2] = e.token
        /\ Key(d)[1][1] = d.sender /\ Key(d)[1][2] = d.receiver
        /\ Key(d)[2][1] = d.serial /\ Key(d)[2][2] = d.token
    OBVIOUS
  <2> HIDE DEF Key, K, R
  <2> QED
    BY <1>3, <2>1, <2>2 DEF NftOrder
<1>5. Asymmetric(R)
  <2>1. SUFFICES ASSUME NEW x, NEW y, <<x, y>> \in R, <<y, x>> \in R
                 PROVE  FALSE
    BY DEF Asymmetric
  <2>2. x \in K /\ y \in K
    <3> HIDE DEF K
    <3> QED
      BY <2>1
  <2>3. /\ x[1][1] \in Int /\ x[1][2] \in Int /\ x[2][1] \in Int
        /\ y[1][1] \in Int /\ y[1][2] \in Int /\ y[2][1] \in Int
    BY <2>2
  <2> HIDE DEF R, K
  <2> QED
    BY <1>3, <2>1, <2>2, <2>3
<1> HIDE DEF n, m, R, Key, K
<1>6. InOrder(R, m, b)
  <2>1. SUFFICES ASSUME NEW i \in 1..m, NEW j \in 1..m, i < j
                 PROVE  <<Key(s[i]), Key(s[j])>> \in R
    BY DEF InOrder
  <2>2. ~ NftOrder(s[j], s[i])
    BY <1>1, <2>1 DEF NftsSorted
  <2>3. NftOrder(s[i], s[j]) \/ NftOrder(s[j], s[i])
    <3>1. i # j /\ i \in DOMAIN s /\ j \in DOMAIN s
      BY <1>1, <2>1
    <3> QED
      BY <3>1 DEF Tied
  <2> QED
    BY <1>2, <1>4, <2>2, <2>3
<1>7. InOrder(R, n, a)
  <2>1. SUFFICES ASSUME NEW i \in 1..n, NEW j \in 1..n, i < j
                 PROVE  <<Key(ns[i]), Key(ns[j])>> \in R
    BY DEF InOrder
  <2>2. ~ NftOrder(ns[j], ns[i])
    BY <1>1, <2>1 DEF NftsSorted
  <2>3. PICK v \in DOMAIN s : LikeNft(s[v], ns[i])
    BY <1>1, <2>1 DEF NftsAlike
  <2>4. PICK w \in DOMAIN s : LikeNft(s[w], ns[j])
    BY <1>1, <2>1 DEF NftsAlike
  <2>5. v # w
    <3>1. SUFFICES ASSUME v = w PROVE FALSE
      OBVIOUS
    <3>2. ns[i].token = ns[j].token /\ ns[i].serial = ns[j].serial
      BY <2>3, <2>4, <3>1 DEF LikeNft
    <3>3. i = j
      BY <1>1, <3>2
    <3> QED
      BY <2>1, <3>3
  <2>6. NftOrder(s[v], s[w]) \/ NftOrder(s[w], s[v])
    BY <2>5 DEF Tied
  <2>7. NftOrder(ns[i], ns[j])
    BY <2>2, <2>3, <2>4, <2>6, LikeNftOrder
  <2> QED
    BY <1>2, <1>4, <2>7
<1>8. \A x \in 1..m : \A y \in 1..n : LikeNft(s[x], ns[y]) => b[x] = a[y]
  BY DEF LikeNft, Key
<1>9. AllIn(n, a, m, b)
  BY <1>1, <1>8 DEF NftsAlike, AllIn
<1>10. AllIn(m, b, n, a)
  BY <1>1, <1>8 DEF NftsAlike, AllIn
<1>11. /\ \A x \in 1..n : a[x] = Key(ns[x])
       /\ \A x \in 1..m : b[x] = Key(s[x])
  OBVIOUS
<1> HIDE DEF a, b
<1>12. n = m /\ \A i \in 1..n : a[i] = b[i]
  BY <1>1, <1>5, <1>6, <1>7, <1>9, <1>10, UniqueOrder
<1>13. ASSUME NEW x \in DOMAIN ns
       PROVE  LikeNft(s[x], ns[x])
  <2>1. PICK y \in DOMAIN ns : LikeNft(s[x], ns[y])
    BY <1>1, <1>12 DEF NftsAlike
  <2>2. Key(ns[y]) = Key(ns[x])
    BY <1>1, <1>8, <1>11, <1>12, <2>1
  <2>3. ns[y].token = ns[x].token /\ ns[y].serial = ns[x].serial
    BY <1>1, <1>2, <1>4, <2>2
  <2>4. x = y
    BY <2>3
  <2> QED
    BY <2>1, <2>4
<1> QED
  BY <1>12, <1>13 DEF n, m

(* ---- Two loops on lists that are alike *)

AlikeTransfers(s, r) ==
  /\ Len(s) = Len(r)
  /\ \A m \in DOMAIN s : s[m].account = r[m].account /\ s[m].amount = r[m].amount
AlikeNfts(s, r) ==
  /\ Len(s) = Len(r)
  /\ \A m \in DOMAIN s : /\ s[m].serial = r[m].serial
                         /\ s[m].sender = r[m].sender
                         /\ s[m].receiver = r[m].receiver
AlikeGroups(g, h) ==
  /\ Len(g) = Len(h)
  /\ \A k \in DOMAIN g : /\ g[k].token = h[k].token
                         /\ AlikeTransfers(g[k].transfers, h[k].transfers)
                         /\ AlikeNfts(g[k].nfts, h[k].nfts)
AlikeInputs(ts, ns, ts2, ns2) ==
  /\ Len(ts2) = Len(ts) /\ \A x \in DOMAIN ts : LikeToken(ts2[x], ts[x])
  /\ Len(ns2) = Len(ns) /\ \A x \in DOMAIN ns : LikeNft(ns2[x], ns[x])
LoopsAlike(l, l2) ==
  l.i = l2.i /\ l.j = l2.j /\ AlikeGroups(l.groups, l2.groups)

(* The groups that the next transfers join, and what a step is. *)
TokenJoin(ts, ns, l) ==
  IF l.i < Len(ts) THEN Joins(l.groups, ts[l.i + 1].token, Both(ts, ns, l)) ELSE 0
NftJoin(ts, ns, l) ==
  IF l.j < Len(ns) THEN Joins(l.groups, ns[l.j + 1].token, Both(ts, ns, l)) ELSE 0
TokenFirst(ts, ns, l) ==
  /\ l.i < Len(ts)
  /\ Both(ts, ns, l) => ts[l.i + 1].token < ns[l.j + 1].token
Joint(ts, ns, l) == Both(ts, ns, l) /\ ts[l.i + 1].token = ns[l.j + 1].token
Past(l, di, dj, h) == [i |-> l.i + di, j |-> l.j + dj, groups |-> h]

(* What a step is, by what the next transfers join. *)
LEMMA StepIs ==
    ASSUME NEW ts, NEW ns, NEW l, ~ AtEnd(ts, ns, l),
           l.i < Len(ts) => ts[l.i + 1].token \in Int
    PROVE  LET g == l.groups
               t == ts[l.i + 1]
               n == ns[l.j + 1]
               a == TokenJoin(ts, ns, l)
               b == NftJoin(ts, ns, l)
               m == GroupStep(ts, ns, l)
           IN /\ a # 0 => m = Past(l, 1, 0, WithToken(g, a, t))
              /\ a = 0 /\ b # 0 => m = Past(l, 0, 1, WithNft(g, b, n))
              /\ a = 0 /\ b = 0 /\ Joint(ts, ns, l) =>
                   m = Past(l, 1, 1, Append(g, JointGroup(t, n)))
              /\ a = 0 /\ b = 0 /\ ~ Joint(ts, ns, l) /\ TokenFirst(ts, ns, l) =>
                   m = Past(l, 1, 0, Append(g, TokenGroup(t)))
              /\ a = 0 /\ b = 0 /\ ~ Joint(ts, ns, l) /\ ~ TokenFirst(ts, ns, l) =>
                   m = Past(l, 0, 1, Append(g, NftGroup(n)))
<1> DEFINE g == l.groups
           t == ts[l.i + 1]
           n == ns[l.j + 1]
           a == TokenJoin(ts, ns, l)
           b == NftJoin(ts, ns, l)
           joint == Joint(ts, ns, l)
           first == TokenFirst(ts, ns, l)
           m == GroupStep(ts, ns, l)
<1>1. m = CASE l.i = Len(ts) /\ l.j = Len(ns) -> l
            [] a # 0 -> Past(l, 1, 0, WithToken(g, a, t))
            [] a = 0 /\ b # 0 -> Past(l, 0, 1, WithNft(g, b, n))
            [] a = 0 /\ b = 0 /\ Both(ts, ns, l) /\ t.token = n.token ->
                 Past(l, 1, 1, Append(g, JointGroup(t, n)))
            [] a = 0 /\ b = 0 /\ l.i < Len(ts)
               /\ (Both(ts, ns, l) => t.token < n.token) ->
                 Past(l, 1, 0, Append(g, TokenGroup(t)))
            [] OTHER -> Past(l, 0, 1, Append(g, NftGroup(n)))
  BY DEF GroupStep, TokenJoin, NftJoin, Both, Past
<1>2. ~ (l.i = Len(ts) /\ l.j = Len(ns))
  BY DEF AtEnd
<1>3. joint <=> Both(ts, ns, l) /\ t.token = n.token
  BY DEF Joint
<1>4. first <=> l.i < Len(ts) /\ (Both(ts, ns, l) => t.token < n.token)
  BY DEF TokenFirst
<1>5. joint => ~ first
  <2> HIDE DEF g, a, b, m
  <2> QED
    BY DEF Joint, TokenFirst, Both
<1>6. m = CASE l.i = Len(ts) /\ l.j = Len(ns) -> l
            [] a # 0 -> Past(l, 1, 0, WithToken(g, a, t))
            [] a = 0 /\ b # 0 -> Past(l, 0, 1, WithNft(g, b, n))
            [] a = 0 /\ b = 0 /\ joint ->
                 Past(l, 1, 1, Append(g, JointGroup(t, n)))
            [] a = 0 /\ b = 0 /\ first ->
                 Past(l, 1, 0, Append(g, TokenGroup(t)))
            [] OTHER -> Past(l, 0, 1, Append(g, NftGroup(n)))
  <2> HIDE DEF m, a, b, g
  <2> QED
    BY <1>1 DEF Joint, TokenFirst
<1> HIDE DEF m, a, b, g, t, n, joint, first
<1>7. a # 0 => m = Past(l, 1, 0, WithToken(g, a, t))
  BY <1>2, <1>6, Zenon
<1>8. a = 0 /\ b # 0 => m = Past(l, 0, 1, WithNft(g, b, n))
  BY <1>2, <1>6, Zenon
<1>9. a = 0 /\ b = 0 /\ joint => m = Past(l, 1, 1, Append(g, JointGroup(t, n)))
  BY <1>2, <1>5, <1>6, Zenon
<1>10. a = 0 /\ b = 0 /\ ~ joint /\ first =>
         m = Past(l, 1, 0, Append(g, TokenGroup(t)))
  BY <1>2, <1>6, Zenon
<1>11. a = 0 /\ b = 0 /\ ~ joint /\ ~ first =>
         m = Past(l, 0, 1, Append(g, NftGroup(n)))
  BY <1>2, <1>6, Zenon
<1> QED
  BY <1>7, <1>8, <1>9, <1>10, <1>11 DEF m, a, b, g, t, n, joint, first

(* One more transfer in each of two lists. *)
LEMMA AppendAlike ==
    ASSUME NEW s, NEW r, NEW x, NEW y
    PROVE  /\ /\ s \in TokenProtos /\ r \in TokenProtos /\ AlikeTransfers(s, r)
              /\ x \in TokenProto /\ y \in TokenProto
              /\ x.account = y.account /\ x.amount = y.amount
              => AlikeTransfers(Append(s, x), Append(r, y))
           /\ /\ s \in NftProtos /\ r \in NftProtos /\ AlikeNfts(s, r)
              /\ x \in NftProto /\ y \in NftProto
              /\ x.serial = y.serial /\ x.sender = y.sender
              /\ x.receiver = y.receiver
              => AlikeNfts(Append(s, x), Append(r, y))
<1>1. ASSUME s \in TokenProtos, r \in TokenProtos, AlikeTransfers(s, r),
             x \in TokenProto, y \in TokenProto,
             x.account = y.account, x.amount = y.amount
      PROVE  AlikeTransfers(Append(s, x), Append(r, y))
  <2> DEFINE n == Len(s)
  <2>1. /\ n \in Nat /\ DOMAIN s = 1..n /\ Len(Append(s, x)) = n + 1
        /\ DOMAIN Append(s, x) = 1..(n + 1) /\ Append(s, x)[n + 1] = x
        /\ \A k \in 1..n : Append(s, x)[k] = s[k]
    BY <1>1, OneMore DEF TokenProtos
  <2>2. /\ Len(r) \in Nat /\ Len(Append(r, y)) = Len(r) + 1
        /\ Append(r, y)[Len(r) + 1] = y
        /\ \A k \in 1..Len(r) : Append(r, y)[k] = r[k]
    BY <1>1, OneMore DEF TokenProtos
  <2>3. Len(r) = n /\ \A k \in 1..n : /\ s[k].account = r[k].account
                                      /\ s[k].amount = r[k].amount
    BY <1>1, <2>1 DEF AlikeTransfers
  <2>4. \A k \in 1..(n + 1) : k \in 1..n \/ k = n + 1
    BY <2>1
  <2> HIDE DEF n
  <2>5. \A k \in 1..(n + 1) :
          /\ Append(s, x)[k].account = Append(r, y)[k].account
          /\ Append(s, x)[k].amount = Append(r, y)[k].amount
    BY <1>1, <2>1, <2>2, <2>3, <2>4
  <2> QED
    BY <2>1, <2>2, <2>3, <2>5 DEF AlikeTransfers
<1>2. ASSUME s \in NftProtos, r \in NftProtos, AlikeNfts(s, r),
             x \in NftProto, y \in NftProto,
             x.serial = y.serial, x.sender = y.sender, x.receiver = y.receiver
      PROVE  AlikeNfts(Append(s, x), Append(r, y))
  <2> DEFINE n == Len(s)
  <2>1. /\ n \in Nat /\ DOMAIN s = 1..n /\ Len(Append(s, x)) = n + 1
        /\ DOMAIN Append(s, x) = 1..(n + 1) /\ Append(s, x)[n + 1] = x
        /\ \A k \in 1..n : Append(s, x)[k] = s[k]
    BY <1>2, OneMore DEF NftProtos
  <2>2. /\ Len(r) \in Nat /\ Len(Append(r, y)) = Len(r) + 1
        /\ Append(r, y)[Len(r) + 1] = y
        /\ \A k \in 1..Len(r) : Append(r, y)[k] = r[k]
    BY <1>2, OneMore DEF NftProtos
  <2>3. Len(r) = n /\ \A k \in 1..n : /\ s[k].serial = r[k].serial
                                      /\ s[k].sender = r[k].sender
                                      /\ s[k].receiver = r[k].receiver
    BY <1>2, <2>1 DEF AlikeNfts
  <2>4. \A k \in 1..(n + 1) : k \in 1..n \/ k = n + 1
    BY <2>1
  <2> HIDE DEF n
  <2>5. \A k \in 1..(n + 1) :
          /\ Append(s, x)[k].serial = Append(r, y)[k].serial
          /\ Append(s, x)[k].sender = Append(r, y)[k].sender
          /\ Append(s, x)[k].receiver = Append(r, y)[k].receiver
    BY <1>2, <2>1, <2>2, <2>3, <2>4
  <2> QED
    BY <2>1, <2>2, <2>3, <2>5 DEF AlikeNfts
<1> QED
  BY <1>1, <1>2

(* Lists without transfers are alike. *)
LEMMA NoneAlike == AlikeTransfers(<<>>, <<>>) /\ AlikeNfts(<<>>, <<>>)
<1>1. DOMAIN << >> = {}
  OBVIOUS
<1> QED
  BY <1>1 DEF AlikeTransfers, AlikeNfts

(* Groups that are alike, place by place. *)
LEMMA AlikeAt ==
    ASSUME NEW g \in Seq(Group), NEW g2 \in Seq(Group), AlikeGroups(g, g2), NEW k
    PROVE  /\ AlikeTransfers(TransfersAt(g, k), TransfersAt(g2, k))
           /\ AlikeNfts(NftsAt(g, k), NftsAt(g2, k))
           /\ TransfersAt(g, k) \in TokenProtos /\ NftsAt(g, k) \in NftProtos
           /\ TransfersAt(g2, k) \in TokenProtos /\ NftsAt(g2, k) \in NftProtos
<1>1. DOMAIN g = DOMAIN g2
  BY GroupFields DEF AlikeGroups
<1>2. <<>> \in TokenProtos /\ <<>> \in NftProtos
  BY DEF TokenProtos, NftProtos
<1>3. CASE k \in DOMAIN g
  BY <1>1, <1>3, GroupFields DEF AlikeGroups, TransfersAt, NftsAt
<1>4. CASE k \notin DOMAIN g
  BY <1>1, <1>2, <1>4, NoneAlike DEF TransfersAt, NftsAt
<1> QED
  BY <1>3, <1>4

(* Steps that do alike to groups that are alike. *)
SameTokenStep(g, h, g2, h2) ==
  \/ TokensKept(g, h) /\ TokensKept(g2, h2)
  \/ \E a : \E t, t2 \in TokenEntry :
       /\ LikeToken(t2, t)
       /\ TokenAdded(g, h, a, t) /\ TokenAdded(g2, h2, a, t2)
SameNftStep(g, h, g2, h2) ==
  \/ NftsKept(g, h) /\ NftsKept(g2, h2)
  \/ \E b : \E n, n2 \in NftEntry :
       /\ LikeNft(n2, n)
       /\ NftAdded(g, h, b, n) /\ NftAdded(g2, h2, b, n2)

(* Steps that do alike keep the groups alike. *)
LEMMA StepsAlike ==
    ASSUME NEW g \in Seq(Group), NEW g2 \in Seq(Group), AlikeGroups(g, g2),
           NEW h \in Seq(Group), NEW h2 \in Seq(Group), Len(h) = Len(h2),
           \A k \in DOMAIN h : h[k].token = h2[k].token,
           SameTokenStep(g, h, g2, h2), SameNftStep(g, h, g2, h2)
    PROVE  AlikeGroups(h, h2)
<1>1. DOMAIN h = DOMAIN h2
  BY GroupFields
<1>2. ASSUME NEW k \in DOMAIN h
      PROVE  AlikeTransfers(h[k].transfers, h2[k].transfers)
  <2>1. CASE TokensKept(g, h) /\ TokensKept(g2, h2)
    BY <1>1, <2>1, AlikeAt DEF TokensKept
  <2>2. ASSUME NEW a, NEW t \in TokenEntry, NEW t2 \in TokenEntry,
               LikeToken(t2, t), TokenAdded(g, h, a, t), TokenAdded(g2, h2, a, t2)
        PROVE  AlikeTransfers(h[k].transfers, h2[k].transfers)
    <3>1. CASE k # a
      BY <1>1, <2>2, <3>1, AlikeAt DEF TokenAdded
    <3>2. CASE k = a
      <4> DEFINE x == TokenToProtobuf(t)
                 y == TokenToProtobuf(t2)
      <4>1. /\ x \in TokenProto /\ y \in TokenProto
            /\ x.account = t.account /\ x.amount = t.amount
            /\ y.account = t2.account /\ y.amount = t2.amount
        BY Protos
      <4>2. x.account = y.account /\ x.amount = y.amount
        BY <2>2, <4>1 DEF LikeToken
      <4>3. /\ h[k].transfers = Append(TransfersAt(g, a), x)
            /\ h2[k].transfers = Append(TransfersAt(g2, a), y)
        BY <2>2, <3>2 DEF TokenAdded
      <4> HIDE DEF x, y
      <4> QED
        BY <4>1, <4>2, <4>3, AlikeAt, AppendAlike
    <3> QED
      BY <3>1, <3>2
  <2> QED
    BY <2>1, <2>2 DEF SameTokenStep
<1>3. ASSUME NEW k \in DOMAIN h
      PROVE  AlikeNfts(h[k].nfts, h2[k].nfts)
  <2>1. CASE NftsKept(g, h) /\ NftsKept(g2, h2)
    BY <1>1, <2>1, AlikeAt DEF NftsKept
  <2>2. ASSUME NEW b, NEW n \in NftEntry, NEW n2 \in NftEntry,
               LikeNft(n2, n), NftAdded(g, h, b, n), NftAdded(g2, h2, b, n2)
        PROVE  AlikeNfts(h[k].nfts, h2[k].nfts)
    <3>1. CASE k # b
      BY <1>1, <2>2, <3>1, AlikeAt DEF NftAdded
    <3>2. CASE k = b
      <4> DEFINE x == NftToProtobuf(n)
                 y == NftToProtobuf(n2)
      <4>1. /\ x \in NftProto /\ y \in NftProto
            /\ x.serial = n.serial /\ x.sender = n.sender
            /\ x.receiver = n.receiver /\ y.serial = n2.serial
            /\ y.sender = n2.sender /\ y.receiver = n2.receiver
        BY Protos
      <4>2. /\ x.serial = y.serial /\ x.sender = y.sender
            /\ x.receiver = y.receiver
        BY <2>2, <4>1 DEF LikeNft
      <4>3. /\ h[k].nfts = Append(NftsAt(g, b), x)
            /\ h2[k].nfts = Append(NftsAt(g2, b), y)
        BY <2>2, <3>2 DEF NftAdded
      <4> HIDE DEF x, y
      <4> QED
        BY <4>1, <4>2, <4>3, AlikeAt, AppendAlike
    <3> QED
      BY <3>1, <3>2
  <2> QED
    BY <2>1, <2>2 DEF SameNftStep
<1> QED
  BY <1>2, <1>3 DEF AlikeGroups

(* Two loops at the same step take transfers that are alike. *)
LEMMA AlikeInputFacts ==
    ASSUME NEW ts, NEW ns, NEW ts2, NEW ns2, NEW l, NEW l2,
           Inputs(ts, ns), Inputs(ts2, ns2), AlikeInputs(ts, ns, ts2, ns2),
           Ranges(ts, ns, l), Ranges(ts2, ns2, l2), LoopsAlike(l, l2)
    PROVE  /\ l2.i = l.i /\ l2.j = l.j
           /\ Len(ts2) = Len(ts) /\ Len(ns2) = Len(ns)
           /\ Both(ts2, ns2, l2) <=> Both(ts, ns, l)
           /\ l.i < Len(ts) => LikeToken(ts2[l2.i + 1], ts[l.i + 1])
           /\ l.j < Len(ns) => LikeNft(ns2[l2.j + 1], ns[l.j + 1])
<1>1. l2.i = l.i /\ l2.j = l.j
  BY DEF LoopsAlike
<1>2. Len(ts2) = Len(ts) /\ Len(ns2) = Len(ns)
  BY DEF AlikeInputs
<1>3. l.i < Len(ts) => LikeToken(ts2[l2.i + 1], ts[l.i + 1])
  BY <1>1, NextEntries DEF AlikeInputs
<1>4. l.j < Len(ns) => LikeNft(ns2[l2.j + 1], ns[l.j + 1])
  BY <1>1, NextEntries DEF AlikeInputs
<1> QED
  BY <1>1, <1>2, <1>3, <1>4 DEF Both

(* They join the same group. *)
LEMMA JoinsAlike ==
    ASSUME NEW g \in Seq(Group), NEW g2 \in Seq(Group), AlikeGroups(g, g2),
           NEW token, NEW both \in BOOLEAN
    PROVE  Joins(g2, token, both) = Joins(g, token, both)
<1> DEFINE at(h) == {k \in DOMAIN h : h[k].token = token}
<1>1. Len(g2) = Len(g) /\ DOMAIN g2 = DOMAIN g /\ DOMAIN g = 1..Len(g)
      /\ Len(g) \in Nat
  BY GroupFields DEF AlikeGroups
<1>2. \A k \in DOMAIN g : g2[k].token = g[k].token
  BY DEF AlikeGroups
<1>3. at(g2) = at(g)
  BY <1>1, <1>2
<1>4. at(g) # {} => g2[Len(g)].token = g[Len(g)].token
  BY <1>1, <1>2
<1>5. /\ Joins(g, token, both)
           = IF at(g) = {} \/ (both /\ g[Len(g)].token # token) THEN 0
             ELSE Max(at(g))
      /\ Joins(g2, token, both)
           = IF at(g2) = {} \/ (both /\ g2[Len(g2)].token # token) THEN 0
             ELSE Max(at(g2))
  BY DEF Joins, Where
<1> HIDE DEF at
<1> QED
  BY <1>1, <1>3, <1>4, <1>5

(* A step gives groups of the same tokens. *)
LEMMA StepTokensAlike ==
    ASSUME NEW g \in Seq(Group), NEW g2 \in Seq(Group), AlikeGroups(g, g2),
           NEW h, NEW h2, Stays(g, h), Stays(g2, h2),
           Len(h2) = Len(h), Len(h) \in {Len(g), Len(g) + 1},
           Len(h) = Len(g) + 1 => h[Len(g) + 1].token = h2[Len(g) + 1].token
    PROVE  \A k \in DOMAIN h : h[k].token = h2[k].token
<1>1. h \in Seq(Group) /\ h2 \in Seq(Group)
  BY DEF Stays
<1>2. /\ DOMAIN h = 1..Len(h) /\ DOMAIN g = 1..Len(g) /\ DOMAIN g2 = DOMAIN g
      /\ Len(g) \in Nat /\ Len(h) \in Nat
  BY <1>1, GroupFields DEF AlikeGroups
<1>3. \A k \in DOMAIN g : h[k].token = h2[k].token
  BY <1>2 DEF AlikeGroups, Stays
<1>4. \A k \in DOMAIN h : k \in DOMAIN g \/ (k = Len(g) + 1 /\ Len(h) = Len(g) + 1)
  BY <1>2
<1> QED
  BY <1>3, <1>4

(* A step of each keeps the two loops alike. *)
LEMMA StepLoopsAlike ==
    ASSUME NEW ts, NEW ns, NEW ts2, NEW ns2, NEW l, NEW l2,
           Inputs(ts, ns), Inputs(ts2, ns2), AlikeInputs(ts, ns, ts2, ns2),
           Ranges(ts, ns, l), Ranges(ts2, ns2, l2), LoopsAlike(l, l2),
           ~ AtEnd(ts, ns, l)
    PROVE  LoopsAlike(GroupStep(ts, ns, l), GroupStep(ts2, ns2, l2))
<1> DEFINE g == l.groups
           t == ts[l.i + 1]
           n == ns[l.j + 1]
           a == TokenJoin(ts, ns, l)
           b == NftJoin(ts, ns, l)
           g2 == l2.groups
           t2 == ts2[l2.i + 1]
           n2 == ns2[l2.j + 1]
           m == GroupStep(ts, ns, l)
           m2 == GroupStep(ts2, ns2, l2)
<1>1. g \in Seq(Group) /\ g2 \in Seq(Group) /\ AlikeGroups(g, g2)
  BY DEF Ranges, LoopsAlike
<1>2. /\ l2.i = l.i /\ l2.j = l.j /\ Len(ts2) = Len(ts) /\ Len(ns2) = Len(ns)
      /\ Both(ts2, ns2, l2) <=> Both(ts, ns, l)
      /\ l.i < Len(ts) => LikeToken(t2, t)
      /\ l.j < Len(ns) => LikeNft(n2, n)
  BY AlikeInputFacts
<1>3. /\ l.i \in Nat /\ l.j \in Nat
      /\ l.i < Len(ts) => t \in TokenEntry /\ t2 \in TokenEntry /\ t.token \in Int
      /\ l.j < Len(ns) => n \in NftEntry /\ n2 \in NftEntry /\ n.token \in Int
  <2>1. /\ l.i \in Nat /\ l.j \in Nat
        /\ l.i < Len(ts) => t \in TokenEntry /\ t.token \in Int
        /\ l.j < Len(ns) => n \in NftEntry /\ n.token \in Int
    BY NextEntries
  <2>2. /\ l2.i < Len(ts2) => t2 \in TokenEntry
        /\ l2.j < Len(ns2) => n2 \in NftEntry
    BY NextEntries
  <2> HIDE DEF t, n, t2, n2
  <2> QED
    BY <1>2, <2>1, <2>2
<1>4. /\ l.i < Len(ts) => t2.token = t.token
      /\ l.j < Len(ns) => n2.token = n.token
  BY <1>2 DEF LikeToken, LikeNft
<1>5. TokenJoin(ts2, ns2, l2) = a
  <2>1. Joins(g2, t.token, Both(ts, ns, l)) = Joins(g, t.token, Both(ts, ns, l))
    <3>1. Both(ts, ns, l) \in BOOLEAN
      BY DEF Both
    <3> HIDE DEF g, g2, t
    <3> QED
      BY <1>1, <3>1, JoinsAlike
  <2>2. Both(ts2, ns2, l2) = Both(ts, ns, l)
    BY <1>2 DEF Both
  <2> QED
    BY <1>2, <1>4, <2>1, <2>2 DEF TokenJoin
<1>6. NftJoin(ts2, ns2, l2) = b
  <2>1. Joins(g2, n.token, Both(ts, ns, l)) = Joins(g, n.token, Both(ts, ns, l))
    <3>1. Both(ts, ns, l) \in BOOLEAN
      BY DEF Both
    <3> HIDE DEF g, g2, n
    <3> QED
      BY <1>1, <3>1, JoinsAlike
  <2>2. Both(ts2, ns2, l2) = Both(ts, ns, l)
    BY <1>2 DEF Both
  <2> QED
    BY <1>2, <1>4, <2>1, <2>2 DEF NftJoin
<1>7. /\ Joint(ts2, ns2, l2) <=> Joint(ts, ns, l)
      /\ TokenFirst(ts2, ns2, l2) <=> TokenFirst(ts, ns, l)
  BY <1>2, <1>4 DEF Joint, TokenFirst, Both
<1>8. ~ AtEnd(ts2, ns2, l2)
  BY <1>2 DEF AtEnd
<1>9. a # 0 => l.i < Len(ts) /\ a \in DOMAIN g /\ g[a].token = t.token
  <2>1. Both(ts, ns, l) \in BOOLEAN
    BY DEF Both
  <2>2. Joining(g, t.token, Both(ts, ns, l), Joins(g, t.token, Both(ts, ns, l)))
    BY <1>1, <2>1, JoinsFacts
  <2> HIDE DEF g, t
  <2> QED
    BY <2>2 DEF TokenJoin, Joining, g, t
<1>10. b # 0 => l.j < Len(ns) /\ b \in DOMAIN g /\ g[b].token = n.token
  <2>1. Both(ts, ns, l) \in BOOLEAN
    BY DEF Both
  <2>2. Joining(g, n.token, Both(ts, ns, l), Joins(g, n.token, Both(ts, ns, l)))
    BY <1>1, <2>1, JoinsFacts
  <2> HIDE DEF g, n
  <2> QED
    BY <2>2 DEF NftJoin, Joining, g, n
<1>11. \A h, h2 : \A di, dj \in 0..1 :
         /\ m = Past(l, di, dj, h) /\ m2 = Past(l2, di, dj, h2)
         /\ AlikeGroups(h, h2)
         => LoopsAlike(m, m2)
  <2>1. \A h, h2 : \A di, dj \in 0..1 :
          /\ AlikeGroups(h, h2)
          => LoopsAlike(Past(l, di, dj, h), Past(l2, di, dj, h2))
    BY <1>2 DEF Past, LoopsAlike
  <2> HIDE DEF m, m2
  <2> QED
    BY <2>1
<1>12. /\ a # 0 => m = Past(l, 1, 0, WithToken(g, a, t))
       /\ a = 0 /\ b # 0 => m = Past(l, 0, 1, WithNft(g, b, n))
       /\ a = 0 /\ b = 0 /\ Joint(ts, ns, l) =>
            m = Past(l, 1, 1, Append(g, JointGroup(t, n)))
       /\ a = 0 /\ b = 0 /\ ~ Joint(ts, ns, l) /\ TokenFirst(ts, ns, l) =>
            m = Past(l, 1, 0, Append(g, TokenGroup(t)))
       /\ a = 0 /\ b = 0 /\ ~ Joint(ts, ns, l) /\ ~ TokenFirst(ts, ns, l) =>
            m = Past(l, 0, 1, Append(g, NftGroup(n)))
  <2>1. l.i < Len(ts) => ts[l.i + 1].token \in Int
    BY <1>3
  <2> QED
    BY <2>1, StepIs
<1>13. /\ a # 0 => m2 = Past(l2, 1, 0, WithToken(g2, a, t2))
       /\ a = 0 /\ b # 0 => m2 = Past(l2, 0, 1, WithNft(g2, b, n2))
       /\ a = 0 /\ b = 0 /\ Joint(ts, ns, l) =>
            m2 = Past(l2, 1, 1, Append(g2, JointGroup(t2, n2)))
       /\ a = 0 /\ b = 0 /\ ~ Joint(ts, ns, l) /\ TokenFirst(ts, ns, l) =>
            m2 = Past(l2, 1, 0, Append(g2, TokenGroup(t2)))
       /\ a = 0 /\ b = 0 /\ ~ Joint(ts, ns, l) /\ ~ TokenFirst(ts, ns, l) =>
            m2 = Past(l2, 0, 1, Append(g2, NftGroup(n2)))
  <2>1. l2.i < Len(ts2) => ts2[l2.i + 1].token \in Int
    BY NextEntries
  <2> DEFINE a2 == TokenJoin(ts2, ns2, l2)
             b2 == NftJoin(ts2, ns2, l2)
  <2>2. /\ a2 # 0 => m2 = Past(l2, 1, 0, WithToken(g2, a2, t2))
        /\ a2 = 0 /\ b2 # 0 => m2 = Past(l2, 0, 1, WithNft(g2, b2, n2))
        /\ a2 = 0 /\ b2 = 0 /\ Joint(ts2, ns2, l2) =>
             m2 = Past(l2, 1, 1, Append(g2, JointGroup(t2, n2)))
        /\ a2 = 0 /\ b2 = 0 /\ ~ Joint(ts2, ns2, l2) /\ TokenFirst(ts2, ns2, l2) =>
             m2 = Past(l2, 1, 0, Append(g2, TokenGroup(t2)))
        /\ a2 = 0 /\ b2 = 0 /\ ~ Joint(ts2, ns2, l2) /\ ~ TokenFirst(ts2, ns2, l2) =>
             m2 = Past(l2, 0, 1, Append(g2, NftGroup(n2)))
    BY <1>8, <2>1, StepIs
  <2>3. a2 = a /\ b2 = b
    BY <1>5, <1>6
  <2> HIDE DEF m2, g2, t2, n2, a, b, a2, b2
  <2> QED
    BY <1>7, <2>2, <2>3
<1>14. Len(g2) = Len(g) /\ Len(g) \in Nat /\ DOMAIN g2 = DOMAIN g
       /\ \A k \in DOMAIN g : g2[k].token = g[k].token
  BY <1>1, GroupFields DEF AlikeGroups
<1> HIDE DEF m, m2, g, g2, t, t2, n, n2, a, b
<1>15. CASE a # 0
  <2> DEFINE h == WithToken(g, a, t)
             h2 == WithToken(g2, a, t2)
  <2>1. /\ Stays(g, h) /\ Len(h) = Len(g)
        /\ TokenAdded(g, h, a, t) /\ NftsKept(g, h)
    BY <1>1, <1>3, <1>9, <1>15, WithTokenEffect
  <2>2. /\ Stays(g2, h2) /\ Len(h2) = Len(g2)
        /\ TokenAdded(g2, h2, a, t2) /\ NftsKept(g2, h2)
    <3>1. a \in DOMAIN g2 /\ g2[a].token = t2.token /\ t2 \in TokenEntry
      BY <1>3, <1>4, <1>9, <1>14, <1>15
    <3> QED
      BY <1>1, <3>1, WithTokenEffect
  <2> HIDE DEF h, h2
  <2>3. SameTokenStep(g, h, g2, h2) /\ SameNftStep(g, h, g2, h2)
    BY <1>2, <1>3, <1>9, <1>15, <2>1, <2>2 DEF SameTokenStep, SameNftStep
  <2>4. \A k \in DOMAIN h : h[k].token = h2[k].token
    BY <1>1, <1>14, <2>1, <2>2, StepTokensAlike
  <2>5. AlikeGroups(h, h2)
    <3>1. h \in Seq(Group) /\ h2 \in Seq(Group) /\ Len(h) = Len(h2)
      BY <1>14, <2>1, <2>2 DEF Stays
    <3> QED
      BY <1>1, <2>3, <2>4, <3>1, StepsAlike
  <2>6. m = Past(l, 1, 0, h) /\ m2 = Past(l2, 1, 0, h2)
    BY <1>12, <1>13, <1>15 DEF h, h2
  <2>7. LoopsAlike(m, m2)
    BY <1>11, <2>5, <2>6
  <2> QED
    BY <2>7 DEF m, m2
<1>16. CASE a = 0 /\ b # 0
  <2> DEFINE h == WithNft(g, b, n)
             h2 == WithNft(g2, b, n2)
  <2>1. /\ Stays(g, h) /\ Len(h) = Len(g)
        /\ NftAdded(g, h, b, n) /\ TokensKept(g, h)
    BY <1>1, <1>3, <1>10, <1>16, WithNftEffect
  <2>2. /\ Stays(g2, h2) /\ Len(h2) = Len(g2)
        /\ NftAdded(g2, h2, b, n2) /\ TokensKept(g2, h2)
    <3>1. b \in DOMAIN g2 /\ g2[b].token = n2.token /\ n2 \in NftEntry
      BY <1>3, <1>4, <1>10, <1>14, <1>16
    <3> QED
      BY <1>1, <3>1, WithNftEffect
  <2> HIDE DEF h, h2
  <2>3. SameTokenStep(g, h, g2, h2) /\ SameNftStep(g, h, g2, h2)
    BY <1>2, <1>3, <1>10, <1>16, <2>1, <2>2 DEF SameTokenStep, SameNftStep
  <2>4. \A k \in DOMAIN h : h[k].token = h2[k].token
    BY <1>1, <1>14, <2>1, <2>2, StepTokensAlike
  <2>5. AlikeGroups(h, h2)
    <3>1. h \in Seq(Group) /\ h2 \in Seq(Group) /\ Len(h) = Len(h2)
      BY <1>14, <2>1, <2>2 DEF Stays
    <3> QED
      BY <1>1, <2>3, <2>4, <3>1, StepsAlike
  <2>6. m = Past(l, 0, 1, h) /\ m2 = Past(l2, 0, 1, h2)
    BY <1>12, <1>13, <1>16 DEF h, h2
  <2>7. LoopsAlike(m, m2)
    BY <1>11, <2>5, <2>6
  <2> QED
    BY <2>7 DEF m, m2
<1>17. CASE a = 0 /\ b = 0 /\ Joint(ts, ns, l)
  <2> DEFINE h == Append(g, JointGroup(t, n))
             h2 == Append(g2, JointGroup(t2, n2))
  <2>1. l.i < Len(ts) /\ l.j < Len(ns) /\ t.token = n.token
    BY <1>17 DEF Joint, Both, t, n
  <2>2. /\ Stays(g, h) /\ Len(h) = Len(g) + 1
        /\ TokenAdded(g, h, Len(g) + 1, t) /\ NftAdded(g, h, Len(g) + 1, n)
    BY <1>1, <1>3, <2>1, JointGroupEffect
  <2>3. /\ Stays(g2, h2) /\ Len(h2) = Len(g) + 1
        /\ TokenAdded(g2, h2, Len(g) + 1, t2) /\ NftAdded(g2, h2, Len(g) + 1, n2)
    <3>1. /\ Stays(g2, h2) /\ Len(h2) = Len(g2) + 1
          /\ TokenAdded(g2, h2, Len(g2) + 1, t2)
          /\ NftAdded(g2, h2, Len(g2) + 1, n2)
      BY <1>1, <1>3, <1>4, <2>1, JointGroupEffect
    <3> HIDE DEF h2
    <3> QED
      BY <1>14, <3>1
  <2> HIDE DEF h, h2
  <2>4. SameTokenStep(g, h, g2, h2) /\ SameNftStep(g, h, g2, h2)
    BY <1>2, <1>3, <2>1, <2>2, <2>3 DEF SameTokenStep, SameNftStep
  <2>5. h[Len(g) + 1].token = h2[Len(g) + 1].token
    BY <1>4, <2>1, <2>2, <2>3 DEF TokenAdded
  <2>6. \A k \in DOMAIN h : h[k].token = h2[k].token
    <3>1. /\ Len(h2) = Len(h) /\ Len(h) \in {Len(g), Len(g) + 1}
          /\ Stays(g, h) /\ Stays(g2, h2)
      BY <2>2, <2>3
    <3>2. Len(h) = Len(g) + 1 => h[Len(g) + 1].token = h2[Len(g) + 1].token
      BY <2>5
    <3> QED
      BY <1>1, <3>1, <3>2, StepTokensAlike
  <2>7. AlikeGroups(h, h2)
    <3>1. h \in Seq(Group) /\ h2 \in Seq(Group) /\ Len(h) = Len(h2)
      BY <1>14, <2>2, <2>3 DEF Stays
    <3> QED
      BY <1>1, <2>4, <2>6, <3>1, StepsAlike
  <2>8. m = Past(l, 1, 1, h) /\ m2 = Past(l2, 1, 1, h2)
    BY <1>12, <1>13, <1>17 DEF h, h2
  <2>9. LoopsAlike(m, m2)
    BY <1>11, <2>7, <2>8
  <2> QED
    BY <2>9 DEF m, m2
<1>18. CASE a = 0 /\ b = 0 /\ ~ Joint(ts, ns, l) /\ TokenFirst(ts, ns, l)
  <2> DEFINE h == Append(g, TokenGroup(t))
             h2 == Append(g2, TokenGroup(t2))
  <2>1. l.i < Len(ts)
    BY <1>18 DEF TokenFirst
  <2>2. /\ Stays(g, h) /\ Len(h) = Len(g) + 1
        /\ TokenAdded(g, h, Len(g) + 1, t) /\ NftsKept(g, h)
    BY <1>1, <1>3, <2>1, TokenGroupEffect
  <2>3. /\ Stays(g2, h2) /\ Len(h2) = Len(g) + 1
        /\ TokenAdded(g2, h2, Len(g) + 1, t2) /\ NftsKept(g2, h2)
    <3>1. /\ Stays(g2, h2) /\ Len(h2) = Len(g2) + 1
          /\ TokenAdded(g2, h2, Len(g2) + 1, t2) /\ NftsKept(g2, h2)
      BY <1>1, <1>3, <2>1, TokenGroupEffect
    <3> HIDE DEF h2
    <3> QED
      BY <1>14, <3>1
  <2> HIDE DEF h, h2
  <2>4. SameTokenStep(g, h, g2, h2) /\ SameNftStep(g, h, g2, h2)
    BY <1>2, <1>3, <2>1, <2>2, <2>3 DEF SameTokenStep, SameNftStep
  <2>5. h[Len(g) + 1].token = h2[Len(g) + 1].token
    BY <1>4, <2>1, <2>2, <2>3 DEF TokenAdded
  <2>6. \A k \in DOMAIN h : h[k].token = h2[k].token
    <3>1. /\ Len(h2) = Len(h) /\ Len(h) \in {Len(g), Len(g) + 1}
          /\ Stays(g, h) /\ Stays(g2, h2)
      BY <2>2, <2>3
    <3>2. Len(h) = Len(g) + 1 => h[Len(g) + 1].token = h2[Len(g) + 1].token
      BY <2>5
    <3> QED
      BY <1>1, <3>1, <3>2, StepTokensAlike
  <2>7. AlikeGroups(h, h2)
    <3>1. h \in Seq(Group) /\ h2 \in Seq(Group) /\ Len(h) = Len(h2)
      BY <1>14, <2>2, <2>3 DEF Stays
    <3> QED
      BY <1>1, <2>4, <2>6, <3>1, StepsAlike
  <2>8. m = Past(l, 1, 0, h) /\ m2 = Past(l2, 1, 0, h2)
    BY <1>12, <1>13, <1>18 DEF h, h2
  <2>9. LoopsAlike(m, m2)
    BY <1>11, <2>7, <2>8
  <2> QED
    BY <2>9 DEF m, m2
<1>19. CASE a = 0 /\ b = 0 /\ ~ Joint(ts, ns, l) /\ ~ TokenFirst(ts, ns, l)
  <2> DEFINE h == Append(g, NftGroup(n))
             h2 == Append(g2, NftGroup(n2))
  <2>1. l.j < Len(ns)
    <3>1. /\ l.i \in 0..Len(ts) /\ l.j \in 0..Len(ns)
          /\ Len(ts) \in Nat /\ Len(ns) \in Nat
      BY InputFacts DEF Ranges
    <3>2. l.i < Len(ts) => Both(ts, ns, l)
      BY <1>19 DEF TokenFirst
    <3> QED
      BY <3>1, <3>2 DEF AtEnd, Both
  <2>2. /\ Stays(g, h) /\ Len(h) = Len(g) + 1
        /\ NftAdded(g, h, Len(g) + 1, n) /\ TokensKept(g, h)
    BY <1>1, <1>3, <2>1, NftGroupEffect
  <2>3. /\ Stays(g2, h2) /\ Len(h2) = Len(g) + 1
        /\ NftAdded(g2, h2, Len(g) + 1, n2) /\ TokensKept(g2, h2)
    <3>1. /\ Stays(g2, h2) /\ Len(h2) = Len(g2) + 1
          /\ NftAdded(g2, h2, Len(g2) + 1, n2) /\ TokensKept(g2, h2)
      BY <1>1, <1>3, <2>1, NftGroupEffect
    <3> HIDE DEF h2
    <3> QED
      BY <1>14, <3>1
  <2> HIDE DEF h, h2
  <2>4. SameTokenStep(g, h, g2, h2) /\ SameNftStep(g, h, g2, h2)
    BY <1>2, <1>3, <2>1, <2>2, <2>3 DEF SameTokenStep, SameNftStep
  <2>5. h[Len(g) + 1].token = h2[Len(g) + 1].token
    BY <1>4, <2>1, <2>2, <2>3 DEF NftAdded
  <2>6. \A k \in DOMAIN h : h[k].token = h2[k].token
    <3>1. /\ Len(h2) = Len(h) /\ Len(h) \in {Len(g), Len(g) + 1}
          /\ Stays(g, h) /\ Stays(g2, h2)
      BY <2>2, <2>3
    <3>2. Len(h) = Len(g) + 1 => h[Len(g) + 1].token = h2[Len(g) + 1].token
      BY <2>5
    <3> QED
      BY <1>1, <3>1, <3>2, StepTokensAlike
  <2>7. AlikeGroups(h, h2)
    <3>1. h \in Seq(Group) /\ h2 \in Seq(Group) /\ Len(h) = Len(h2)
      BY <1>14, <2>2, <2>3 DEF Stays
    <3> QED
      BY <1>1, <2>4, <2>6, <3>1, StepsAlike
  <2>8. m = Past(l, 0, 1, h) /\ m2 = Past(l2, 0, 1, h2)
    BY <1>12, <1>13, <1>19 DEF h, h2
  <2>9. LoopsAlike(m, m2)
    BY <1>11, <2>7, <2>8
  <2> QED
    BY <2>9 DEF m, m2
<1>20. a # 0 \/ (a = 0 /\ b # 0) \/ (a = 0 /\ b = 0)
  OBVIOUS
<1> QED
  BY <1>15, <1>16, <1>17, <1>18, <1>19, <1>20 DEF m, m2

(* Lists that are alike entry by entry are grouped alike. *)
LEMMA GroupedAlike ==
    ASSUME NEW ts, NEW ns, NEW ts2, NEW ns2,
           Inputs(ts, ns), Inputs(ts2, ns2), AlikeInputs(ts, ns, ts2, ns2)
    PROVE  AlikeGroups(Grouped(ts, ns), Grouped(ts2, ns2))
<1> DEFINE n == Len(ts) + Len(ns)
           f == Loop(ts, ns)
           f2 == Loop(ts2, ns2)
           Wrong == {k \in 0..n : ~ LoopsAlike(f[k], f2[k])}
<1>1. /\ Len(ts) \in Nat /\ Len(ns) \in Nat /\ n \in Nat
      /\ Len(ts2) = Len(ts) /\ Len(ns2) = Len(ns)
  BY InputFacts DEF AlikeInputs
<1>2. /\ f[0] = [i |-> 0, j |-> 0, groups |-> <<>>]
      /\ \A k \in 1..n : f[k] = GroupStep(ts, ns, f[k - 1])
  BY <1>1, LoopSteps
<1>3. /\ f2[0] = [i |-> 0, j |-> 0, groups |-> <<>>]
      /\ \A k \in 1..n : f2[k] = GroupStep(ts2, ns2, f2[k - 1])
  BY <1>1, LoopSteps
<1>4. \A k \in 0..n : LoopState(ts, ns, f[k])
  BY LoopStates
<1>5. \A k \in 0..n : LoopState(ts2, ns2, f2[k])
  BY <1>1, LoopStates
<1> HIDE DEF f, f2
<1>6. LoopsAlike(f[0], f2[0])
  <2>1. DOMAIN << >> = {} /\ Len(<<>>) = 0
    OBVIOUS
  <2>2. AlikeGroups(<<>>, <<>>)
    BY <2>1 DEF AlikeGroups
  <2> QED
    BY <1>2, <1>3, <2>2 DEF LoopsAlike
<1>7. ASSUME NEW k \in 1..n, LoopsAlike(f[k - 1], f2[k - 1])
      PROVE  LoopsAlike(f[k], f2[k])
  <2>1. k - 1 \in 0..n
    BY <1>1
  <2> DEFINE l == f[k - 1]
             l2 == f2[k - 1]
  <2>2. LoopState(ts, ns, l) /\ LoopState(ts2, ns2, l2) /\ LoopsAlike(l, l2)
    BY <1>4, <1>5, <1>7, <2>1
  <2>3. f[k] = GroupStep(ts, ns, l) /\ f2[k] = GroupStep(ts2, ns2, l2)
    BY <1>2, <1>3
  <2> HIDE DEF l, l2
  <2>4. CASE AtEnd(ts, ns, l)
    <3>1. AtEnd(ts2, ns2, l2)
      BY <1>1, <2>2, <2>4 DEF AtEnd, LoopsAlike
    <3>2. GroupStep(ts, ns, l) = l /\ GroupStep(ts2, ns2, l2) = l2
      BY <2>2, <2>4, <3>1, LoopStateStep
    <3> QED
      BY <2>2, <2>3, <3>2
  <2>5. CASE ~ AtEnd(ts, ns, l)
    <3>1. Ranges(ts, ns, l) /\ Ranges(ts2, ns2, l2)
      BY <2>2 DEF LoopState
    <3> QED
      BY <2>2, <2>3, <2>5, <3>1, StepLoopsAlike
  <2> QED
    BY <2>4, <2>5
<1>8. Wrong = {}
  <2>1. SUFFICES ASSUME Wrong # {} PROVE FALSE
    OBVIOUS
  <2>2. PICK k \in Wrong : \A y \in Wrong : k <= y
    <3>1. Wrong \subseteq Nat
      BY <1>1
    <3> HIDE DEF Wrong
    <3> QED
      BY <2>1, <3>1, LeastNat
  <2>3. k \in 0..n /\ ~ LoopsAlike(f[k], f2[k])
    BY <2>2
  <2>4. k # 0
    BY <1>6, <2>3
  <2>5. k \in 1..n /\ k - 1 \in 0..n /\ ~ (k <= k - 1)
    BY <1>1, <2>3, <2>4
  <2>6. k - 1 \notin Wrong
    <3> HIDE DEF Wrong
    <3> QED
      BY <2>2, <2>5
  <2>7. LoopsAlike(f[k - 1], f2[k - 1])
    BY <2>5, <2>6
  <2> QED
    BY <1>7, <2>3, <2>5, <2>7
<1>9. LoopsAlike(f[n], f2[n])
  BY <1>1, <1>8
<1>10. Grouped(ts, ns) = f[n].groups /\ Grouped(ts2, ns2) = f2[n].groups
  BY <1>1 DEF Grouped, f, f2
<1> QED
  BY <1>9, <1>10 DEF LoopsAlike

(* There is one first transfer of a token. *)
LEMMA FirstOfOnce ==
    ASSUME NEW ts \in Seq(TokenEntry), NEW token, NEW f, NEW f2,
           FirstOf(ts, token, f), FirstOf(ts, token, f2)
    PROVE  f = f2
<1>1. DOMAIN ts = 1..Len(ts) /\ Len(ts) \in Nat
  OBVIOUS
<1>2. f \in DOMAIN ts /\ f2 \in DOMAIN ts /\ f <= f2 /\ f2 <= f
  BY DEF FirstOf
<1> QED
  BY <1>1, <1>2

(* The decimals of the groups are the same. *)
LEMMA DecimalsAlike ==
    ASSUME NEW ts \in Seq(TokenEntry), NEW ts2 \in Seq(TokenEntry),
           TokensAlike(ts, ts2), NEW g \in Seq(Group), NEW g2 \in Seq(Group),
           AlikeGroups(g, g2), DecimalsOf(ts, g), DecimalsOf(ts2, g2)
    PROVE  \A k \in DOMAIN g : g2[k].decimals = g[k].decimals
<1> SUFFICES ASSUME NEW k \in DOMAIN g PROVE g2[k].decimals = g[k].decimals
  OBVIOUS
<1>1. k \in DOMAIN g2
  BY GroupFields DEF AlikeGroups
<1>2. g[k].token = g2[k].token /\ Len(g[k].transfers) = Len(g2[k].transfers)
  BY DEF AlikeGroups, AlikeTransfers
<1>3. g[k].transfers = <<>> <=> g2[k].transfers = <<>>
  <2>1. g[k].transfers \in Seq(TokenProto) /\ g2[k].transfers \in Seq(TokenProto)
    BY <1>1, GroupFields DEF TokenProtos
  <2> QED
    BY <1>2, <2>1
<1>4. CASE g[k].transfers = <<>>
  BY <1>1, <1>3, <1>4 DEF DecimalsOf
<1>5. CASE g[k].transfers # <<>>
  <2>1. PICK f : FirstOf(ts, g[k].token, f) /\ g[k].decimals = ts[f].decimals
    BY <1>5 DEF DecimalsOf
  <2>2. PICK f2 : FirstOf(ts2, g2[k].token, f2)
                  /\ g2[k].decimals = ts2[f2].decimals
    BY <1>1, <1>3, <1>5 DEF DecimalsOf
  <2>3. f2 \in DOMAIN ts2 /\ ts2[f2].token = g2[k].token
    BY <2>2 DEF FirstOf
  <2>4. PICK f3 : FirstOf(ts, ts2[f2].token, f3)
                  /\ ts2[f2].decimals = ts[f3].decimals
    BY <2>3 DEF TokensAlike
  <2>5. f3 = f
    <3>1. FirstOf(ts, g[k].token, f3)
      BY <1>2, <2>3, <2>4
    <3> QED
      BY <2>1, <3>1, FirstOfOnce
  <2> QED
    BY <2>1, <2>2, <2>4, <2>5
<1> QED
  BY <1>4, <1>5

(* ---- The body made again *)

(* Transfers that differ in approvals. *)
LEMMA UnmarkedAlike ==
    ASSUME NEW x, NEW y
    PROVE  /\ /\ x \in TokenProto /\ y \in TokenProto
              /\ x.account = y.account /\ x.amount = y.amount
              => [x EXCEPT !.approval = FALSE] = [y EXCEPT !.approval = FALSE]
           /\ /\ x \in NftProto /\ y \in NftProto /\ x.serial = y.serial
              /\ x.sender = y.sender /\ x.receiver = y.receiver
              => [x EXCEPT !.approval = FALSE] = [y EXCEPT !.approval = FALSE]
BY DEF TokenProto, NftProto

LEMMA UnmarkedProtos ==
    ASSUME NEW d \in U2UEntry, NEW e \in U2UEntry,
           d.account = e.account, d.amount = e.amount
    PROVE  [TokenToProtobuf(d) EXCEPT !.approval = FALSE]
             = [TokenToProtobuf(e) EXCEPT !.approval = FALSE]
<1>1. ASSUME NEW a \in U2UEntry
      PROVE  /\ TokenToProtobuf(a) \in TokenProto
             /\ TokenToProtobuf(a).account = a.account
             /\ TokenToProtobuf(a).amount = a.amount
  BY DEF TokenToProtobuf, TokenProto, U2UEntry
<1> QED
  BY <1>1, UnmarkedAlike

Bare(s) == [i \in DOMAIN s |-> [s[i] EXCEPT !.approval = FALSE]]

(* Lists of transfers without their approvals. *)
LEMMA BareAlike ==
    ASSUME NEW s, NEW r
    PROVE  /\ s \in TokenProtos /\ r \in TokenProtos /\ AlikeTransfers(s, r) =>
                Bare(s) = Bare(r)
           /\ s \in NftProtos /\ r \in NftProtos /\ AlikeNfts(s, r) =>
                Bare(s) = Bare(r)
<1>1. ASSUME s \in TokenProtos, r \in TokenProtos, AlikeTransfers(s, r)
      PROVE  Bare(s) = Bare(r)
  <2>1. DOMAIN s = DOMAIN r
    BY <1>1 DEF TokenProtos, AlikeTransfers
  <2>2. \A i \in DOMAIN s : s[i] \in TokenProto /\ r[i] \in TokenProto
    BY <1>1, <2>1 DEF TokenProtos
  <2>3. \A i \in DOMAIN s : s[i].account = r[i].account /\ s[i].amount = r[i].amount
    BY <1>1 DEF AlikeTransfers
  <2>4. \A i \in DOMAIN s : [s[i] EXCEPT !.approval = FALSE]
                              = [r[i] EXCEPT !.approval = FALSE]
    BY <2>2, <2>3, UnmarkedAlike
  <2> QED
    BY <2>1, <2>4 DEF Bare
<1>2. ASSUME s \in NftProtos, r \in NftProtos, AlikeNfts(s, r)
      PROVE  Bare(s) = Bare(r)
  <2>1. DOMAIN s = DOMAIN r
    BY <1>2 DEF NftProtos, AlikeNfts
  <2>2. \A i \in DOMAIN s : s[i] \in NftProto /\ r[i] \in NftProto
    BY <1>2, <2>1 DEF NftProtos
  <2>3. \A i \in DOMAIN s : /\ s[i].serial = r[i].serial
                            /\ s[i].sender = r[i].sender
                            /\ s[i].receiver = r[i].receiver
    BY <1>2 DEF AlikeNfts
  <2>4. \A i \in DOMAIN s : [s[i] EXCEPT !.approval = FALSE]
                              = [r[i] EXCEPT !.approval = FALSE]
    BY <2>2, <2>3, UnmarkedAlike
  <2> QED
    BY <2>1, <2>4 DEF Bare
<1> QED
  BY <1>1, <1>2

(* Groups without their approvals. *)
LEMMA GroupBare ==
    ASSUME NEW x \in Group, NEW y \in Group, x.token = y.token,
           x.decimals = y.decimals, AlikeTransfers(x.transfers, y.transfers),
           AlikeNfts(x.nfts, y.nfts)
    PROVE  [x EXCEPT !.transfers = Bare(@), !.nfts = Bare(@)]
             = [y EXCEPT !.transfers = Bare(@), !.nfts = Bare(@)]
<1>1. /\ x.transfers \in TokenProtos /\ x.nfts \in NftProtos
      /\ y.transfers \in TokenProtos /\ y.nfts \in NftProtos
  BY DEF Group
<1>2. Bare(x.transfers) = Bare(y.transfers) /\ Bare(x.nfts) = Bare(y.nfts)
  BY <1>1, BareAlike
<1> QED
  BY <1>2 DEF Group

(* The body made again is the same but for approvals, unless NFTs tie. *)
LEMMA RemadeAlike ==
    ASSUME NEW calls, NEW us, NEW ts, NEW ns, NEW us2, NEW ts2, NEW ns2,
           U2UList(calls, us), TokenList(calls, ts), NftList(calls, ns),
           U2USorted(us), TokensSorted(ts), NftsSorted(ns),
           U2UAlike(us, us2), TokensAlike(ts, ts2), NftsAlike(ns, ns2),
           U2USorted(us2), TokensSorted(ts2), NftsSorted(ns2), ~ Tied(ns2)
    PROVE  Unmarked(TransferMake(us2, ts2, ns2)) = Unmarked(TransferMake(us, ts, ns))
<1> DEFINE g == Grouped(ts, ns)
           g2 == Grouped(ts2, ns2)
           b == TransferMake(us, ts, ns)
           b2 == TransferMake(us2, ts2, ns2)
           plain(u) == [i \in DOMAIN u |-> TokenToProtobuf(u[i])]
           bareGroups(h) == [k \in DOMAIN h |->
                               [h[k] EXCEPT !.transfers = Bare(@),
                                            !.nfts = Bare(@)]]
<1>1. Inputs(ts, ns)
  BY ListsAreInputs
<1>2. Inputs(ts2, ns2)
  BY AlikeTokensRight, AlikeNftsRight, ListsAreInputs
<1>3. /\ us \in Seq(U2UEntry) /\ us2 \in Seq(U2UEntry)
      /\ ts \in Seq(TokenEntry) /\ ts2 \in Seq(TokenEntry)
      /\ ns \in Seq(NftEntry)
  BY <1>1, <1>2 DEF U2UList, U2UAlike, Inputs
<1>4. AlikeInputs(ts, ns, ts2, ns2)
  <2>1. Len(ts2) = Len(ts) /\ \A x \in DOMAIN ts : LikeToken(ts2[x], ts[x])
    BY <1>1, <1>3, SortedTokensAlike DEF Inputs
  <2>2. Len(ns2) = Len(ns) /\ \A x \in DOMAIN ns : LikeNft(ns2[x], ns[x])
    BY <1>1, <1>3, SortedNftsAlike DEF Inputs
  <2> QED
    BY <2>1, <2>2 DEF AlikeInputs
<1>5. AlikeGroups(g, g2)
  BY <1>1, <1>2, <1>4, GroupedAlike
<1>6. /\ g \in Seq(Group) /\ g2 \in Seq(Group)
      /\ DecimalsOf(ts, g) /\ DecimalsOf(ts2, g2)
  BY <1>1, <1>2, GroupedRight
<1>7. bareGroups(g2) = bareGroups(g)
  <2> HIDE DEF g, g2
  <2>1. DOMAIN g2 = DOMAIN g
    BY <1>5, <1>6, GroupFields DEF AlikeGroups
  <2>2. \A k \in DOMAIN g : g2[k].decimals = g[k].decimals
    BY <1>3, <1>5, <1>6, DecimalsAlike
  <2>3. ASSUME NEW k \in DOMAIN g
        PROVE  [g2[k] EXCEPT !.transfers = Bare(@), !.nfts = Bare(@)]
                 = [g[k] EXCEPT !.transfers = Bare(@), !.nfts = Bare(@)]
    <3>1. g[k] \in Group /\ g2[k] \in Group
      BY <1>6, <2>1, GroupFields
    <3>2. /\ g[k].token = g2[k].token /\ g[k].decimals = g2[k].decimals
          /\ AlikeTransfers(g[k].transfers, g2[k].transfers)
          /\ AlikeNfts(g[k].nfts, g2[k].nfts)
      BY <1>5, <2>2 DEF AlikeGroups
    <3>3. [g[k] EXCEPT !.transfers = Bare(@), !.nfts = Bare(@)]
            = [g2[k] EXCEPT !.transfers = Bare(@), !.nfts = Bare(@)]
      BY <3>1, <3>2, GroupBare
    <3> QED
      BY <3>3
  <2> QED
    BY <2>1, <2>3
<1>8. Bare(plain(us2)) = Bare(plain(us))
  <2>1. Len(us2) = Len(us) /\ \A x \in DOMAIN us : LikeU2U(us2[x], us[x])
    BY <1>3, SortedU2UAlike
  <2>2. DOMAIN us2 = DOMAIN us
    BY <1>3, <2>1
  <2>3. ASSUME NEW x \in DOMAIN us
        PROVE  [TokenToProtobuf(us2[x]) EXCEPT !.approval = FALSE]
                 = [TokenToProtobuf(us[x]) EXCEPT !.approval = FALSE]
    <3>1. us2[x].account = us[x].account /\ us2[x].amount = us[x].amount
      BY <2>1 DEF LikeU2U
    <3>2. us[x] \in U2UEntry /\ us2[x] \in U2UEntry
      BY <1>3, <2>2
    <3> QED
      BY <3>1, <3>2, UnmarkedProtos
  <2> QED
    BY <2>2, <2>3 DEF Bare
<1>9. /\ b.transfers = plain(us) /\ b.tokenTransfers = g
      /\ b2.transfers = plain(us2) /\ b2.tokenTransfers = g2
  BY DEF TransferMake
<1>10. ASSUME NEW c
       PROVE  Unmarked(c) = [transfers |-> Bare(c.transfers),
                             tokenTransfers |-> bareGroups(c.tokenTransfers)]
  BY DEF Unmarked, Bare
<1>11. /\ Unmarked(b) = [transfers |-> Bare(plain(us)),
                         tokenTransfers |-> bareGroups(g)]
       /\ Unmarked(b2) = [transfers |-> Bare(plain(us2)),
                          tokenTransfers |-> bareGroups(g2)]
  <2> HIDE DEF b, b2, g, g2, plain, bareGroups
  <2> QED
    BY <1>9, <1>10
<1> HIDE DEF b, b2, g, g2, plain, bareGroups
<1>12. Unmarked(b2) = Unmarked(b)
  BY <1>7, <1>8, <1>11
<1> QED
  BY <1>12 DEF b, b2

(* ---- The transaction *)

(* The body was made of lists that are right, in the order of the sort. *)
MadeOf(us, ts, ns) ==
  /\ U2UList(asked, us) /\ TokenList(asked, ts) /\ NftList(asked, ns)
  /\ U2USorted(us) /\ TokensSorted(ts) /\ NftsSorted(ns)
  /\ moved = TransferMake(us, ts, ns)
TransferType ==
  /\ asked \in Seq(AddCall) /\ made \in {"open", "frozen", "reread", "remade"}
  /\ u2u \in Seq(U2UEntry) /\ tokens \in Seq(TokenEntry)
  /\ nfts \in Seq(NftEntry)
ListsRight ==
  U2UList(asked, u2u) /\ TokenList(asked, tokens) /\ NftList(asked, nfts)

(* What fromBytes() returned is alike to what was encoded. *)
ListsAlike(us, ts, ns) ==
  U2UAlike(us, u2u) /\ TokensAlike(ts, tokens) /\ NftsAlike(ns, nfts)
BodyMade ==
  \E us, ts, ns : /\ MadeOf(us, ts, ns)
                  /\ made = "reread" => ListsAlike(us, ts, ns)
TransferInv ==
  /\ TransferType
  /\ made = "open" => ListsRight
  /\ made # "open" => BodyMade
  /\ made = "remade" => BodyFaithful(movedAgain, asked) /\ RoundTrip

(* Nothing is asked for and nothing is in the lists. *)
LEMMA TransferInitOk == TransferInit => TransferInv
<1> SUFFICES ASSUME TransferInit PROVE TransferInv
  OBVIOUS
<1>1. DOMAIN << >> = {}
  OBVIOUS
<1>2. U2UList(<<>>, <<>>) /\ TokenList(<<>>, <<>>) /\ NftList(<<>>, <<>>)
  BY <1>1 DEF U2UList, TokenList, NftList
<1> QED
  BY <1>2 DEF TransferInit, TransferInv, TransferType, ListsRight

(* An add method. *)
LEMMA AddOk ==
    ASSUME TransferInv, NEW c \in AddCalls, Add(c)
    PROVE  TransferInv'
<1>1. c \in AddCall
  BY AddCallsAssumption DEF AddCall
<1>2. /\ asked \in Seq(AddCall) /\ made = "open" /\ made' = made
      /\ asked' = Append(asked, c)
      /\ U2UList(asked, u2u) /\ TokenList(asked, tokens) /\ NftList(asked, nfts)
  BY DEF TransferInv, TransferType, ListsRight, Add
<1>3. asked' \in Seq(AddCall)
  BY <1>1, <1>2
<1>4. U2UList(asked', u2u')
  <2>1. u2u' = IF c.op = "u2u" THEN AddU2UTransfer(u2u, c) ELSE u2u
    BY DEF Add
  <2> QED
    BY <1>1, <1>2, <2>1, AddU2URight
<1>5. NftList(asked', nfts')
  <2>1. nfts' = IF c.op = "nft" THEN AddNftTransfer(nfts, c) ELSE nfts
    BY DEF Add
  <2> QED
    BY <1>1, <1>2, <2>1, AddNftRight
<1>6. TokenList(asked', tokens')
  <2>1. \/ c.op = "token" /\ tokens' = AddTokenTransfer(tokens, c)
        \/ /\ c.op = "decimals" /\ Clashes(tokens, c) = {}
           /\ tokens' = AddTokenTransferWithDecimals(tokens, c)
        \/ c.op \notin PaidOps \cup DecimalsOps /\ tokens' = tokens
    BY DEF Add, PaidOps, DecimalsOps
  <2>2. CASE c.op = "token" /\ tokens' = AddTokenTransfer(tokens, c)
    BY <1>1, <1>2, <2>2, AddTokenRight
  <2>3. CASE /\ c.op = "decimals" /\ Clashes(tokens, c) = {}
             /\ tokens' = AddTokenTransferWithDecimals(tokens, c)
    BY <1>1, <1>2, <2>3, AddDecimalsRight
  <2>4. CASE c.op \notin PaidOps \cup DecimalsOps /\ tokens' = tokens
    BY <1>1, <1>2, <2>4, TokenListKept
  <2> QED
    BY <2>1, <2>2, <2>3, <2>4
<1>7. TransferType'
  BY <1>2, <1>3, <1>4, <1>5, <1>6
     DEF TransferType, U2UList, TokenList, NftList
<1>8. ListsRight'
  BY <1>4, <1>5, <1>6 DEF ListsRight
<1> QED
  BY <1>2, <1>7, <1>8 DEF TransferInv

(* An add method that throws. *)
LEMMA AddThrowsOk ==
    ASSUME TransferInv, NEW c \in AddCalls, AddThrows(c)
    PROVE  TransferInv'
<1> DEFINE op == IF Paid(tokens, c) = {} THEN "threw" ELSE "threwPaid"
           d == [c EXCEPT !.op = op]
<1>1. /\ c \in [op : {"decimals"}, token : Int, account : Int, amount : Int,
                decimals : Int]
      /\ c \in AddCall /\ c.op = "decimals"
  BY AddCallsAssumption DEF AddCall, AddThrows
<1>2. /\ d.op = op /\ d.token = c.token /\ d.account = c.account
      /\ d.amount = c.amount /\ d.decimals = c.decimals
  BY <1>1
<1>3. d \in AddCall
  BY <1>1 DEF AddCall
<1>4. /\ asked \in Seq(AddCall) /\ made = "open" /\ made' = made
      /\ asked' = Append(asked, d) /\ u2u' = u2u /\ nfts' = nfts
      /\ tokens' = WithDecimals(tokens, c)
      /\ U2UList(asked, u2u) /\ TokenList(asked, tokens) /\ NftList(asked, nfts)
  BY DEF TransferInv, TransferType, ListsRight, AddThrows
<1> HIDE DEF d
<1>5. asked' \in Seq(AddCall)
  BY <1>3, <1>4
<1>6. d.op \notin {"u2u", "nft"}
  BY <1>2
<1>7. U2UList(asked', u2u')
  BY <1>3, <1>4, <1>6, AddU2URight
<1>8. NftList(asked', nfts')
  BY <1>3, <1>4, <1>6, AddNftRight
<1>9. TokenList(asked', tokens')
  BY <1>1, <1>2, <1>3, <1>4, AddThrowsRight
<1>10. TransferType'
  BY <1>4, <1>5, <1>7, <1>8, <1>9
     DEF TransferType, U2UList, TokenList, NftList
<1>11. ListsRight'
  BY <1>7, <1>8, <1>9 DEF ListsRight
<1> QED
  BY <1>4, <1>10, <1>11 DEF TransferInv

(* setU2UTransferApproval() and the two like it change approvals alone. *)
LEMMA ApprovalSame ==
    ASSUME TransferType, NEW c, SetApproval(c, TRUE)
    PROVE  /\ SameU2U(u2u, u2u') /\ SameTokens(tokens, tokens')
           /\ SameNfts(nfts, nfts')
<1>1. /\ u2u \in Seq(U2UEntry) /\ tokens \in Seq(TokenEntry)
      /\ nfts \in Seq(NftEntry)
  BY DEF TransferType
<1>2. \/ u2u' = u2u
      \/ \E at : u2u' = Marked(u2u, at, TRUE)
  BY DEF SetApproval
<1>3. \/ tokens' = tokens
      \/ \E at : tokens' = Marked(tokens, at, TRUE)
  BY DEF SetApproval
<1>4. \/ nfts' = nfts
      \/ \E at : nfts' = Marked(nfts, at, TRUE)
  BY DEF SetApproval
<1>5. SameU2U(u2u, u2u')
  <2>1. CASE u2u' = u2u
    BY <1>1, <2>1 DEF SameU2U
  <2>2. CASE \E at : u2u' = Marked(u2u, at, TRUE)
    BY <1>1, <2>2, MarkedU2USame
  <2> QED
    BY <1>2, <2>1, <2>2
<1>6. SameTokens(tokens, tokens')
  <2>1. CASE tokens' = tokens
    BY <1>1, <2>1 DEF SameTokens
  <2>2. CASE \E at : tokens' = Marked(tokens, at, TRUE)
    BY <1>1, <2>2, MarkedTokensSame
  <2> QED
    BY <1>3, <2>1, <2>2
<1>7. SameNfts(nfts, nfts')
  <2>1. CASE nfts' = nfts
    BY <1>1, <2>1 DEF SameNfts
  <2>2. CASE \E at : nfts' = Marked(nfts, at, TRUE)
    BY <1>1, <2>2, MarkedNftsSame
  <2> QED
    BY <1>4, <2>1, <2>2
<1> QED
  BY <1>5, <1>6, <1>7

(* Approvals do not make NFTs tie. *)
LEMMA TiedSame ==
    ASSUME NEW s, NEW new, SameNfts(s, new)
    PROVE  Tied(new) <=> Tied(s)
<1>1. DOMAIN new = DOMAIN s
  BY DEF SameNfts
<1>2. \A i, j \in DOMAIN s : NftOrder(new[i], new[j]) <=> NftOrder(s[i], s[j])
  BY DEF SameNfts, NftOrder
<1> QED
  BY <1>1, <1>2 DEF Tied

(* An approval that is set, at any time. *)
LEMMA SetApprovalOk ==
    ASSUME TransferInv, NEW c, SetApproval(c, TRUE)
    PROVE  TransferInv'
<1>1. /\ SameU2U(u2u, u2u') /\ SameTokens(tokens, tokens')
      /\ SameNfts(nfts, nfts')
  BY ApprovalSame DEF TransferInv
<1>2. UNCHANGED <<asked, made, moved, movedAgain>>
  BY DEF SetApproval
<1>3. TransferType'
  BY <1>1, <1>2
     DEF TransferInv, TransferType, SameU2U, SameTokens, SameNfts
<1>4. made = "open" => ListsRight'
  BY <1>1, <1>2, SameU2URight, SameTokensRight, SameNftsRight
     DEF TransferInv, ListsRight
<1>5. ASSUME made # "open" PROVE BodyMade'
  <2>1. PICK us, ts, ns : /\ MadeOf(us, ts, ns)
                          /\ made = "reread" => ListsAlike(us, ts, ns)
    BY <1>5 DEF TransferInv, BodyMade
  <2>2. MadeOf(us, ts, ns)'
    BY <1>2, <2>1 DEF MadeOf
  <2>3. made = "reread" => ListsAlike(us, ts, ns)'
    BY <1>1, <2>1, AlikeU2USame, AlikeTokensSame, AlikeNftsSame
       DEF ListsAlike
  <2> QED
    BY <1>2, <2>2, <2>3 DEF BodyMade
<1>6. made = "remade" => BodyFaithful(movedAgain, asked)' /\ RoundTrip'
  <2>1. Tied(nfts') <=> Tied(nfts)
    BY <1>1, TiedSame
  <2> QED
    BY <1>2, <2>1 DEF TransferInv, RoundTrip
<1> QED
  BY <1>2, <1>3, <1>4, <1>5, <1>6 DEF TransferInv

(* The freeze. *)
LEMMA FreezeOk ==
    ASSUME TransferInv, FreezeTransfers
    PROVE  TransferInv'
<1>1. /\ made = "open" /\ made' = "frozen" /\ asked' = asked
      /\ moved' = TransferMake(u2u', tokens', nfts')
      /\ u2u' \in Sorts(u2u, AccountOrder)
      /\ tokens' \in Sorts(tokens, TokenOrder)
      /\ nfts' \in Sorts(nfts, NftOrder)
  BY DEF FreezeTransfers, SortLists
<1>2. U2UList(asked, u2u) /\ TokenList(asked, tokens) /\ NftList(asked, nfts)
  BY <1>1 DEF TransferInv, ListsRight
<1>3. U2UList(asked, u2u') /\ U2USorted(u2u')
  BY <1>1, <1>2, SortedU2URight
<1>4. TokenList(asked, tokens') /\ TokensSorted(tokens')
  BY <1>1, <1>2, SortedTokensRight
<1>5. NftList(asked, nfts') /\ NftsSorted(nfts')
  BY <1>1, <1>2, SortedNftsRight
<1>6. TransferType'
  BY <1>1, <1>3, <1>4, <1>5
     DEF TransferInv, TransferType, U2UList, TokenList, NftList
<1>7. MadeOf(u2u, tokens, nfts)'
  BY <1>1, <1>3, <1>4, <1>5 DEF MadeOf
<1>8. BodyMade'
  BY <1>1, <1>7 DEF BodyMade
<1> QED
  BY <1>1, <1>6, <1>8 DEF TransferInv

(* fromBytes(). *)
LEMMA RereadOk ==
    ASSUME TransferInv, RereadTransfers
    PROVE  TransferInv'
<1>1. /\ made = "frozen" /\ made' = "reread" /\ asked' = asked
      /\ moved' = moved
      /\ u2u' = TransferFrom(moved.transfers)
      /\ tokens' = TokenTransferFrom(moved.tokenTransfers)
      /\ nfts' = TokenNftTransferFrom(moved.tokenTransfers)
  BY DEF RereadTransfers
<1>2. PICK us, ts, ns : MadeOf(us, ts, ns)
  BY <1>1 DEF TransferInv, BodyMade
<1>3. Inputs(ts, ns) /\ U2UList(asked, us)
  BY <1>2, ListsAreInputs DEF MadeOf
<1>4. /\ moved.transfers = [i \in DOMAIN us |-> TokenToProtobuf(us[i])]
      /\ moved.tokenTransfers = Grouped(ts, ns)
  BY <1>2 DEF MadeOf, TransferMake
<1>5. U2UAlike(us, u2u')
  BY <1>1, <1>3, <1>4, RereadU2UAlike
<1>6. TokensAlike(ts, tokens')
  BY <1>1, <1>3, <1>4, RereadTokensAlike
<1>7. NftsAlike(ns, nfts')
  BY <1>1, <1>3, <1>4, RereadNftsAlike
<1>8. TransferType'
  BY <1>1, <1>5, <1>6, <1>7
     DEF TransferInv, TransferType, U2UAlike, TokensAlike, NftsAlike
<1>9. BodyMade'
  BY <1>1, <1>2, <1>5, <1>6, <1>7 DEF BodyMade, MadeOf, ListsAlike
<1> QED
  BY <1>1, <1>8, <1>9 DEF TransferInv

(* The body made again. *)
LEMMA RemakeOk ==
    ASSUME TransferInv, RemakeTransfers
    PROVE  TransferInv'
<1>1. /\ made = "reread" /\ made' = "remade" /\ asked' = asked
      /\ moved' = moved
      /\ movedAgain' = TransferMake(u2u', tokens', nfts')
      /\ u2u' \in Sorts(u2u, AccountOrder)
      /\ tokens' \in Sorts(tokens, TokenOrder)
      /\ nfts' \in Sorts(nfts, NftOrder)
  BY DEF RemakeTransfers, SortLists
<1>2. PICK us, ts, ns : MadeOf(us, ts, ns) /\ ListsAlike(us, ts, ns)
  BY <1>1 DEF TransferInv, BodyMade
<1>3. /\ U2UList(asked, us) /\ TokenList(asked, ts) /\ NftList(asked, ns)
      /\ U2USorted(us) /\ TokensSorted(ts) /\ NftsSorted(ns)
      /\ moved = TransferMake(us, ts, ns)
  BY <1>2 DEF MadeOf
<1>4. U2UAlike(us, u2u) /\ TokensAlike(ts, tokens) /\ NftsAlike(ns, nfts)
  BY <1>2 DEF ListsAlike
<1>5. U2UList(asked, u2u) /\ TokenList(asked, tokens) /\ NftList(asked, nfts)
  BY <1>3, <1>4, AlikeU2URight, AlikeTokensRight, AlikeNftsRight
<1>6. U2UList(asked, u2u') /\ U2USorted(u2u') /\ Rearranged(u2u, u2u')
  BY <1>1, <1>5, SortedU2URight
<1>7. /\ TokenList(asked, tokens') /\ TokensSorted(tokens')
      /\ Rearranged(tokens, tokens')
  BY <1>1, <1>5, SortedTokensRight
<1>8. NftList(asked, nfts') /\ NftsSorted(nfts') /\ Rearranged(nfts, nfts')
  BY <1>1, <1>5, SortedNftsRight
<1>9. /\ u2u' \in Seq(U2UEntry) /\ tokens' \in Seq(TokenEntry)
      /\ nfts' \in Seq(NftEntry)
  BY <1>6, <1>7, <1>8 DEF U2UList, TokenList, NftList
<1>10. U2UAlike(us, u2u') /\ TokensAlike(ts, tokens') /\ NftsAlike(ns, nfts')
  BY <1>4, <1>6, <1>7, <1>8, <1>9, AlikeRearranged
<1>11. BodyFaithful(movedAgain', asked)
  <2>1. BodyFaithful(TransferMake(u2u', tokens', nfts'), asked)
    BY <1>6, <1>7, <1>8, BodyRight
  <2> QED
    BY <1>1, <2>1
<1>12. ~ Tied(nfts') => Unmarked(movedAgain') = Unmarked(moved)
  <2>1. ASSUME ~ Tied(nfts')
        PROVE  Unmarked(TransferMake(u2u', tokens', nfts'))
                 = Unmarked(TransferMake(us, ts, ns))
    BY <1>3, <1>6, <1>7, <1>8, <1>10, <2>1, RemadeAlike
  <2> QED
    BY <1>1, <1>3, <2>1
<1>13. TransferType'
  BY <1>1, <1>9 DEF TransferInv, TransferType
<1>14. BodyMade'
  BY <1>1, <1>2 DEF BodyMade, MadeOf
<1>15. BodyFaithful(movedAgain, asked)'
  BY <1>1, <1>11
<1>16. RoundTrip'
  BY <1>1, <1>12 DEF RoundTrip
<1> QED
  BY <1>1, <1>13, <1>14, <1>15, <1>16 DEF TransferInv

(* Every step keeps the invariant. *)
LEMMA TransferStepOk ==
    TransferInv /\ [TransferNext]_transferVars => TransferInv'
<1> SUFFICES ASSUME TransferInv, [TransferNext]_transferVars
             PROVE  TransferInv'
  OBVIOUS
<1>0. ASSUME NEW c \in AddCalls, AddThrows(c) PROVE TransferInv'
  BY <1>0, AddThrowsOk
<1>1. ASSUME NEW c \in AddCalls, Add(c) PROVE TransferInv'
  BY <1>1, AddOk
<1>2. ASSUME NEW c \in Approvals, SetApproval(c, TRUE) PROVE TransferInv'
  BY <1>2, SetApprovalOk
<1>3. CASE FreezeTransfers
  BY <1>3, FreezeOk
<1>4. CASE RereadTransfers
  BY <1>4, RereadOk
<1>5. CASE RemakeTransfers
  BY <1>5, RemakeOk
<1>6. CASE UNCHANGED transferVars
  BY <1>6 DEF transferVars, TransferInv, TransferType, ListsRight, BodyMade,
              MadeOf, ListsAlike, RoundTrip
<1> QED
  BY <1>0, <1>1, <1>2, <1>3, <1>4, <1>5, <1>6 DEF TransferNext

(* The invariant implies the property. *)
LEMMA TransferInvFaithful == TransferInv => TransfersFaithful
<1> SUFFICES ASSUME TransferInv PROVE TransfersFaithful
  OBVIOUS
<1>1. ASSUME made # "open" PROVE BodyFaithful(moved, asked)
  <2>1. PICK us, ts, ns : MadeOf(us, ts, ns)
    BY <1>1 DEF TransferInv, BodyMade
  <2> QED
    BY <2>1, BodyRight DEF MadeOf
<1> QED
  BY <1>1 DEF TransferInv, TransfersFaithful

(* TransferTransaction: however many transfers are added, in whichever      *)
(* order, the body of the freeze has for every account, token and NFT what  *)
(* the calls asked for, one that threw half-way included as far as it got,  *)
(* and so has the body of what fromBytes() returns, which is the same but   *)
(* for approvals and NFTs that the sort leaves tied.                        *)
THEOREM TransfersCorrect == TransferSpec => []TransfersFaithful
<1>1. TransferInit => TransferInv
  BY TransferInitOk
<1>2. TransferInv /\ [TransferNext]_transferVars => TransferInv'
  BY TransferStepOk
<1>3. TransferInv => TransfersFaithful
  BY TransferInvFaithful
<1> QED
  BY <1>1, <1>2, <1>3, PTL DEF TransferSpec
=============================================================================
