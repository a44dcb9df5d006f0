---------------------------- MODULE ExportProofs ----------------------------
(***************************************************************************)
(* Proofs about the exporter (Export): what Filename and filenames return  *)
(* for every snapshot, and what the output directory holds whatever fails. *)
(***************************************************************************)
EXTENDS Export, NumberLemmas

(* ------------------------------- names -------------------------------- *)

\* The names over the tokens of the snapshots and those that the code writes.
Token == STRING \cup {"_", "photo", "photos", ".part", "photodrop-manifest.json"}
Name == Seq(Token)

\* SubSeq, element by element.
LEMMA Part ==
    ASSUME NEW s \in Name, NEW lo \in 1..(Len(s) + 1), NEW hi \in 0..Len(s), lo <= hi + 1
    PROVE  /\ SubSeq(s, lo, hi) \in Name /\ Len(SubSeq(s, lo, hi)) = hi - lo + 1
           /\ \A k \in 1..(hi - lo + 1) : SubSeq(s, lo, hi)[k] = s[lo + k - 1]
BY DEF Name

\* Where the loops and searches of Filename stop.
LEMMA BaseIs ==
    ASSUME NEW s \in Name
    PROVE  \E k \in 0..Len(s) : /\ Base(s) = SubSeq(s, k + 1, Len(s))
                                /\ \A i \in (k + 1)..Len(s) : s[i] \notin Separator
<1> DEFINE S == {0} \cup {i \in DOMAIN s : s[i] \in Separator}
<1>1. S \in SUBSET (0..Len(s)) /\ S # {} /\ Len(s) \in Nat /\ DOMAIN s = 1..Len(s)
  BY DEF Name
<1>2. Max(S) \in S /\ \A y \in S : Max(S) >= y
  <2> HIDE DEF S
  <2> QED
    BY <1>1, MaxIs
<1>3. PICK k \in 0..Len(s) : k = Max(S)
  BY <1>1, <1>2
<1>4. \A i \in (k + 1)..Len(s) : s[i] \notin Separator
  BY <1>1, <1>2, <1>3
<1> QED
  BY <1>3, <1>4 DEF Base

LEMMA TrimRightIs ==
    ASSUME NEW s \in Name
    PROVE  \E k \in 0..Len(s) : /\ TrimRight(s) = SubSeq(s, 1, k)
                                /\ k # 0 => s[k] \notin Blank
                                /\ \A i \in (k + 1)..Len(s) : s[i] \in Blank
<1> DEFINE S == {0} \cup {i \in DOMAIN s : s[i] \notin Blank}
<1>1. S \in SUBSET (0..Len(s)) /\ S # {} /\ Len(s) \in Nat /\ DOMAIN s = 1..Len(s)
  BY DEF Name
<1>2. Max(S) \in S /\ \A y \in S : Max(S) >= y
  <2> HIDE DEF S
  <2> QED
    BY <1>1, MaxIs
<1>3. PICK k \in 0..Len(s) : k = Max(S)
  BY <1>1, <1>2
<1>4. \A i \in (k + 1)..Len(s) : s[i] \in Blank
  BY <1>1, <1>2, <1>3
<1>5. k # 0 => s[k] \notin Blank
  BY <1>2, <1>3
<1> QED
  BY <1>3, <1>4, <1>5 DEF TrimRight

LEMMA TrimLeftIs ==
    ASSUME NEW s \in Name
    PROVE  \E k \in 1..(Len(s) + 1) : /\ TrimLeft(s) = SubSeq(s, k, Len(s))
                                      /\ k # Len(s) + 1 => s[k] \notin Blank
                                      /\ \A i \in 1..(k - 1) : s[i] \in Blank
<1> DEFINE S == {Len(s) + 1} \cup {i \in DOMAIN s : s[i] \notin Blank}
<1>1. S \in SUBSET Nat /\ S \in SUBSET (1..(Len(s) + 1)) /\ S # {} /\ Len(s) \in Nat /\ DOMAIN s = 1..Len(s)
  BY DEF Name
<1>2. Min(S) \in S /\ \A y \in S : Min(S) <= y
  <2> HIDE DEF S
  <2> QED
    BY <1>1, MinIs
<1>3. PICK k \in 1..(Len(s) + 1) : k = Min(S)
  BY <1>1, <1>2
<1>4. \A i \in 1..(k - 1) : s[i] \in Blank
  BY <1>1, <1>2, <1>3
<1>5. k # Len(s) + 1 => s[k] \notin Blank
  BY <1>2, <1>3
<1> QED
  BY <1>3, <1>4, <1>5 DEF TrimLeft

LEMMA BeforeDotIs ==
    ASSUME NEW s \in Name
    PROVE  \E k \in 1..(Len(s) + 1) : /\ BeforeDot(s) = SubSeq(s, 1, k - 1)
                                      /\ k # Len(s) + 1 => s[k] \in Dotted
                                      /\ \A i \in 1..(k - 1) : s[i] \notin Dotted
<1> DEFINE S == {Len(s) + 1} \cup {i \in DOMAIN s : s[i] \in Dotted}
<1>1. S \in SUBSET Nat /\ S \in SUBSET (1..(Len(s) + 1)) /\ S # {} /\ Len(s) \in Nat /\ DOMAIN s = 1..Len(s)
  BY DEF Name
<1>2. Min(S) \in S /\ \A y \in S : Min(S) <= y
  <2> HIDE DEF S
  <2> QED
    BY <1>1, MinIs
<1>3. PICK k \in 1..(Len(s) + 1) : k = Min(S)
  BY <1>1, <1>2
<1>4. \A i \in 1..(k - 1) : s[i] \notin Dotted
  BY <1>1, <1>2, <1>3
<1>5. k # Len(s) + 1 => s[k] \in Dotted
  BY <1>2, <1>3
<1> QED
  BY <1>3, <1>4, <1>5 DEF BeforeDot

LEMMA LowerIs ==
    ASSUME NEW s \in Name
    PROVE  /\ ToLower(s) \in Name /\ Len(ToLower(s)) = Len(s)
           /\ \A i \in 1..Len(s) : ToLower(s)[i] = LowerOf(s[i])
<1>1. \A x \in Token : LowerOf(x) \in Token
  BY ExportAssumption DEF LowerOf, Token
<1>2. ToLower(s) = [i \in 1..Len(s) |-> LowerOf(s[i])]
  BY DEF ToLower, Each, Name
<1>3. \A i \in 1..Len(s) : LowerOf(s[i]) \in Token
  <2> TAKE i \in 1..Len(s)
  <2>1. s[i] \in Token
    BY DEF Name
  <2> QED
    BY <1>1, <2>1
<1>4. Len(s) \in Nat
  BY DEF Name
<1>5. ToLower(s) \in [1..Len(s) -> Token]
  BY <1>2, <1>3
<1>6. ToLower(s) \in Seq(Token) /\ DOMAIN ToLower(s) = 1..Len(s)
  BY <1>4, <1>5
<1>7. Len(ToLower(s)) = Len(s)
  BY <1>4, <1>6
<1> QED
  BY <1>2, <1>6, <1>7 DEF Name

\* Two names agree up to case, token by token.
LEMMA SameLower ==
    ASSUME NEW s \in Name, NEW t \in Name, ToLower(s) = ToLower(t)
    PROVE  Len(s) = Len(t) /\ \A i \in 1..Len(s) : LowerOf(s[i]) = LowerOf(t[i])
BY LowerIs

\* A name that does not begin with an extension is a device by its first token.
LEMMA DeviceIs ==
    ASSUME NEW s \in Name, s # <<>>, s[1] \notin Dotted
    PROVE  IsDevice(s) <=> (Len(s) = 1 \/ s[2] \in Dotted) /\ LowerOf(s[1]) \in Device
<1>1. Len(s) \in Nat \ {0}
  BY DEF Name
<1>2. PICK k \in 1..(Len(s) + 1) : /\ BeforeDot(s) = SubSeq(s, 1, k - 1)
                                   /\ k # Len(s) + 1 => s[k] \in Dotted
                                   /\ \A i \in 1..(k - 1) : s[i] \notin Dotted
  BY BeforeDotIs
<1>3. k \in 2..(Len(s) + 1) /\ k - 1 \in 1..Len(s)
  BY <1>1, <1>2
<1> DEFINE b == BeforeDot(s)
<1>4. b \in Name /\ Len(b) = k - 1 /\ b[1] = s[1]
  <2>1. /\ SubSeq(s, 1, k - 1) \in Name /\ Len(SubSeq(s, 1, k - 1)) = k - 1 - 1 + 1
        /\ \A i \in 1..(k - 1 - 1 + 1) : SubSeq(s, 1, k - 1)[i] = s[1 + i - 1]
    BY <1>1, <1>3, Part
  <2> QED
    BY <1>1, <1>2, <1>3, <2>1
<1>5. k = 2 <=> Len(s) = 1 \/ s[2] \in Dotted
  <2>1. ASSUME k = 2, Len(s) # 1 PROVE s[2] \in Dotted
    <3>0. PICK n \in Nat : n = Len(s)
      BY <1>1
    <3>1. k # n + 1
      BY <2>1, <3>0
    <3>2. s[k] \in Dotted
      BY <1>2, <3>0, <3>1
    <3> QED
      BY <2>1, <3>2
  <2>2. Len(s) = 1 => k = 2
    BY <1>3
  <2>3. k # 2 => 2 \in 1..(k - 1)
    BY <1>1, <1>3
  <2> QED
    BY <1>2, <2>1, <2>2, <2>3
<1> HIDE DEF b
<1>6. ToLower(b) \in Name /\ Len(ToLower(b)) = k - 1 /\ ToLower(b)[1] = LowerOf(s[1])
  <2>1. 1 \in 1..Len(b)
    BY <1>3, <1>4
  <2> QED
    BY <1>4, <2>1, LowerIs
<1>7. ASSUME k = 2 PROVE ToLower(b) = <<LowerOf(s[1])>>
  BY <1>6, <1>7 DEF Name
<1>8. ASSUME k # 2 PROVE \A d : ToLower(b) # <<d>>
  <2>1. Len(ToLower(b)) # 1
    BY <1>3, <1>6, <1>8
  <2> QED
    BY <2>1
<1>9. IsDevice(s) <=> \E d \in Device : ToLower(b) = <<d>>
  BY DEF IsDevice, b
<1>10. CASE k = 2
  <2>1. ToLower(b) = <<LowerOf(s[1])>>
    BY <1>7, <1>10
  <2>2. \A d : <<LowerOf(s[1])>> = <<d>> => LowerOf(s[1]) = d
    OBVIOUS
  <2>3. IsDevice(s) <=> LowerOf(s[1]) \in Device
    BY <1>9, <2>1, <2>2
  <2> QED
    BY <1>5, <1>10, <2>3
<1>11. CASE k # 2
  <2>1. ~(Len(s) = 1 \/ s[2] \in Dotted)
    BY <1>5, <1>11
  <2>2. ~IsDevice(s)
    BY <1>8, <1>9, <1>11
  <2> QED
    BY <2>1, <2>2
<1> QED
  BY <1>10, <1>11

\* What Filename makes: no extension and nothing blank in front, nothing blank at
\* the end, and nothing that is unsafe.
CleanName(w) ==
    /\ w \in Name /\ Len(w) \in Nat \ {0}
    /\ w[1] \notin Dotted \cup Blank /\ w[Len(w)] \notin Blank
    /\ \A i \in 1..Len(w) : w[i] \notin Separator \cup Unsafe

\* A name whose first word, when the blanks before it are gone, is no extension:
\* the names of the snapshots.
WordFirst(name) ==
    name \in Name /\ LET word == TrimLeft(Base(name)) IN word = <<>> \/ word[1] \notin Dotted

LEMMA SafeIs ==
    ASSUME NEW s \in Name
    PROVE  /\ Each(s, SafeOf) \in Name /\ Len(Each(s, SafeOf)) = Len(s)
           /\ \A i \in 1..Len(s) : Each(s, SafeOf)[i] = SafeOf(s[i])
<1>1. Each(s, SafeOf) = [i \in 1..Len(s) |-> SafeOf(s[i])]
  BY DEF Each, Name
<1>2. \A i \in 1..Len(s) : SafeOf(s[i]) \in Token
  <2> TAKE i \in 1..Len(s)
  <2>1. s[i] \in Token
    BY DEF Name
  <2>2. "_" \in Token
    BY DEF Token
  <2> QED
    BY <2>1, <2>2 DEF SafeOf
<1>3. Len(s) \in Nat
  BY DEF Name
<1>4. Each(s, SafeOf) \in [1..Len(s) -> Token]
  BY <1>1, <1>2
<1>5. Each(s, SafeOf) \in Seq(Token) /\ DOMAIN Each(s, SafeOf) = 1..Len(s)
  BY <1>3, <1>4
<1>6. Len(Each(s, SafeOf)) = Len(s)
  BY <1>3, <1>5
<1> QED
  BY <1>1, <1>5, <1>6 DEF Name

\* A token that is made safe is no separator, and blank exactly when it was.
LEMMA SafeToken ==
    ASSUME NEW t
    PROVE  /\ SafeOf(t) \notin Unsafe /\ (SafeOf(t) \in Blank <=> t \in Blank)
           /\ (t \notin Separator => SafeOf(t) \notin Separator)
           /\ (t \notin Dotted => SafeOf(t) \notin Dotted)
<1>1. "_" \notin (Blank \cup Separator \cup Unsafe \cup Dotted)
  BY ExportAssumption
<1>2. Blank \cap Unsafe = {}
  BY ExportAssumption
<1> QED
  BY <1>1, <1>2 DEF SafeOf

Harmless(s) == s \in Name /\ \A i \in 1..Len(s) : s[i] \notin Separator \cup Unsafe

\* A part of a harmless name whose ends are clean is clean.
LEMMA CleanPart ==
    ASSUME NEW s, Harmless(s), NEW lo \in 1..Len(s), NEW hi \in 1..Len(s), lo <= hi,
           s[lo] \notin Dotted \cup Blank, s[hi] \notin Blank
    PROVE  CleanName(SubSeq(s, lo, hi))
<1>0. PICK n \in Nat : n = Len(s)
  BY DEF Harmless, Name
<1>1. PICK m \in Nat \ {0} : m = hi - lo + 1
  BY <1>0
<1> DEFINE w == SubSeq(s, lo, hi)
<1>2. w \in Name /\ Len(w) = m /\ \A k \in 1..m : w[k] = s[lo + k - 1]
  BY <1>0, <1>1, Part DEF Harmless
<1> HIDE DEF w
<1>3. w[1] = s[lo] /\ w[Len(w)] = s[hi]
  <2>1. 1 \in 1..m /\ m \in 1..m /\ lo + 1 - 1 = lo /\ lo + m - 1 = hi
    BY <1>0, <1>1
  <2> QED
    BY <1>2, <2>1
<1>4. \A i \in 1..Len(w) : w[i] \notin Separator \cup Unsafe
  <2> TAKE i \in 1..Len(w)
  <2>1. i \in 1..m /\ lo + i - 1 \in 1..Len(s)
    BY <1>0, <1>1, <1>2
  <2> QED
    BY <1>2, <2>1 DEF Harmless
<1>5. CleanName(w)
  BY <1>2, <1>3, <1>4 DEF CleanName
<1> QED
  BY <1>5 DEF w

LEMMA Single ==
    ASSUME NEW x \in Token
    PROVE  <<x>> \in Name /\ Len(<<x>>) = 1 /\ <<x>>[1] = x
BY DEF Name

\* s \o t, element by element.
LEMMA Joined ==
    ASSUME NEW s \in Name, NEW t \in Name
    PROVE  /\ s \o t \in Name /\ Len(s \o t) = Len(s) + Len(t)
           /\ \A i \in 1..Len(s) : (s \o t)[i] = s[i]
           /\ \A i \in 1..Len(t) : (s \o t)[Len(s) + i] = t[i]
<1>1. s \o t \in Seq(Token) /\ Len(s \o t) = Len(s) + Len(t) /\ Len(s) \in Nat /\ Len(t) \in Nat
  BY DEF Name
<1>2. \A i \in 1..(Len(s) + Len(t)) : (s \o t)[i] = IF i <= Len(s) THEN s[i] ELSE t[i - Len(s)]
  BY DEF Name
<1>3. PICK m \in Nat, n \in Nat : m = Len(s) /\ n = Len(t)
  BY <1>1
<1>4. \A i \in 1..m : i \in 1..(m + n) /\ i <= m
  OBVIOUS
<1>5. \A i \in 1..n : m + i \in 1..(m + n) /\ ~(m + i <= m) /\ m + i - m = i
  OBVIOUS
<1> QED
  BY <1>1, <1>2, <1>3, <1>4, <1>5 DEF Name

LEMMA PhotoClean ==
    CleanName(<<"photo">>)
<1>1. <<"photo">> \in Seq(Token) /\ Len(<<"photo">>) = 1
  BY DEF Token
<1>2. "photo" \notin (Blank \cup Separator \cup Unsafe \cup Dotted)
  BY ExportAssumption
<1>3. \A i \in 1..Len(<<"photo">>) : <<"photo">>[i] = "photo"
  BY <1>1
<1> QED
  BY <1>1, <1>2, <1>3 DEF CleanName, Name

\* The name without its directory and without unsafe characters.
LEMMA BaseClean ==
    ASSUME NEW name, WordFirst(name)
    PROVE  Base(name) \in Name /\ Harmless(Each(Base(name), SafeOf))
<1> DEFINE b == Base(name)
<1>0. name \in Name
  BY DEF WordFirst
<1>1. PICK n \in Nat : n = Len(name)
  BY <1>0 DEF Name
<1>2. PICK k \in 0..n : /\ b = SubSeq(name, k + 1, n)
                        /\ \A i \in (k + 1)..n : name[i] \notin Separator
  BY <1>0, <1>1, BaseIs
<1>3. b \in Name /\ Len(b) = n - k /\ \A i \in 1..(n - k) : b[i] = name[k + i]
  <2>1. /\ SubSeq(name, k + 1, n) \in Name /\ Len(SubSeq(name, k + 1, n)) = n - (k + 1) + 1
        /\ \A i \in 1..(n - (k + 1) + 1) : SubSeq(name, k + 1, n)[i] = name[k + 1 + i - 1]
    BY <1>0, <1>1, Part
  <2>2. n - (k + 1) + 1 = n - k /\ \A i \in 1..(n - k) : k + 1 + i - 1 = k + i
    BY <1>1
  <2> QED
    BY <1>2, <2>1, <2>2
<1> HIDE DEF b
<1>4. \A i \in 1..Len(b) : b[i] \notin Separator
  <2> TAKE i \in 1..Len(b)
  <2>1. i \in 1..(n - k) /\ k + i \in (k + 1)..n
    BY <1>1, <1>3
  <2> QED
    BY <1>2, <1>3, <2>1
<1>5. \A i \in 1..Len(b) : Each(b, SafeOf)[i] \notin Separator \cup Unsafe
  BY <1>3, <1>4, SafeIs, SafeToken
<1>6. Harmless(Each(b, SafeOf))
  BY <1>3, <1>5, SafeIs DEF Harmless
<1> QED
  BY <1>3, <1>6 DEF b

\* The words that are left when the blanks at both ends are cut off.
LEMMA TrimmedClean ==
    ASSUME NEW name, WordFirst(name)
    PROVE  LET t == TrimRight(TrimLeft(Each(Base(name), SafeOf))) IN t = <<>> \/ CleanName(t)
<1> DEFINE b == Base(name)
           e == Each(b, SafeOf)
           l == TrimLeft(e)
           t == TrimRight(l)
<1>1. b \in Name /\ Harmless(e)
  BY BaseClean
<1>2. PICK n \in Nat : n = Len(b)
  BY <1>1 DEF Name
<1>3. e \in Name /\ Len(e) = n /\ \A i \in 1..n : e[i] = SafeOf(b[i])
  BY <1>1, <1>2, SafeIs
<1>4. PICK k \in 1..(n + 1) : /\ TrimLeft(b) = SubSeq(b, k, n)
                              /\ k # n + 1 => b[k] \notin Blank
                              /\ \A i \in 1..(k - 1) : b[i] \in Blank
  BY <1>1, <1>2, TrimLeftIs
<1> HIDE DEF e
<1>5. PICK j \in 1..(n + 1) : /\ l = SubSeq(e, j, n)
                              /\ j # n + 1 => e[j] \notin Blank
                              /\ \A i \in 1..(j - 1) : e[i] \in Blank
  BY <1>3, TrimLeftIs
<1>6. j = k
  <2>1. ASSUME j < k PROVE FALSE
    <3>1. j \in 1..n /\ j \in 1..(k - 1) /\ j # n + 1
      BY <1>2, <2>1
    <3> QED
      BY <1>3, <1>4, <1>5, <3>1, SafeToken
  <2>2. ASSUME k < j PROVE FALSE
    <3>1. k \in 1..n /\ k \in 1..(j - 1) /\ k # n + 1
      BY <1>2, <2>2
    <3> QED
      BY <1>3, <1>4, <1>5, <3>1, SafeToken
  <2> QED
    BY <1>2, <2>1, <2>2
<1>7. l \in Name /\ Len(l) = n - k + 1 /\ \A i \in 1..(n - k + 1) : l[i] = e[k + i - 1]
  BY <1>2, <1>3, <1>5, <1>6, Part
<1> HIDE DEF l
<1>8. PICK m \in 0..Len(l) : t = SubSeq(l, 1, m) /\ (m # 0 => l[m] \notin Blank)
  BY <1>7, TrimRightIs
<1>9. CASE m = 0
  <2>1. t = <<>>
    BY <1>7, <1>8, <1>9 DEF Name
  <2> QED
    BY <2>1 DEF e, l
<1>10. CASE m # 0
  <2>1. k \in 1..n /\ k # n + 1 /\ m \in 1..(n - k + 1) /\ 1 \in 1..(n - k + 1)
    BY <1>2, <1>7, <1>8, <1>10
  <2>2. l[1] = SafeOf(b[k]) /\ b[k] \notin Blank
    <3>1. k + 1 - 1 = k
      OBVIOUS
    <3> QED
      BY <1>3, <1>4, <1>7, <2>1, <3>1
  <2>3. b[k] \notin Dotted
    <3>1. TrimLeft(b) = <<>> \/ TrimLeft(b)[1] \notin Dotted
      BY DEF WordFirst
    <3>2. /\ Len(SubSeq(b, k, n)) = n - k + 1
          /\ \A i \in 1..(n - k + 1) : SubSeq(b, k, n)[i] = b[k + i - 1]
      BY <1>1, <1>2, Part
    <3>3. TrimLeft(b)[1] = b[k] /\ Len(TrimLeft(b)) # 0
      <4>1. k + 1 - 1 = k
        OBVIOUS
      <4> HIDE DEF b
      <4> QED
        BY <1>2, <1>4, <2>1, <3>2, <4>1
    <3>4. TrimLeft(b) # <<>>
      BY <3>3
    <3> QED
      BY <3>1, <3>3, <3>4
  <2>4. l[1] \notin Dotted \cup Blank /\ l[m] \notin Blank
    BY <1>8, <1>10, <2>2, <2>3, SafeToken
  <2>5. Harmless(l)
    <3>1. \A i \in 1..Len(l) : i \in 1..(n - k + 1) /\ k + i - 1 \in 1..n
      BY <1>2, <1>7
    <3> QED
      BY <1>1, <1>3, <1>7, <3>1 DEF Harmless
  <2>6. CleanName(SubSeq(l, 1, m))
    BY <1>7, <2>1, <2>4, <2>5, CleanPart
  <2> QED
    BY <1>8, <2>6 DEF e, l
<1> QED
  BY <1>8, <1>9, <1>10

LEMMA CleanDevice ==
    ASSUME NEW w, CleanName(w)
    PROVE  /\ w # <<>>
           /\ IsDevice(w) <=> (Len(w) = 1 \/ w[2] \in Dotted) /\ LowerOf(w[1]) \in Device
<1>1. w \in Name /\ Len(w) # 0 /\ w[1] \notin Dotted
  BY DEF CleanName
<1>2. w # <<>>
  BY <1>1
<1> QED
  BY <1>1, <1>2, DeviceIs

LEMMA Prefixed ==
    ASSUME NEW w, CleanName(w)
    PROVE  CleanName(<<"_">> \o w) /\ ~IsDevice(<<"_">> \o w)
<1> DEFINE v == <<"_">> \o w
<1>1. PICK n \in Nat \ {0} : n = Len(w)
  BY DEF CleanName
<1>2. w \in Name /\ "_" \in Token
  BY DEF CleanName, Token
<1>3. v \in Name /\ Len(v) = n + 1 /\ v[1] = "_" /\ \A i \in 2..(n + 1) : v[i] = w[i - 1]
  <2> DEFINE u == <<"_">>
  <2>1. u \in Name /\ Len(u) = 1 /\ u[1] = "_"
    BY <1>2, Single
  <2> HIDE DEF u
  <2>a. /\ u \o w \in Name /\ Len(u \o w) = Len(u) + Len(w)
        /\ \A i \in 1..Len(u) : (u \o w)[i] = u[i]
        /\ \A i \in 1..Len(w) : (u \o w)[Len(u) + i] = w[i]
    BY <1>2, <2>1, Joined
  <2>2. /\ u \o w \in Name /\ Len(u \o w) = 1 + n
        /\ \A i \in 1..1 : (u \o w)[i] = u[i]
        /\ \A i \in 1..n : (u \o w)[1 + i] = w[i]
    BY <1>1, <2>1, <2>a, Zenon
  <2>3. v = u \o w
    BY DEF u
  <2>4. 1 \in 1..1 /\ 1 + n = n + 1 /\ \A i \in 2..(n + 1) : i - 1 \in 1..n /\ 1 + (i - 1) = i
    BY <1>1
  <2> QED
    BY <2>1, <2>2, <2>3, <2>4
<1> HIDE DEF v
<1>4. "_" \notin (Blank \cup Separator \cup Unsafe \cup Dotted)
  BY ExportAssumption
<1>5. \A i \in 2..(n + 1) : i - 1 \in 1..n
  BY <1>1
<1>6. \A i \in 1..(n + 1) : i = 1 \/ i \in 2..(n + 1)
  OBVIOUS
<1>7. v[Len(v)] = w[Len(w)] /\ v[2] = w[1]
  <2>1. n + 1 \in 2..(n + 1) /\ n + 1 - 1 = n /\ 2 \in 2..(n + 1) /\ 2 - 1 = 1
    OBVIOUS
  <2>2. v[n + 1] = w[n] /\ v[2] = w[1]
    <3>1. ASSUME NEW i \in 2..(n + 1), NEW j, j = i - 1 PROVE v[i] = w[j]
      BY <1>3, <3>1
    <3> QED
      BY <2>1, <3>1
  <2> QED
    BY <1>1, <1>3, <2>2, Zenon
<1>8. \A i \in 1..(n + 1) : v[i] \notin Separator \cup Unsafe
  <2>1. \A i \in 1..n : w[i] \notin Separator \cup Unsafe
    BY <1>1, Zenon DEF CleanName
  <2> QED
    BY <1>3, <1>4, <1>5, <1>6, <2>1
<1>9. n + 1 \in Nat \ {0} /\ n + 1 # 1
  OBVIOUS
<1>10. CleanName(v)
  <2>1. Len(v) \in Nat \ {0} /\ \A i \in 1..Len(v) : v[i] \notin Separator \cup Unsafe
    BY <1>3, <1>8, <1>9, Zenon
  <2>2. v[1] \notin Dotted \cup Blank /\ v[Len(v)] \notin Blank
    BY <1>3, <1>4, <1>7 DEF CleanName
  <2> QED
    BY <1>3, <2>1, <2>2, Zenon DEF CleanName
<1>11. ~IsDevice(v)
  <2>1. Len(v) # 1 /\ v[2] \notin Dotted
    BY <1>3, <1>7, <1>9 DEF CleanName
  <2> QED
    BY <1>10, <2>1, CleanDevice
<1> QED
  BY <1>10, <1>11 DEF v

LEMMA CleanedIs ==
    ASSUME NEW name, WordFirst(name)
    PROVE  CleanName(Cleaned(name)) /\ ~IsDevice(Cleaned(name))
<1> DEFINE t == TrimRight(TrimLeft(Each(Base(name), SafeOf)))
           w == IF t = <<>> THEN <<"photo">> ELSE t
<1>1. t = <<>> \/ CleanName(t)
  BY TrimmedClean
<1>2. Cleaned(name) = IF IsDevice(w) THEN <<"_">> \o w ELSE w
  BY DEF Cleaned
<1> HIDE DEF t
<1>3. CleanName(w)
  BY <1>1, PhotoClean
<1> HIDE DEF w
<1>4. CleanName(<<"_">> \o w) /\ ~IsDevice(<<"_">> \o w)
  BY <1>3, Prefixed
<1> QED
  BY <1>2, <1>3, <1>4

\* A name of the snapshot becomes a clean one, which is a device only where the
\* shortening made it one.
LEMMA FilenameIs ==
    ASSUME NEW name, WordFirst(name)
    PROVE  /\ CleanName(Filename(name))
           /\ IsDevice(Filename(name)) => BlanksToTheLimit(name)
<1> DEFINE long == Cleaned(name)
           m == Min({MaxTokens, Len(long)})
           s == SubSeq(long, 1, m)
           f == TrimRight(s)
<1>1. CleanName(long) /\ ~IsDevice(long)
  BY CleanedIs
<1>2. PICK n \in Nat \ {0} : n = Len(long)
  BY <1>1 DEF CleanName
<1>3. m \in 1..n /\ m <= MaxTokens /\ (m = n \/ m = MaxTokens) /\ MaxTokens \in Nat \ {0}
  <2>1. MaxTokens \in Nat \ {0}
    BY ExportAssumption
  <2>2. {MaxTokens, n} \in SUBSET Nat /\ {MaxTokens, n} # {}
    BY <1>2, <2>1
  <2>3. m \in {MaxTokens, n} /\ \A y \in {MaxTokens, n} : m <= y
    BY <1>2, <2>2, MinIs
  <2> HIDE DEF m
  <2> QED
    BY <1>2, <2>1, <2>3
<1> HIDE DEF long, m
<1>4. s \in Name /\ Len(s) = m /\ \A i \in 1..m : s[i] = long[i]
  <2>1. /\ SubSeq(long, 1, m) \in Name /\ Len(SubSeq(long, 1, m)) = m - 1 + 1
        /\ \A i \in 1..(m - 1 + 1) : SubSeq(long, 1, m)[i] = long[1 + i - 1]
    <3>1. long \in Name /\ 1 \in 1..(Len(long) + 1) /\ m \in 0..Len(long) /\ 1 <= m + 1
      BY <1>1, <1>2, <1>3 DEF CleanName
    <3> QED
      BY <3>1, Part
  <2>2. m - 1 + 1 = m /\ \A i \in 1..m : 1 + i - 1 = i
    BY <1>3
  <2> QED
    BY <2>1, <2>2
<1> HIDE DEF s
<1>5. PICK k \in 0..m : /\ f = SubSeq(s, 1, k)
                        /\ k # 0 => s[k] \notin Blank
                        /\ \A i \in (k + 1)..m : s[i] \in Blank
  BY <1>4, TrimRightIs
<1>6. s[1] = long[1] /\ s[1] \notin Dotted \cup Blank
  <2>1. 1 \in 1..m
    BY <1>3
  <2> QED
    BY <1>1, <1>4, <2>1 DEF CleanName
<1>7. k \in 1..m
  <2>1. ASSUME k = 0 PROVE FALSE
    <3>1. 1 \in (k + 1)..m
      BY <1>3, <2>1
    <3> QED
      BY <1>5, <1>6, <3>1
  <2> QED
    BY <1>3, <2>1
<1>8. Harmless(s)
  <2>1. \A i \in 1..m : i \in 1..Len(long)
    BY <1>2, <1>3
  <2> QED
    BY <1>1, <1>4, <2>1 DEF Harmless, CleanName
<1>9. CleanName(f)
  <2>1. k # 0 /\ 1 \in 1..Len(s) /\ k \in 1..Len(s) /\ 1 <= k
    BY <1>3, <1>4, <1>7
  <2>2. CleanName(SubSeq(s, 1, k))
    BY <1>5, <1>6, <1>8, <2>1, CleanPart
  <2> QED
    BY <1>5, <2>2
<1>10. Len(f) = k /\ f[1] = long[1] /\ (k >= 2 => f[2] = long[2])
  <2>1. /\ Len(SubSeq(s, 1, k)) = k - 1 + 1
        /\ \A i \in 1..(k - 1 + 1) : SubSeq(s, 1, k)[i] = s[1 + i - 1]
    BY <1>3, <1>4, <1>7, Part
  <2>2. k - 1 + 1 = k /\ 1 \in 1..k /\ 1 + 1 - 1 = 1 /\ (k >= 2 => 2 \in 1..k /\ 2 \in 1..m) /\ 1 + 2 - 1 = 2
    BY <1>3, <1>7
  <2> QED
    BY <1>4, <1>5, <1>6, <2>1, <2>2
<1> HIDE DEF f
<1>11. ASSUME IsDevice(f) PROVE Len(long) > MaxTokens /\ \A i \in 2..MaxTokens : long[i] \in Blank
  <2>1. (k = 1 \/ f[2] \in Dotted) /\ LowerOf(long[1]) \in Device
    BY <1>9, <1>10, <1>11, CleanDevice
  <2>2. ~(n = 1 \/ long[2] \in Dotted)
    BY <1>1, <1>2, <2>1, CleanDevice
  <2>3. k = 1
    BY <1>7, <1>10, <2>1, <2>2
  <2>4. \A i \in 2..m : long[i] \in Blank
    <3>1. \A i \in 2..m : i \in (k + 1)..m /\ i \in 1..m
      BY <1>3, <2>3
    <3> QED
      BY <1>4, <1>5, <3>1
  <2>5. m # n
    <3>1. ASSUME m = n PROVE FALSE
      <4>1. n \in 2..m
        BY <1>2, <2>2, <3>1
      <4> QED
        BY <1>1, <1>2, <2>4, <4>1 DEF CleanName
    <3> QED
      BY <3>1
  <2> QED
    BY <1>2, <1>3, <2>4, <2>5
<1>12. Filename(name) = f
  BY DEF Filename, f, s, m, long
<1>13. IsDevice(f) => BlanksToTheLimit(name)
  BY <1>11 DEF BlanksToTheLimit, long
<1> QED
  BY <1>9, <1>12, <1>13

\* The candidate with a suffix.
Suffixed(name, n) == Stem(name) \o <<Numbered[n]>> \o Ext(name)

LEMMA NumberedIs ==
    ASSUME NEW n \in DOMAIN Numbered
    PROVE  /\ Numbered[n] \in Token /\ LowerOf(Numbered[n]) = Numbered[n]
           /\ Numbered[n] \notin Blank \cup Separator \cup Unsafe \cup Dotted
<1>1. Numbered \in [DOMAIN Numbered -> STRING \ (DOMAIN Lower \cup Blank \cup Separator
                                                   \cup Unsafe \cup Dotted)]
  BY ExportAssumption
<1>2. Numbered[n] \in STRING \ (DOMAIN Lower \cup Blank \cup Separator \cup Unsafe \cup Dotted)
  BY <1>1
<1> QED
  BY <1>2 DEF Token, LowerOf

\* The suffix comes before the extension, or at the end.
Suffixes(s, w, p, x) ==
    /\ s \in Name /\ Len(s) = Len(w) + 1
    /\ \A i \in 1..p : s[i] = w[i]
    /\ s[p + 1] = x /\ (p # Len(w) => s[Len(w) + 1] = w[Len(w)])

LEMMA SuffixedShape ==
    ASSUME NEW w, CleanName(w)
    PROVE  \E p \in 1..Len(w) : /\ p = Len(w) \/ p = Len(w) - 1
                                /\ \A n \in DOMAIN Numbered : Suffixes(Suffixed(w, n), w, p, Numbered[n])
<1>0. PICK L \in Nat \ {0} : L = Len(w)
  BY DEF CleanName
<1>1. w \in Name /\ w[1] \notin Dotted
  BY DEF CleanName
<1>2. CASE w[L] \notin Dotted
  <2>1. Stem(w) = w /\ Ext(w) = <<>>
    BY <1>0, <1>2 DEF Stem, Ext
  <2>2. ASSUME NEW n \in DOMAIN Numbered PROVE Suffixes(Suffixed(w, n), w, L, Numbered[n])
    <3> DEFINE u == <<Numbered[n]>>
               s == w \o u
    <3>1. u \in Name /\ Len(u) = 1 /\ u[1] = Numbered[n]
      BY NumberedIs, Single
    <3> HIDE DEF u
    <3>2. /\ s \in Name /\ Len(s) = Len(w) + Len(u)
          /\ \A i \in 1..Len(w) : s[i] = w[i]
          /\ \A i \in 1..Len(u) : s[Len(w) + i] = u[i]
      BY <1>1, <3>1, Joined
    <3>3. s \o <<>> = s
      <4> HIDE DEF s
      <4> QED
        BY <3>2 DEF Name
    <3>4. Suffixed(w, n) = s
      BY <2>1, <3>3 DEF Suffixed, u
    <3> HIDE DEF s
    <3>5. 1 \in 1..1
      OBVIOUS
    <3>6. Len(s) = Len(w) + 1 /\ (\A i \in 1..L : s[i] = w[i]) /\ s[L + 1] = Numbered[n]
      BY <1>0, <3>1, <3>2, <3>5, Zenon
    <3> QED
      BY <1>0, <3>2, <3>4, <3>6, Zenon DEF Suffixes
  <2>3. L \in 1..Len(w) /\ L = Len(w)
    BY <1>0
  <2> QED
    BY <2>2, <2>3, Zenon
<1>3. CASE w[L] \in Dotted
  <2> DEFINE a == SubSeq(w, 1, L - 1)
             x == <<w[L]>>
  <2>0. L # 1
    BY <1>1, <1>3
  <2>1. L - 1 \in 1..L /\ L - 1 \in Nat /\ L - 1 + 1 = L /\ L - 1 - 1 + 1 = L - 1
    BY <2>0
  <2>2. Stem(w) = a /\ Ext(w) = x
    BY <1>0, <1>3 DEF Stem, Ext
  <2>3. a \in Name /\ Len(a) = L - 1 /\ \A i \in 1..(L - 1) : a[i] = w[i]
    <3>0. 1 \in 1..(Len(w) + 1) /\ L - 1 \in 0..Len(w) /\ 1 <= L - 1 + 1
      BY <1>0, <2>1
    <3>1. /\ SubSeq(w, 1, L - 1) \in Name /\ Len(SubSeq(w, 1, L - 1)) = L - 1 - 1 + 1
          /\ \A i \in 1..(L - 1 - 1 + 1) : SubSeq(w, 1, L - 1)[i] = w[1 + i - 1]
      BY <1>1, <3>0, Part
    <3>2. \A i \in 1..(L - 1) : 1 + i - 1 = i
      BY <2>1
    <3> QED
      BY <2>1, <3>1, <3>2
  <2>4. x \in Name /\ Len(x) = 1 /\ x[1] = w[L]
    <3>1. w[L] \in Token
      BY <1>0, <1>1 DEF Name
    <3> QED
      BY <3>1, Single
  <2> HIDE DEF a, x
  <2>5. ASSUME NEW n \in DOMAIN Numbered PROVE Suffixes(Suffixed(w, n), w, L - 1, Numbered[n])
    <3> DEFINE u == <<Numbered[n]>>
               b == a \o u
               s == b \o x
    <3>1. u \in Name /\ Len(u) = 1 /\ u[1] = Numbered[n]
      BY NumberedIs, Single
    <3> HIDE DEF u
    <3>2. /\ b \in Name /\ Len(b) = Len(a) + Len(u)
          /\ \A i \in 1..Len(a) : b[i] = a[i]
          /\ \A i \in 1..Len(u) : b[Len(a) + i] = u[i]
      BY <2>3, <3>1, Joined
    <3> HIDE DEF b
    <3>3. /\ s \in Name /\ Len(s) = Len(b) + Len(x)
          /\ \A i \in 1..Len(b) : s[i] = b[i]
          /\ \A i \in 1..Len(x) : s[Len(b) + i] = x[i]
      BY <2>4, <3>2, Joined
    <3>4. Suffixed(w, n) = s
      BY <2>2 DEF Suffixed, b, u
    <3> HIDE DEF s
    <3>5. 1 \in 1..1 /\ L \in 1..L /\ \A i \in 1..(L - 1) : i \in 1..L
      BY <2>1
    <3>6. Len(b) = L /\ (\A i \in 1..(L - 1) : b[i] = w[i]) /\ b[L] = Numbered[n]
      <4>1. /\ Len(b) = L - 1 + 1 /\ \A i \in 1..(L - 1) : b[i] = a[i]
            /\ b[L - 1 + 1] = u[1]
        BY <2>3, <3>1, <3>2, <3>5, Zenon
      <4>2. /\ Len(b) = L /\ \A i \in 1..(L - 1) : b[i] = a[i]
            /\ b[L] = u[1]
        BY <2>1, <4>1, Zenon
      <4> QED
        BY <2>3, <3>1, <4>2, Zenon
    <3>7. /\ Len(s) = L + 1 /\ (\A i \in 1..(L - 1) : s[i] = w[i]) /\ s[L - 1 + 1] = Numbered[n]
          /\ s[L + 1] = w[L]
      BY <2>1, <2>4, <3>3, <3>5, <3>6, Zenon
    <3> QED
      BY <1>0, <3>3, <3>4, <3>7, Zenon DEF Suffixes
  <2>6. L - 1 \in 1..Len(w) /\ L - 1 = Len(w) - 1
    BY <1>0, <2>1
  <2> QED
    BY <2>5, <2>6, Zenon
<1> QED
  BY <1>2, <1>3

\* A clean name stays clean and is no device that it was not; two suffixes give
\* two names, up to case.
LEMMA SuffixedIs ==
    ASSUME NEW w, CleanName(w), NEW n \in DOMAIN Numbered
    PROVE  /\ CleanName(Suffixed(w, n)) /\ (IsDevice(Suffixed(w, n)) => IsDevice(w))
           /\ \A m \in DOMAIN Numbered :
                ToLower(Suffixed(w, m)) = ToLower(Suffixed(w, n)) => m = n
<1>0. PICK L \in Nat \ {0} : L = Len(w)
  BY DEF CleanName
<1>1. PICK p \in 1..Len(w) : /\ p = Len(w) \/ p = Len(w) - 1
                             /\ \A i \in DOMAIN Numbered : Suffixes(Suffixed(w, i), w, p, Numbered[i])
  BY SuffixedShape
<1> DEFINE s == Suffixed(w, n)
<1>2. p \in 1..L /\ (p = L \/ p = L - 1)
  BY <1>0, <1>1
<1>3. Suffixes(s, w, p, Numbered[n])
  BY <1>1
<1> HIDE DEF s
<1>4. /\ s \in Name /\ Len(s) = L + 1 /\ (\A i \in 1..p : s[i] = w[i])
      /\ s[p + 1] = Numbered[n] /\ (p # L => s[L + 1] = w[L])
  BY <1>0, <1>3, Zenon DEF Suffixes
<1>5. \A i \in 1..(L + 1) : i \in 1..p \/ i = p + 1 \/ (p # L /\ i = L + 1)
  BY <1>2
<1>6. /\ w[1] \notin Dotted \cup Blank /\ w[L] \notin Blank
      /\ \A i \in 1..L : w[i] \notin Separator \cup Unsafe
  BY <1>0, Zenon DEF CleanName
<1>7. \A i \in 1..(L + 1) : s[i] \notin Separator \cup Unsafe
  <2> TAKE i \in 1..(L + 1)
  <2>1. \A j \in 1..p : j \in 1..L
    BY <1>2
  <2>2. L \in 1..L
    OBVIOUS
  <2> QED
    BY <1>4, <1>5, <1>6, <2>1, <2>2, NumberedIs, Zenon
<1>8. s[1] = w[1]
  <2>1. 1 \in 1..p
    BY <1>2
  <2> QED
    BY <1>4, <2>1
<1>9. s[L + 1] \notin Blank
  <2>1. CASE p = L
    <3>1. s[L + 1] = Numbered[n]
      BY <1>4, <2>1
    <3> QED
      BY <3>1, NumberedIs
  <2>2. CASE p # L
    BY <1>4, <1>6, <2>2
  <2> QED
    BY <2>1, <2>2
<1>10. CleanName(s)
  <2>1. L + 1 \in Nat \ {0}
    OBVIOUS
  <2>2. Len(s) \in Nat \ {0} /\ s[Len(s)] \notin Blank /\ \A i \in 1..Len(s) : s[i] \notin Separator \cup Unsafe
    BY <1>4, <1>7, <1>9, <2>1, Zenon
  <2> QED
    BY <1>4, <1>6, <1>8, <2>2, Zenon DEF CleanName
<1>11. ASSUME IsDevice(s) PROVE IsDevice(w)
  <2>1. (Len(s) = 1 \/ s[2] \in Dotted) /\ LowerOf(w[1]) \in Device
    BY <1>8, <1>10, <1>11, CleanDevice
  <2>2. L + 1 # 1
    OBVIOUS
  <2>3. s[2] \in Dotted
    BY <1>4, <2>1, <2>2
  <2>4. p # 1
    <3> SUFFICES ASSUME p = 1 PROVE FALSE
      OBVIOUS
    <3>1. p + 1 = 2
      OBVIOUS
    <3>2. s[2] = Numbered[n]
      BY <1>4, <3>1
    <3> QED
      BY <2>3, <3>2, NumberedIs
  <2>5. 2 \in 1..p
    BY <1>2, <2>4
  <2>6. w[2] \in Dotted
    BY <1>4, <2>3, <2>5
  <2> QED
    BY <2>1, <2>6, CleanDevice
<1>12. ASSUME NEW m \in DOMAIN Numbered, ToLower(Suffixed(w, m)) = ToLower(s) PROVE m = n
  <2> DEFINE t == Suffixed(w, m)
  <2>1. Suffixes(t, w, p, Numbered[m])
    BY <1>1
  <2> HIDE DEF t
  <2>2. t \in Name /\ Len(t) = L + 1 /\ t[p + 1] = Numbered[m]
    BY <1>0, <2>1, Zenon DEF Suffixes
  <2>3. p + 1 \in 1..(L + 1)
    BY <1>2
  <2>4. ToLower(t) = ToLower(s)
    BY <1>12 DEF t
  <2>5. LowerOf(Numbered[m]) = LowerOf(Numbered[n])
    BY <1>4, <2>2, <2>3, <2>4, SameLower
  <2>6. Numbered[m] = Numbered[n]
    BY <2>5, NumberedIs
  <2> QED
    BY <2>6, ExportAssumption
<1> QED
  BY <1>10, <1>11, <1>12 DEF s

\* What a run may find: names that the assumption speaks of, and a suffix for
\* each of them.
FewNames(originals) ==
    /\ originals \in Seq(Name) /\ \A i \in 1..Len(originals) : WordFirst(originals[i])
    /\ 2..(Len(originals) + 1) \subseteq DOMAIN Numbered

LEMMA SnapshotNames ==
    ASSUME NEW originals, originals = <<>> \/ originals \in Snapshots
    PROVE  FewNames(originals)
<1>1. CASE originals = <<>>
  <2>1. Len(originals) = 0 /\ originals \in Seq(Name)
    BY <1>1
  <2>2. 2..(0 + 1) = {} /\ 1..0 = {}
    OBVIOUS
  <2> QED
    BY <2>1, <2>2 DEF FewNames
<1>2. CASE originals \in Snapshots
  <2>1. originals \in Seq(Seq(STRING)) /\ 2..(Len(originals) + 1) \subseteq DOMAIN Numbered
    BY <1>2, ExportAssumption
  <2>2. Len(originals) \in Nat /\ DOMAIN originals = 1..Len(originals)
    BY <2>1
  <2>3. \A i \in 1..Len(originals) : originals[i] \in Name
    <3> TAKE i \in 1..Len(originals)
    <3>1. originals[i] \in Seq(STRING)
      BY <2>1
    <3>2. STRING \subseteq Token
      BY DEF Token
    <3> DEFINE s == originals[i]
    <3> HIDE DEF s
    <3>3. s \in Seq(STRING)
      BY <3>1 DEF s
    <3>4. Len(s) \in Nat /\ s = [k \in 1..Len(s) |-> s[k]] /\ \A k \in 1..Len(s) : s[k] \in STRING
      BY <3>3
    <3>5. \A k \in 1..Len(s) : s[k] \in Token
      BY <3>2, <3>4
    <3>6. s \in Seq(Token)
      BY <3>4, <3>5
    <3> QED
      BY <3>6 DEF Name, s
  <2>4. originals \in Seq(Name)
    <3>1. originals = [i \in 1..Len(originals) |-> originals[i]]
      BY <2>1
    <3> QED
      BY <2>2, <2>3, <3>1
  <2>5. \A i \in 1..Len(originals) : WordFirst(originals[i])
    BY <1>2, <2>2, <2>3, ExportAssumption DEF WordFirst
  <2> QED
    BY <2>1, <2>4, <2>5 DEF FewNames
<1> QED
  BY <1>1, <1>2

\* The names so far, and the next one.
FreeOf(names, name) == {n \in DOMAIN Numbered : ~Used(names, Suffixed(name, n))}
Chosen(names, name) == IF Used(names, name) THEN Suffixed(name, Min(FreeOf(names, name))) ELSE name
NamedTo(upTo, k, originals) ==
    upTo = [i \in 0..k |-> IF i = 0 THEN <<>>
                           ELSE Append(upTo[i - 1], Chosen(upTo[i - 1], Filename(originals[i])))]

LEMMA NamesExist ==
    ASSUME NEW originals, Len(originals) \in Nat
    PROVE  \E upTo : NamedTo(upTo, Len(originals), originals)
<1> DEFINE n == Len(originals)
           S == {k \in 0..n : \E upTo : NamedTo(upTo, k, originals)}
           More(f, i) == Append(f[i - 1], Chosen(f[i - 1], Filename(originals[i])))
<1>0. n \in Nat
  OBVIOUS
<1> HIDE DEF n
<1>1. 0 \in S
  <2> DEFINE f == [i \in 0..0 |-> <<>>]
  <2>1. \A i \in 0..0 : i = 0
    OBVIOUS
  <2>2. NamedTo(f, 0, originals)
    BY <2>1 DEF NamedTo
  <2> QED
    BY <1>0, <2>2
<1>2. ASSUME NEW k \in 0..n, k < n, k \in S PROVE k + 1 \in S
  <2>1. PICK f : NamedTo(f, k, originals)
    BY <1>2
  <2>2. f = [i \in 0..k |-> IF i = 0 THEN <<>> ELSE More(f, i)]
    BY <2>1 DEF NamedTo
  <2> DEFINE g == [i \in 0..(k + 1) |-> IF i = k + 1 THEN More(f, k + 1) ELSE f[i]]
  <2> HIDE DEF More
  <2>3. \A i \in 0..(k + 1) : g[i] = IF i = k + 1 THEN More(f, k + 1) ELSE f[i]
    OBVIOUS
  <2>4. g = [i \in 0..(k + 1) |-> g[i]]
    OBVIOUS
  <2> HIDE DEF g
  <2>5. \A i \in 1..(k + 1) : i - 1 \in 0..k /\ i - 1 \in 0..(k + 1) /\ i - 1 # k + 1
    BY <1>2
  <2>6. \A i \in 1..(k + 1) : g[i - 1] = f[i - 1]
    BY <2>3, <2>5
  <2>7. \A i \in 1..(k + 1) : More(g, i) = More(f, i)
    BY <2>6 DEF More
  <2>8. \A i \in 0..(k + 1) : g[i] = IF i = 0 THEN <<>> ELSE More(g, i)
    <3> TAKE i \in 0..(k + 1)
    <3>1. CASE i = k + 1
      <4>1. i \in 1..(k + 1) /\ i # 0
        BY <1>2, <3>1
      <4> QED
        BY <2>3, <2>7, <3>1, <4>1
    <3>2. CASE i # k + 1
      <4>1. i \in 0..k /\ (i # 0 => i \in 1..(k + 1))
        BY <1>2, <3>2
      <4>2. f[i] = IF i = 0 THEN <<>> ELSE More(f, i)
        BY <2>2, <4>1
      <4> QED
        BY <2>3, <2>7, <3>2, <4>1, <4>2
    <3> QED
      BY <3>1, <3>2
  <2>9. g = [i \in 0..(k + 1) |-> IF i = 0 THEN <<>> ELSE More(g, i)]
    BY <2>4, <2>8
  <2>10. NamedTo(g, k + 1, originals)
    BY <2>9 DEF NamedTo, More
  <2>11. k + 1 \in 0..n
    BY <1>0, <1>2
  <2> QED
    BY <2>10, <2>11
<1>3. \A k \in 0..n : k \in S
  <2> HIDE DEF S
  <2> QED
    BY <1>0, <1>1, <1>2, Climb
<1>4. n \in S
  BY <1>0, <1>3
<1> QED
  BY <1>4 DEF n

LEMMA NamesAre ==
    ASSUME NEW originals, Len(originals) \in Nat
    PROVE  \E upTo : /\ NamedTo(upTo, Len(originals), originals)
                     /\ Filenames(originals) = upTo[Len(originals)]
<1>1. \E upTo : NamedTo(upTo, Len(originals), originals)
  BY NamesExist
<1> DEFINE upTo == CHOOSE f : NamedTo(f, Len(originals), originals)
<1>2. NamedTo(upTo, Len(originals), originals)
  BY <1>1
<1>3. Filenames(originals) = upTo[Len(originals)]
  BY DEF Filenames, NamedTo, Chosen, FreeOf, Suffixed
<1> QED
  BY <1>2, <1>3

\* The first k names.
GoodNames(names, k, originals) ==
    /\ names \in Seq(Name) /\ Len(names) = k
    /\ \A i \in 1..k : /\ CleanName(names[i])
                       /\ IsDevice(names[i]) => BlanksToTheLimit(originals[i])
    /\ \A i, j \in 1..k : ToLower(names[i]) = ToLower(names[j]) => i = j

\* Of k + 1 suffixes one is free when k names are taken.
LEMMA SuffixFree ==
    ASSUME NEW k \in Nat, NEW names \in Seq(Name), Len(names) = k,
           2..(k + 2) \subseteq DOMAIN Numbered, NEW w, CleanName(w)
    PROVE  FreeOf(names, w) # {}
<1> SUFFICES ASSUME FreeOf(names, w) = {} PROVE FALSE
  OBVIOUS
<1>0. DOMAIN names = 1..k
  OBVIOUS
<1>1. \A n \in 2..(k + 2) : \E i \in 1..k : ToLower(names[i]) = ToLower(Suffixed(w, n))
  BY <1>0 DEF FreeOf, Used
<1> DEFINE g == [n \in 2..(k + 2) |-> CHOOSE i \in 1..k : ToLower(names[i]) = ToLower(Suffixed(w, n))]
<1>2. \A n \in 2..(k + 2) : g[n] \in 1..k /\ ToLower(names[g[n]]) = ToLower(Suffixed(w, n))
  BY <1>1
<1>3. g \in [2..(k + 2) -> 1..k]
  BY <1>2
<1> HIDE DEF g
<1>4. IsFiniteSet(1..k) /\ Cardinality(1..k) = k
  <2>1. IsFiniteSet(1..k) /\ Cardinality(1..k) = IF 1 > k THEN 0 ELSE k - 1 + 1
    BY FS_Interval
  <2> QED
    BY <2>1
<1>5. IsFiniteSet(2..(k + 2)) /\ Cardinality(2..(k + 2)) = k + 1
  <2>1. /\ IsFiniteSet(2..(k + 2))
        /\ Cardinality(2..(k + 2)) = IF 2 > k + 2 THEN 0 ELSE k + 2 - 2 + 1
    <3>1. 2 \in Int /\ k + 2 \in Int
      OBVIOUS
    <3> QED
      BY <3>1, FS_Interval
  <2> QED
    BY <2>1
<1>6. Cardinality(1..k) < Cardinality(2..(k + 2))
  BY <1>4, <1>5
<1>7. PICK m \in 2..(k + 2), n \in 2..(k + 2) : m # n /\ g[m] = g[n]
  BY <1>3, <1>4, <1>5, <1>6, FS_PigeonHole
<1>8. ToLower(Suffixed(w, m)) = ToLower(Suffixed(w, n))
  BY <1>2, <1>7
<1> QED
  BY <1>7, <1>8, SuffixedIs

\* The name that filenames chooses is clean and new.
LEMMA ChosenIs ==
    ASSUME NEW k \in Nat, NEW names \in Seq(Name), Len(names) = k,
           2..(k + 2) \subseteq DOMAIN Numbered, NEW w, CleanName(w)
    PROVE  /\ CleanName(Chosen(names, w)) /\ (IsDevice(Chosen(names, w)) => IsDevice(w))
           /\ ~Used(names, Chosen(names, w))
<1>1. CASE ~Used(names, w)
  BY <1>1 DEF Chosen
<1>2. CASE Used(names, w)
  <2> DEFINE F == FreeOf(names, w)
  <2>1. F \in SUBSET Nat
    BY ExportAssumption DEF FreeOf
  <2>2. F # {}
    BY SuffixFree
  <2> HIDE DEF F
  <2>3. Min(F) \in F
    BY <2>1, <2>2, MinIs
  <2>4. PICK n : n = Min(F)
    OBVIOUS
  <2>5. n \in DOMAIN Numbered /\ ~Used(names, Suffixed(w, n))
    BY <2>3, <2>4 DEF F, FreeOf
  <2>6. Chosen(names, w) = Suffixed(w, n)
    BY <1>2, <2>4 DEF Chosen, F
  <2> QED
    BY <2>5, <2>6, SuffixedIs
<1> QED
  BY <1>1, <1>2

LEMMA OneMoreName ==
    ASSUME NEW originals, FewNames(originals), NEW k \in 0..Len(originals), k < Len(originals),
           NEW names, GoodNames(names, k, originals)
    PROVE  GoodNames(Append(names, Chosen(names, Filename(originals[k + 1]))), k + 1, originals)
<1> DEFINE w == Filename(originals[k + 1])
           c == Chosen(names, w)
           more == Append(names, c)
<1>0. PICK L \in Nat : L = Len(originals)
  BY DEF FewNames
<1>1. k \in Nat /\ k < L /\ k + 1 \in 1..L
  BY <1>0
<1>2. WordFirst(originals[k + 1]) /\ 2..(L + 1) \subseteq DOMAIN Numbered
  BY <1>0, <1>1 DEF FewNames
<1>3. CleanName(w) /\ (IsDevice(w) => BlanksToTheLimit(originals[k + 1]))
  BY <1>2, FilenameIs
<1>4. names \in Seq(Name) /\ Len(names) = k
  BY DEF GoodNames
<1>5. 2..(k + 2) \subseteq DOMAIN Numbered
  <2>1. 2..(k + 2) \subseteq 2..(L + 1)
    BY <1>1
  <2> QED
    BY <1>2, <2>1
<1> HIDE DEF w
<1>6. CleanName(c) /\ (IsDevice(c) => IsDevice(w)) /\ ~Used(names, c)
  BY <1>1, <1>3, <1>4, <1>5, ChosenIs
<1> HIDE DEF c
<1>7. /\ more \in Seq(Name) /\ Len(more) = k + 1 /\ more[k + 1] = c
      /\ \A i \in 1..k : more[i] = names[i]
  <2>1. c \in Name
    BY <1>6 DEF CleanName
  <2> QED
    BY <1>4, <2>1
<1> HIDE DEF more
<1>8. \A i \in 1..(k + 1) : i \in 1..k \/ i = k + 1
  BY <1>1
<1>9. \A i \in 1..k : CleanName(names[i]) /\ (IsDevice(names[i]) => BlanksToTheLimit(originals[i]))
  BY DEF GoodNames
<1>10. ASSUME NEW i \in 1..(k + 1)
       PROVE  CleanName(more[i]) /\ (IsDevice(more[i]) => BlanksToTheLimit(originals[i]))
  BY <1>3, <1>6, <1>7, <1>8, <1>9
<1>11. \A i, j \in 1..k : ToLower(names[i]) = ToLower(names[j]) => i = j
  BY DEF GoodNames
<1>12. \A i \in 1..k : ToLower(names[i]) # ToLower(c)
  <2>1. DOMAIN names = 1..k
    BY <1>4
  <2> QED
    BY <1>6, <2>1 DEF Used
<1>13. \A i, j \in 1..(k + 1) : ToLower(more[i]) = ToLower(more[j]) => i = j
  BY <1>7, <1>8, <1>11, <1>12
<1>14. GoodNames(more, k + 1, originals)
  BY <1>7, <1>10, <1>13 DEF GoodNames
<1> QED
  BY <1>14 DEF more, c, w

\* What filenames returns.
LEMMA FilenamesAre ==
    ASSUME NEW originals, FewNames(originals)
    PROVE  GoodNames(Filenames(originals), Len(originals), originals)
<1> DEFINE n == Len(originals)
<1>0. n \in Nat
  BY DEF FewNames
<1>1. PICK upTo : NamedTo(upTo, n, originals) /\ Filenames(originals) = upTo[n]
  BY <1>0, NamesAre
<1>2. \A i \in 0..n : upTo[i] = IF i = 0 THEN <<>>
                                ELSE Append(upTo[i - 1], Chosen(upTo[i - 1], Filename(originals[i])))
  BY <1>1 DEF NamedTo
<1> DEFINE S == {k \in 0..n : GoodNames(upTo[k], k, originals)}
<1>3. 0 \in S
  <2>1. upTo[0] = <<>> /\ 0 \in 0..n
    BY <1>0, <1>2
  <2>2. <<>> \in Seq(Name) /\ Len(<<>>) = 0 /\ 1..0 = {}
    OBVIOUS
  <2>3. GoodNames(upTo[0], 0, originals)
    BY <2>1, <2>2 DEF GoodNames
  <2> QED
    BY <2>1, <2>3
<1>4. ASSUME NEW k \in 0..n, k < n, k \in S PROVE k + 1 \in S
  <2>1. k + 1 \in 0..n /\ k + 1 # 0 /\ k + 1 - 1 = k
    <3> HIDE DEF n
    <3> QED
      BY <1>0, <1>4
  <2>2. upTo[k + 1] = Append(upTo[k], Chosen(upTo[k], Filename(originals[k + 1])))
    <3>1. PICK i \in 0..n : i = k + 1 /\ i # 0 /\ i - 1 = k
      BY <2>1
    <3>2. upTo[i] = Append(upTo[i - 1], Chosen(upTo[i - 1], Filename(originals[i])))
      BY <1>2, <3>1
    <3> QED
      BY <3>1, <3>2
  <2>3. GoodNames(upTo[k], k, originals)
    BY <1>4
  <2>4. GoodNames(upTo[k + 1], k + 1, originals)
    BY <1>4, <2>2, <2>3, OneMoreName
  <2> QED
    BY <2>1, <2>4
<1>5. \A k \in 0..n : k \in S
  <2> HIDE DEF S, n
  <2> QED
    BY <1>0, <1>3, <1>4, Climb
<1>6. n \in S
  <2> HIDE DEF n
  <2> QED
    BY <1>0, <1>5
<1> QED
  BY <1>1, <1>6

(* ----------------------------- the directory -------------------------- *)

\* The path of the i-th file, the manifest after the last one; the entries of it
\* and of its temporary file.
PathAt(i) == IF i <= Len(files) THEN Photos \o Filenames(files)[i] ELSE ManifestPath
At(i) == Entry(PathAt(i))
PartAt(i) == Entry(PathAt(i) \o <<".part">>)

Seen(token) == IF blind THEN LowerOf(token) ELSE token

LEMMA EntryIs ==
    ASSUME NEW p \in Name
    PROVE  /\ Entry(p) \in Name /\ Len(Entry(p)) = Len(p)
           /\ \A i \in 1..Len(p) : Entry(p)[i] = Seen(p[i])
<1>1. CASE blind
  BY <1>1, LowerIs DEF Entry, Seen
<1>2. CASE ~blind
  BY <1>2 DEF Entry, Seen
<1> QED
  BY <1>1, <1>2

LEMMA EntryEq ==
    ASSUME NEW p \in Name, NEW q \in Name
    PROVE  Entry(p) = Entry(q) <=>
             Len(p) = Len(q) /\ \A i \in 1..Len(p) : Seen(p[i]) = Seen(q[i])
<1> DEFINE a == Entry(p)
           b == Entry(q)
<1>1. /\ a \in Name /\ Len(a) = Len(p) /\ \A i \in 1..Len(p) : a[i] = Seen(p[i])
      /\ b \in Name /\ Len(b) = Len(q) /\ \A i \in 1..Len(q) : b[i] = Seen(q[i])
  BY EntryIs
<1> HIDE DEF a, b
<1>2. a = b => Len(p) = Len(q) /\ \A i \in 1..Len(p) : Seen(p[i]) = Seen(q[i])
  BY <1>1
<1>3. ASSUME Len(p) = Len(q), \A i \in 1..Len(p) : Seen(p[i]) = Seen(q[i]) PROVE a = b
  <2>1. a \in Seq(Token) /\ b \in Seq(Token) /\ Len(a) = Len(b) /\ \A i \in 1..Len(a) : a[i] = b[i]
    BY <1>1, <1>3 DEF Name
  <2> HIDE DEF a, b
  <2> QED
    BY <2>1
<1> QED
  BY <1>2, <1>3 DEF a, b

LEMMA FixedTokens ==
    ASSUME NEW t \in {"photo", "photos", ".part", "photodrop-manifest.json"}
    PROVE  t \in Token /\ LowerOf(t) = t /\ Seen(t) = t
<1>1. t \in Token
  BY DEF Token
<1>2. t \notin DOMAIN Lower
  BY ExportAssumption
<1> QED
  BY <1>1, <1>2 DEF LowerOf, Seen

LEMMA FixedEntries ==
    /\ Photos \in Name /\ Len(Photos) = 1 /\ Photos[1] = "photos" /\ Entry(Photos) = Photos
    /\ ManifestPath \in Name /\ Len(ManifestPath) = 1
    /\ ManifestPath[1] = "photodrop-manifest.json" /\ Entry(ManifestPath) = ManifestPath
<1>1. ASSUME NEW t \in {"photo", "photos", ".part", "photodrop-manifest.json"}
      PROVE  <<t>> \in Name /\ Len(<<t>>) = 1 /\ <<t>>[1] = t /\ Entry(<<t>>) = <<t>>
  <2> DEFINE p == <<t>>
             e == Entry(p)
  <2>1. p \in Name /\ Len(p) = 1 /\ p[1] = t
    BY FixedTokens, Single
  <2>2. e \in Name /\ Len(e) = 1 /\ e[1] = t
    <3> HIDE DEF p
    <3>1. e \in Name /\ Len(e) = Len(p) /\ \A i \in 1..Len(p) : e[i] = Seen(p[i])
      BY <2>1, EntryIs
    <3>2. 1 \in 1..1
      OBVIOUS
    <3> QED
      BY <2>1, <3>1, <3>2, FixedTokens
  <2>3. e = <<t>>
    <3> HIDE DEF e
    <3> QED
      BY <2>2 DEF Name
  <2> QED
    BY <2>1, <2>3
<1> QED
  BY <1>1 DEF Photos, ManifestPath

\* The path of a photo: its directory and its name.
LEMMA PhotoPath ==
    ASSUME NEW w, CleanName(w)
    PROVE  /\ Photos \o w \in Name /\ Len(Photos \o w) = Len(w) + 1
           /\ Len(Photos \o w) \in Nat /\ Len(Photos \o w) >= 2
           /\ (Photos \o w)[1] = "photos" /\ \A i \in 1..Len(w) : (Photos \o w)[i + 1] = w[i]
<1> DEFINE p == Photos \o w
<1>0. PICK L \in Nat \ {0} : L = Len(w)
  BY DEF CleanName
<1>1. /\ p \in Name /\ Len(p) = Len(Photos) + Len(w)
      /\ \A i \in 1..Len(Photos) : p[i] = Photos[i]
      /\ \A i \in 1..Len(w) : p[Len(Photos) + i] = w[i]
  BY FixedEntries, Joined DEF CleanName
<1> HIDE DEF p
<1>2. 1 \in 1..1 /\ 1 + L = L + 1 /\ L + 1 \in Nat /\ L + 1 >= 2 /\ \A i \in 1..L : 1 + i = i + 1
  BY <1>0
<1>3. Len(p) = 1 + L /\ p[1] = "photos" /\ \A i \in 1..L : p[1 + i] = w[i]
  BY <1>0, <1>1, <1>2, FixedEntries, Zenon
<1> QED
  BY <1>0, <1>2, <1>3, <1>1 DEF p

\* A temporary file: the path and ".part".
LEMMA PartPath ==
    ASSUME NEW p \in Name
    PROVE  /\ p \o <<".part">> \in Name /\ Len(p \o <<".part">>) = Len(p) + 1
           /\ (p \o <<".part">>)[Len(p) + 1] = ".part"
           /\ \A i \in 1..Len(p) : (p \o <<".part">>)[i] = p[i]
<1> DEFINE u == <<".part">>
<1>1. u \in Name /\ Len(u) = 1 /\ u[1] = ".part"
  BY FixedTokens, Single
<1> HIDE DEF u
<1>2. /\ p \o u \in Name /\ Len(p \o u) = Len(p) + Len(u)
      /\ \A i \in 1..Len(p) : (p \o u)[i] = p[i]
      /\ \A i \in 1..Len(u) : (p \o u)[Len(p) + i] = u[i]
  BY <1>1, Joined
<1>3. 1 \in 1..1
  OBVIOUS
<1>4. /\ p \o u \in Name /\ Len(p \o u) = Len(p) + 1 /\ (p \o u)[Len(p) + 1] = ".part"
      /\ \A i \in 1..Len(p) : (p \o u)[i] = p[i]
  BY <1>1, <1>2, <1>3, Zenon
<1> QED
  BY <1>4 DEF u

NamesOK == FewNames(files) /\ GoodNames(Filenames(files), Len(files), files)

\* The paths are names; only the manifest's has one token.
LEMMA PathsAre ==
    ASSUME NamesOK, NEW i \in 1..(Len(files) + 1)
    PROVE  /\ PathAt(i) \in Name /\ Len(PathAt(i)) \in Nat \ {0}
           /\ i # Len(files) + 1 =>
                /\ Filenames(files)[i] \in Name /\ CleanName(Filenames(files)[i])
                /\ PathAt(i) = Photos \o Filenames(files)[i]
                /\ PathAt(i)[1] = "photos" /\ Len(PathAt(i)) >= 2
           /\ i = Len(files) + 1 => PathAt(i) = ManifestPath
<1>0. PICK n \in Nat : n = Len(files)
  BY DEF NamesOK, FewNames
<1>1. CASE i # n + 1
  <2>1. i \in 1..n /\ i <= n
    BY <1>0, <1>1
  <2>2. PathAt(i) = Photos \o Filenames(files)[i]
    BY <1>0, <2>1 DEF PathAt
  <2>3. CleanName(Filenames(files)[i])
    BY <1>0, <2>1 DEF NamesOK, GoodNames
  <2> DEFINE w == Filenames(files)[i]
  <2>4. CleanName(w) /\ w \in Name
    BY <2>3 DEF CleanName
  <2> HIDE DEF w
  <2>5. /\ Photos \o w \in Name /\ Len(Photos \o w) \in Nat /\ Len(Photos \o w) >= 2
        /\ (Photos \o w)[1] = "photos"
    BY <2>4, PhotoPath
  <2>6. PICK p : p = Photos \o w
    OBVIOUS
  <2>7. Len(p) \in Nat \ {0} /\ Len(p) >= 2
    BY <2>5, <2>6
  <2> QED
    BY <1>0, <1>1, <2>2, <2>4, <2>5, <2>6, <2>7 DEF w
<1>2. CASE i = n + 1
  <2>1. ~(i <= n)
    BY <1>0, <1>2
  <2>2. PathAt(i) = ManifestPath
    BY <1>0, <2>1 DEF PathAt
  <2> QED
    BY <1>0, <1>2, <2>2, FixedEntries
<1> QED
  BY <1>1, <1>2

\* Two files have two paths, on every file system.
LEMMA PathsDiffer ==
    ASSUME NamesOK, NEW i \in 1..(Len(files) + 1), NEW j \in 1..(Len(files) + 1), At(i) = At(j)
    PROVE  i = j
<1>0. PICK n \in Nat : n = Len(files)
  BY DEF NamesOK, FewNames
<1> DEFINE p == PathAt(i)
           q == PathAt(j)
<1>1. /\ p \in Name /\ q \in Name
      /\ i # n + 1 => Len(p) >= 2 /\ Len(p) \in Nat
      /\ j # n + 1 => Len(q) >= 2 /\ Len(q) \in Nat
      /\ i = n + 1 => Len(p) = 1
      /\ j = n + 1 => Len(q) = 1
  BY <1>0, PathsAre, FixedEntries
<1> HIDE DEF p, q
<1>2. Len(p) = Len(q) /\ \A k \in 1..Len(p) : Seen(p[k]) = Seen(q[k])
  BY <1>1, EntryEq DEF At, p, q
<1>3. i = n + 1 <=> j = n + 1
  BY <1>1, <1>2
<1>4. CASE i # n + 1 /\ j # n + 1
  <2> DEFINE v == Filenames(files)[i]
             w == Filenames(files)[j]
  <2>1. CleanName(v) /\ CleanName(w) /\ p = Photos \o v /\ q = Photos \o w
    BY <1>0, <1>4, PathsAre DEF p, q
  <2> HIDE DEF v, w
  <2>2. /\ Len(p) = Len(v) + 1 /\ \A k \in 1..Len(v) : p[k + 1] = v[k]
        /\ Len(q) = Len(w) + 1 /\ \A k \in 1..Len(w) : q[k + 1] = w[k]
    BY <2>1, PhotoPath
  <2>3. PICK L \in Nat, M \in Nat : L = Len(v) /\ M = Len(w) /\ v \in Name /\ w \in Name
    BY <2>1 DEF CleanName
  <2>4. L = M
    <3>1. L + 1 = M + 1
      BY <1>2, <2>2, <2>3, Zenon
    <3> QED
      BY <3>1
  <2>5. \A k \in 1..L : k + 1 \in 1..(L + 1)
    OBVIOUS
  <2>6. \A k \in 1..L : Seen(v[k]) = Seen(w[k])
    BY <1>2, <2>2, <2>3, <2>4, <2>5
  <2>7. \A k \in 1..L : LowerOf(v[k]) = LowerOf(w[k])
    BY <2>6 DEF Seen
  <2>8. ToLower(v) = ToLower(w)
    <3> DEFINE a == ToLower(v)
               b == ToLower(w)
    <3>1. /\ a \in Name /\ Len(a) = L /\ \A k \in 1..L : a[k] = LowerOf(v[k])
          /\ b \in Name /\ Len(b) = L /\ \A k \in 1..L : b[k] = LowerOf(w[k])
      BY <2>3, <2>4, LowerIs
    <3> HIDE DEF a, b
    <3>2. a = b
      BY <2>7, <3>1 DEF Name
    <3> QED
      BY <3>2 DEF a, b
  <2>9. i \in 1..n /\ j \in 1..n
    BY <1>0, <1>4
  <2> QED
    BY <1>0, <2>8, <2>9 DEF NamesOK, GoodNames, v, w
<1> QED
  BY <1>3, <1>4

\* The temporary name of a file is no directory and not the file's own name.
LEMMA PartsAre ==
    ASSUME NamesOK, NEW i \in 1..(Len(files) + 1)
    PROVE  /\ PartAt(i) # Photos /\ PartAt(i) # ManifestPath /\ PartAt(i) # At(i) /\ At(i) # Photos
           /\ PartAt(i)[Len(PartAt(i))] = LowerOf(".part")
           /\ i = Len(files) + 1 <=> At(i) = ManifestPath
<1>0. PICK n \in Nat : n = Len(files)
  BY DEF NamesOK, FewNames
<1> DEFINE p == PathAt(i)
           t == p \o <<".part">>
           e == Entry(t)
           a == Entry(p)
<1>1. p \in Name
  BY PathsAre
<1>2. PICK L \in Nat \ {0} : L = Len(p)
  BY PathsAre
<1>3. t \in Name /\ Len(t) = Len(p) + 1 /\ t[Len(p) + 1] = ".part"
  <2> HIDE DEF p
  <2> QED
    BY <1>1, PartPath
<1>4. Len(e) = Len(t) /\ \A k \in 1..Len(t) : e[k] = Seen(t[k])
  <2> HIDE DEF t
  <2> QED
    BY <1>3, EntryIs
<1>5. a \in Name /\ Len(a) = Len(p) /\ \A k \in 1..Len(p) : a[k] = Seen(p[k])
  <2> HIDE DEF p
  <2> QED
    BY <1>1, EntryIs
<1>6. e = PartAt(i) /\ a = At(i)
  BY DEF PartAt, At
<1>7. /\ i # n + 1 => L >= 2
      /\ i = n + 1 => p = ManifestPath
  BY <1>0, <1>2, PathsAre
<1> HIDE DEF e, a, t, p
<1>8. Len(e) = L + 1 /\ e[L + 1] = Seen(".part") /\ Len(a) = L
  <2>1. L + 1 \in 1..(L + 1)
    OBVIOUS
  <2> QED
    BY <1>2, <1>3, <1>4, <1>5, <2>1
<1>9. e[Len(e)] = LowerOf(".part")
  BY <1>8, FixedTokens
<1>10. e # Photos /\ e # ManifestPath /\ e # a
  <2>1. L + 1 # 1 /\ L + 1 # L
    OBVIOUS
  <2> QED
    BY <1>8, <2>1, FixedEntries
<1>11. i = n + 1 => a = ManifestPath
  BY <1>7, FixedEntries DEF a
<1>12. i # n + 1 => a # ManifestPath /\ a # Photos
  <2>1. i # n + 1 => L # 1
    BY <1>7
  <2> QED
    BY <1>8, <2>1, FixedEntries
<1>13. ManifestPath # Photos
  <2>1. "photos" # "photodrop-manifest.json"
    OBVIOUS
  <2> QED
    BY <2>1, FixedEntries
<1> QED
  BY <1>0, <1>6, <1>9, <1>10, <1>11, <1>12, <1>13

\* A name that is taken by a file before is a photo's: the one exception.
LEMMA PartTaken ==
    ASSUME NamesOK, NEW i \in 1..(Len(files) + 1), NEW j \in 1..(Len(files) + 1),
           i < j, PartAt(j) = At(i)
    PROVE  TempTaken
<1>0. PICK n \in Nat : n = Len(files) /\ DOMAIN files = 1..n
  BY DEF NamesOK, FewNames
<1> DEFINE p == PathAt(i)
           q == PathAt(j)
           t == q \o <<".part">>
<1>1. i # n + 1 /\ i \in 1..n
  BY <1>0
<1>2. p \in Name /\ q \in Name /\ Len(q) \in Nat \ {0} /\ p[1] = "photos"
  BY <1>0, <1>1, PathsAre
<1> HIDE DEF p, q
<1>3. t \in Name /\ Len(t) = Len(q) + 1 /\ \A k \in 1..Len(q) : t[k] = q[k]
  BY <1>2, PartPath
<1> HIDE DEF t
<1>4. Len(p) = Len(t) /\ \A k \in 1..Len(p) : Seen(p[k]) = Seen(t[k])
  BY <1>2, <1>3, EntryEq DEF PartAt, At, p, q, t
<1>5. Seen(q[1]) = "photos"
  <2>1. PICK L \in Nat \ {0} : L = Len(q)
    BY <1>2
  <2>2. 1 \in 1..L /\ 1 \in 1..(L + 1)
    OBVIOUS
  <2>3. Seen(t[1]) = Seen(p[1]) /\ t[1] = q[1]
    BY <1>3, <1>4, <2>1, <2>2
  <2> QED
    BY <1>2, <2>3, FixedTokens
<1>6. j # n + 1
  <2> SUFFICES ASSUME j = n + 1 PROVE FALSE
    OBVIOUS
  <2>1. q[1] = "photodrop-manifest.json"
    BY <1>0, PathsAre, FixedEntries DEF q
  <2>2. Seen(q[1]) = "photodrop-manifest.json"
    BY <2>1, FixedTokens
  <2> QED
    BY <1>5, <2>2
<1>7. j \in 1..n
  BY <1>0, <1>6
<1> DEFINE v == Filenames(files)[i]
           w == Filenames(files)[j]
           x == w \o <<".part">>
<1>8. CleanName(v) /\ CleanName(w) /\ p = Photos \o v /\ q = Photos \o w
  BY <1>0, <1>1, <1>6, PathsAre DEF p, q
<1> HIDE DEF v, w
<1>9. PICK L \in Nat, M \in Nat : L = Len(v) /\ M = Len(w) /\ v \in Name /\ w \in Name
  BY <1>8 DEF CleanName
<1>10. /\ Len(p) = L + 1 /\ \A k \in 1..L : p[k + 1] = v[k]
       /\ Len(q) = M + 1 /\ \A k \in 1..M : q[k + 1] = w[k]
  BY <1>8, <1>9, PhotoPath
<1>11. x \in Name /\ Len(x) = M + 1 /\ x[M + 1] = ".part" /\ \A k \in 1..M : x[k] = w[k]
  BY <1>9, PartPath
<1>12. t[M + 1 + 1] = ".part"
  BY <1>2, <1>10, PartPath DEF t
<1> HIDE DEF x
<1>13. L = M + 1 /\ Len(p) = M + 1 + 1
  BY <1>3, <1>4, <1>9, <1>10
<1>14. ASSUME NEW k \in 1..L PROVE Seen(v[k]) = Seen(x[k])
  <2>1. k + 1 \in 1..(M + 1 + 1)
    BY <1>9, <1>13
  <2>2. Seen(p[k + 1]) = Seen(t[k + 1]) /\ p[k + 1] = v[k]
    BY <1>4, <1>10, <1>13, <2>1
  <2>3. t[k + 1] = x[k]
    <3>1. CASE k = M + 1
      BY <1>11, <1>12, <3>1
    <3>2. CASE k # M + 1
      <4>1. k \in 1..M /\ k + 1 \in 1..(M + 1)
        BY <1>9, <1>13, <3>2
      <4> QED
        BY <1>3, <1>10, <1>11, <4>1
    <3> QED
      BY <3>1, <3>2
  <2> QED
    BY <2>2, <2>3
<1>15. Entry(v) = Entry(x)
  <2>1. v \in Name /\ x \in Name /\ Len(v) = Len(x)
    BY <1>9, <1>11, <1>13
  <2>2. \A k \in 1..Len(v) : Seen(v[k]) = Seen(x[k])
    BY <1>9, <1>14, Zenon
  <2> QED
    BY <2>1, <2>2, EntryEq
<1> QED
  BY <1>0, <1>1, <1>7, <1>15 DEF TempTaken, v, w, x

(* ------------------------- the inductive invariant -------------------- *)

ExportTypeOK ==
    /\ blind \in BOOLEAN /\ trouble \in BOOLEAN
    /\ files = <<>> \/ files \in Snapshots
    /\ item \in 1..(Len(files) + 1)
    /\ exportAt \in {"idle", "open", "copy", "link", "linked", "drop", "failed", "done"}

\* The temporary file is this run's; the i-th file has its final name.
Holding == exportAt \in {"copy", "link", "linked", "drop"}
Out(i) == i < item \/ (i = item /\ exportAt \in {"linked", "done"})

\* An entry is the directory, a whole file of this run, or a temporary one.
EntriesOK == \A e \in DOMAIN tree : \/ e = Photos /\ tree[e] = "directory"
                                    \/ \E i \in 1..item : e = At(i) /\ tree[e] = "whole"
                                    \/ \E i \in 1..item : e = PartAt(i)
OutOK == \A i \in 1..item : Out(i) => At(i) \in DOMAIN tree
\* The temporary file has taken no one's place.
PartOK == /\ Holding => /\ PartAt(item) \in DOMAIN tree
                        /\ \A i \in 1..item : i < item => PartAt(item) # At(i)
          /\ exportAt = "link" => tree[PartAt(item)] = "whole"
\* Without trouble nothing is left behind.
CleanOK == ~trouble => \A e \in DOMAIN tree : \/ e = Photos
                                              \/ \E i \in 1..item : Out(i) /\ e = At(i)
                                              \/ Holding /\ e = PartAt(item)
ExcuseOK == exportAt \in {"failed", "drop"} => trouble \/ TempTaken
PhotosOK == Photos \in DOMAIN tree \/ (DOMAIN tree = {} /\ exportAt \in {"idle", "failed"})

ExportInv ==
    ExportTypeOK /\ EntriesOK /\ OutOK /\ PartOK /\ CleanOK /\ ExcuseOK /\ PhotosOK

LEMMA FilesNames ==
    ASSUME ExportTypeOK
    PROVE  NamesOK /\ Len(files) \in Nat
<1>1. FewNames(files)
  BY SnapshotNames DEF ExportTypeOK
<1> QED
  BY <1>1, FilenamesAre DEF NamesOK, FewNames

LEMMA SamePaths ==
    ASSUME files' = files, blind' = blind
    PROVE  /\ \A i : At(i)' = At(i) /\ PartAt(i)' = PartAt(i)
           /\ TempTaken' = TempTaken
BY DEF At, PartAt, PathAt, Entry, TempTaken

LEMMA WithIs ==
    ASSUME NEW p, NEW c, tree' = With(p, c)
    PROVE  /\ DOMAIN tree' = DOMAIN tree \cup {Entry(p)} /\ tree'[Entry(p)] = c
           /\ \A e \in DOMAIN tree : e # Entry(p) => tree'[e] = tree[e]
BY DEF With

LEMMA HereIs ==
    At(item) = Entry(Path) /\ PartAt(item) = Entry(Temp)
BY DEF At, PartAt, PathAt, Path, Temp

LEMMA ExportInitOK ==
    ExportInit => ExportInv
<1> SUFFICES ASSUME ExportInit PROVE ExportInv
  OBVIOUS
<1>1. DOMAIN tree = {} /\ Len(files) = 0 /\ item = 1 /\ exportAt = "idle" /\ files = <<>>
  BY DEF ExportInit
<1>2. ExportTypeOK
  <2>1. 1 \in 1..(0 + 1)
    OBVIOUS
  <2> QED
    BY <1>1, <2>1 DEF ExportTypeOK, ExportInit
<1>3. \A i \in 1..item : ~Out(i)
  BY <1>1 DEF Out
<1> QED
  BY <1>1, <1>2, <1>3 DEF ExportInv, EntriesOK, OutOK, PartOK, CleanOK, ExcuseOK, PhotosOK, Holding

\* A step that ends the run with an excuse and leaves the files alone.
LEMMA GivesUp ==
    ASSUME ExportInv, UNCHANGED <<blind, tree, files, item>>,
           exportAt' \in {"failed", "drop"}, trouble' = TRUE,
           exportAt' = "drop" => exportAt = "link"
    PROVE  ExportInv'
<1>1. /\ \A i : At(i)' = At(i) /\ PartAt(i)' = PartAt(i)
      /\ tree' = tree /\ item' = item
  BY SamePaths
<1>2. ExportTypeOK'
  BY DEF ExportInv, ExportTypeOK
<1>3. EntriesOK'
  BY <1>1 DEF ExportInv, EntriesOK
<1>4. OutOK'
  BY <1>1 DEF ExportInv, OutOK, Out
<1>5. PartOK'
  BY <1>1 DEF ExportInv, PartOK, Holding
<1>6. PhotosOK'
  BY DEF ExportInv, PhotosOK
<1>7. CleanOK' /\ ExcuseOK'
  BY DEF CleanOK, ExcuseOK
<1> QED
  BY <1>2, <1>3, <1>4, <1>5, <1>6, <1>7 DEF ExportInv

LEMMA RunBeginsOK ==
    ASSUME ExportInv, NEW snapshot \in Snapshots, RunBegins(snapshot)
    PROVE  ExportInv'
<1>1. /\ item' = 1 /\ files' = snapshot /\ exportAt' = "open" /\ blind' = blind /\ trouble' = trouble
      /\ tree' = With(Photos, "directory") /\ Photos \notin DOMAIN tree
  BY DEF RunBegins, MayUse
<1>2. DOMAIN tree = {}
  BY <1>1 DEF ExportInv, PhotosOK
<1>3. DOMAIN tree' = {Photos} /\ tree'[Photos] = "directory"
  BY <1>1, <1>2, WithIs, FixedEntries
<1>4. ExportTypeOK'
  <2>1. Len(snapshot) \in Nat
    BY SnapshotNames DEF FewNames
  <2>2. 1 \in 1..(Len(snapshot) + 1)
    BY <2>1
  <2> QED
    BY <1>1, <2>2 DEF ExportInv, ExportTypeOK
<1>5. OutOK' /\ PartOK' /\ ExcuseOK'
  <2>1. \A i \in 1..1 : ~(i < 1)
    OBVIOUS
  <2> QED
    BY <1>1, <2>1 DEF OutOK, Out, PartOK, ExcuseOK, Holding
<1>6. EntriesOK' /\ CleanOK' /\ PhotosOK'
  BY <1>3 DEF EntriesOK, CleanOK, PhotosOK
<1> QED
  BY <1>4, <1>5, <1>6 DEF ExportInv

LEMMA OpenPartOK ==
    ASSUME ExportInv, OpenPart
    PROVE  ExportInv'
<1>0. /\ exportAt = "open" /\ UNCHANGED <<blind, files, item>> /\ trouble \in BOOLEAN
      /\ NamesOK /\ item \in 1..(Len(files) + 1) /\ Len(files) \in Nat /\ item \in Nat
  BY FilesNames DEF OpenPart, ExportInv, ExportTypeOK
<1>1. \A i : At(i)' = At(i) /\ PartAt(i)' = PartAt(i)
  BY <1>0, SamePaths
<1>2. CASE Fails(TRUE) /\ UNCHANGED tree
  BY <1>0, <1>2, GivesUp DEF Fails
<1>3. CASE Exists(Temp) /\ Fails(FALSE) /\ UNCHANGED tree
  <2>1. exportAt' = "failed" /\ trouble' = trouble /\ tree' = tree
    BY <1>0, <1>3 DEF Fails
  <2>2. PartAt(item) \in DOMAIN tree
    BY <1>3, HereIs DEF Exists
  <2>3. ASSUME ~trouble PROVE TempTaken
    <3>1. PICK i \in 1..item : Out(i) /\ PartAt(item) = At(i)
      BY <1>0, <2>2, <2>3, PartsAre DEF ExportInv, CleanOK, Holding
    <3>2. i < item /\ i \in 1..(Len(files) + 1)
      BY <1>0, <3>1 DEF Out
    <3> QED
      BY <1>0, <3>1, <3>2, PartTaken
  <2>4. ExcuseOK'
    BY <1>0, <2>1, <2>3, SamePaths DEF ExcuseOK
  <2>5. ExportTypeOK'
    BY <1>0, <2>1 DEF ExportInv, ExportTypeOK
  <2>6. EntriesOK' /\ OutOK'
    BY <1>0, <1>1, <2>1 DEF ExportInv, EntriesOK, OutOK, Out
  <2>7. PartOK' /\ PhotosOK'
    BY <1>0, <2>1 DEF ExportInv, PartOK, PhotosOK, Holding
  <2>8. CleanOK'
    BY <1>0, <1>1, <2>1 DEF ExportInv, CleanOK, Out, Holding
  <2> QED
    BY <2>4, <2>5, <2>6, <2>7, <2>8 DEF ExportInv
<1>4. CASE ~Exists(Temp) /\ tree' = With(Temp, "torn") /\ exportAt' = "copy" /\ UNCHANGED trouble
  <2>1. /\ DOMAIN tree' = DOMAIN tree \cup {PartAt(item)}
        /\ \A e \in DOMAIN tree : tree'[e] = tree[e]
        /\ PartAt(item) \notin DOMAIN tree
    BY <1>4, WithIs, HereIs DEF Exists
  <2>2. ExportTypeOK'
    BY <1>0, <1>4 DEF ExportInv, ExportTypeOK
  <2>3. EntriesOK'
    <3>1. item \in 1..item
      BY <1>0
    <3> QED
      BY <1>0, <1>1, <2>1, <3>1 DEF ExportInv, EntriesOK
  <2>4. OutOK'
    BY <1>0, <1>1, <1>4, <2>1 DEF ExportInv, OutOK, Out
  <2>5. PartOK'
    <3>1. \A i \in 1..item : i < item => PartAt(item) # At(i)
      BY <2>1 DEF ExportInv, OutOK, Out
    <3> QED
      BY <1>0, <1>1, <1>4, <2>1, <3>1 DEF PartOK
  <2>6. CleanOK'
    BY <1>0, <1>1, <1>4, <2>1 DEF ExportInv, CleanOK, Out, Holding
  <2>7. ExcuseOK' /\ PhotosOK'
    BY <1>0, <1>4, <2>1 DEF ExportInv, ExcuseOK, PhotosOK
  <2> QED
    BY <2>2, <2>3, <2>4, <2>5, <2>6, <2>7 DEF ExportInv
<1> QED
  BY <1>2, <1>3, <1>4 DEF OpenPart

LEMMA CopyPartOK ==
    ASSUME ExportInv, CopyPart
    PROVE  ExportInv'
<1>0. /\ exportAt = "copy" /\ UNCHANGED <<blind, files, item>> /\ trouble \in BOOLEAN
      /\ NamesOK /\ item \in 1..(Len(files) + 1) /\ Len(files) \in Nat /\ item \in Nat
  BY FilesNames DEF CopyPart, ExportInv, ExportTypeOK
<1>1. \A i : At(i)' = At(i) /\ PartAt(i)' = PartAt(i)
  BY <1>0, SamePaths
<1>2. PICK c \in {"whole", "torn"} :
        /\ tree' = With(Temp, c)
        /\ \/ c = "whole" /\ exportAt' = "link" /\ trouble' = trouble
           \/ exportAt' = "drop" /\ trouble' = TRUE
  BY DEF CopyPart, CopyAccepts
<1>3. /\ DOMAIN tree' = DOMAIN tree /\ tree'[PartAt(item)] = c /\ PartAt(item) \in DOMAIN tree
      /\ \A e \in DOMAIN tree : e # PartAt(item) => tree'[e] = tree[e]
  BY <1>0, <1>2, WithIs, HereIs DEF ExportInv, PartOK, Holding
<1>4. ExportTypeOK'
  BY <1>0, <1>2 DEF ExportInv, ExportTypeOK
<1>5. EntriesOK'
  <2>1. item \in 1..item
    BY <1>0
  <2> QED
    BY <1>0, <1>1, <1>3, <2>1 DEF ExportInv, EntriesOK
<1>6. OutOK'
  BY <1>0, <1>1, <1>2, <1>3 DEF ExportInv, OutOK, Out
<1>7. PartOK'
  BY <1>0, <1>1, <1>2, <1>3 DEF ExportInv, PartOK, Holding
<1>8. CleanOK'
  BY <1>0, <1>1, <1>2, <1>3 DEF ExportInv, CleanOK, Out, Holding
<1>9. ExcuseOK' /\ PhotosOK'
  BY <1>0, <1>2, <1>3 DEF ExportInv, ExcuseOK, PhotosOK
<1> QED
  BY <1>4, <1>5, <1>6, <1>7, <1>8, <1>9 DEF ExportInv

LEMMA LinkPartOK ==
    ASSUME ExportInv, LinkPart
    PROVE  ExportInv'
<1>0. /\ exportAt = "link" /\ UNCHANGED <<blind, files, item>> /\ trouble \in BOOLEAN
      /\ NamesOK /\ item \in 1..(Len(files) + 1) /\ Len(files) \in Nat /\ item \in Nat
  BY FilesNames DEF LinkPart, ExportInv, ExportTypeOK
<1>1. \A i : At(i)' = At(i) /\ PartAt(i)' = PartAt(i)
  BY <1>0, SamePaths
<1>2. CASE exportAt' = "drop" /\ trouble' = TRUE /\ UNCHANGED tree
  BY <1>0, <1>2, GivesUp
<1>3. CASE Exists(Path) /\ exportAt' = "drop" /\ UNCHANGED <<tree, trouble>>
  <2>1. At(item) \in DOMAIN tree
    BY <1>3, HereIs DEF Exists
  <2>2. ASSUME ~trouble PROVE FALSE
    <3>1. PICK i \in 1..item : Out(i) /\ At(item) = At(i)
      BY <1>0, <2>1, <2>2, PartsAre DEF ExportInv, CleanOK, Holding
    <3>2. i < item /\ i \in 1..(Len(files) + 1)
      BY <1>0, <3>1 DEF Out
    <3> QED
      BY <1>0, <3>1, <3>2, PathsDiffer
  <2> QED
    BY <1>0, <1>3, <2>2, GivesUp
<1>4. CASE ~Exists(Path) /\ tree' = With(Path, tree[Entry(Temp)]) /\ exportAt' = "linked" /\ UNCHANGED trouble
  <2>1. /\ DOMAIN tree' = DOMAIN tree \cup {At(item)} /\ At(item) \notin DOMAIN tree
        /\ tree'[At(item)] = "whole" /\ \A e \in DOMAIN tree : tree'[e] = tree[e]
    <3>1. tree[Entry(Temp)] = "whole"
      BY <1>0, HereIs DEF ExportInv, PartOK
    <3> QED
      BY <1>4, <3>1, WithIs, HereIs DEF Exists
  <2>2. ExportTypeOK'
    BY <1>0, <1>4 DEF ExportInv, ExportTypeOK
  <2>3. EntriesOK'
    <3>1. item \in 1..item
      BY <1>0
    <3> QED
      BY <1>0, <1>1, <2>1, <3>1 DEF ExportInv, EntriesOK
  <2>4. OutOK'
    BY <1>0, <1>1, <1>4, <2>1 DEF ExportInv, OutOK, Out
  <2>5. PartOK'
    BY <1>0, <1>1, <1>4, <2>1 DEF ExportInv, PartOK, Holding
  <2>6. CleanOK'
    <3>1. item \in 1..item
      BY <1>0
    <3> QED
      BY <1>0, <1>1, <1>4, <2>1, <3>1 DEF ExportInv, CleanOK, Out, Holding
  <2>7. ExcuseOK' /\ PhotosOK'
    BY <1>0, <1>4, <2>1 DEF ExportInv, ExcuseOK, PhotosOK
  <2> QED
    BY <2>2, <2>3, <2>4, <2>5, <2>6, <2>7 DEF ExportInv
<1> QED
  BY <1>2, <1>3, <1>4 DEF LinkPart

LEMMA RemovePartOK ==
    ASSUME ExportInv, RemovePart
    PROVE  ExportInv'
<1>0. /\ exportAt \in {"linked", "drop"} /\ UNCHANGED <<blind, files>> /\ trouble \in BOOLEAN
      /\ NamesOK /\ item \in 1..(Len(files) + 1) /\ Len(files) \in Nat /\ item \in Nat
  BY FilesNames DEF RemovePart, ExportInv, ExportTypeOK
<1>1. \A i : At(i)' = At(i) /\ PartAt(i)' = PartAt(i)
  BY <1>0, SamePaths
<1>2. \/ exportAt = "drop" /\ exportAt' = "failed" /\ item' = item
      \/ exportAt = "linked" /\ item > Len(files) /\ exportAt' = "done" /\ item' = item
      \/ exportAt = "linked" /\ item <= Len(files) /\ exportAt' = "open" /\ item' = item + 1
  BY <1>0 DEF RemovePart
<1>3. /\ \A e \in DOMAIN tree' : e \in DOMAIN tree /\ tree'[e] = tree[e]
      /\ DOMAIN tree \ {PartAt(item)} \subseteq DOMAIN tree'
      /\ \/ trouble' = trouble /\ PartAt(item) \notin DOMAIN tree'
         \/ trouble' = TRUE
  BY HereIs DEF RemovePart, Without
<1>4. item' \in 1..(Len(files) + 1) /\ item' \in Nat /\ \A i \in 1..item : i \in 1..item'
  BY <1>0, <1>2
<1>5. \A i \in 1..item' : Out(i)' => i \in 1..item /\ Out(i)
  BY <1>0, <1>2 DEF Out
<1>6. \A i \in 1..item : Out(i) => Out(i)'
  BY <1>0, <1>2 DEF Out
<1>7. ExportTypeOK'
  BY <1>0, <1>2, <1>3, <1>4 DEF ExportInv, ExportTypeOK
<1>8. EntriesOK'
  BY <1>1, <1>3, <1>4 DEF ExportInv, EntriesOK
<1>9. OutOK'
  <2> SUFFICES ASSUME NEW i \in 1..item', Out(i)' PROVE At(i)' \in DOMAIN tree'
    BY DEF OutOK
  <2>1. i \in 1..item /\ Out(i) /\ At(i) \in DOMAIN tree
    BY <1>5 DEF ExportInv, OutOK
  <2>2. PartAt(item) # At(i)
    <3>1. CASE i < item
      BY <1>0, <2>1, <3>1 DEF ExportInv, PartOK, Holding
    <3>2. CASE i = item
      BY <1>0, <3>2, PartsAre
    <3> QED
      BY <2>1, <3>1, <3>2 DEF Out
  <2> QED
    BY <1>1, <1>3, <2>1, <2>2
<1>10. PartOK'
  BY <1>2 DEF PartOK, Holding
<1>11. CleanOK'
  <2> SUFFICES ASSUME ~trouble', NEW e \in DOMAIN tree'
               PROVE  e = Photos \/ \E i \in 1..item' : Out(i)' /\ e = At(i)'
    BY DEF CleanOK
  <2>1. ~trouble /\ e # PartAt(item) /\ e \in DOMAIN tree
    BY <1>3
  <2>2. e = Photos \/ \E i \in 1..item : Out(i) /\ e = At(i)
    BY <2>1 DEF ExportInv, CleanOK
  <2> QED
    BY <1>1, <1>4, <1>6, <2>2
<1>12. ExcuseOK'
  BY <1>0, <1>2, <1>3, SamePaths DEF ExportInv, ExcuseOK
<1>13. PhotosOK'
  <2>1. Photos \in DOMAIN tree /\ Photos # PartAt(item)
    BY <1>0, PartsAre DEF ExportInv, PhotosOK
  <2> QED
    BY <1>3, <2>1 DEF PhotosOK
<1> QED
  BY <1>7, <1>8, <1>9, <1>10, <1>11, <1>12, <1>13 DEF ExportInv

\* Every step of the exporter keeps the invariant.
LEMMA ExportStep ==
    ASSUME ExportInv, [ExportNext]_exportVars
    PROVE  ExportInv'
<1>1. CASE OpenPart
  BY <1>1, OpenPartOK
<1>2. CASE CopyPart
  BY <1>2, CopyPartOK
<1>3. CASE LinkPart
  BY <1>3, LinkPartOK
<1>4. CASE RemovePart
  BY <1>4, RemovePartOK
<1>5. CASE Killed
  BY <1>5, GivesUp DEF Killed, Fails
<1>6. CASE RunRefused
  BY <1>6, GivesUp DEF RunRefused, Fails
<1>7. CASE \E snapshot \in Snapshots : RunBegins(snapshot)
  BY <1>7, RunBeginsOK
<1>8. CASE UNCHANGED exportVars
  <2>1. UNCHANGED <<blind, tree, files, item, exportAt, trouble>>
    BY <1>8 DEF exportVars
  <2>2. /\ \A i : At(i)' = At(i) /\ PartAt(i)' = PartAt(i)
        /\ TempTaken' = TempTaken
    BY <2>1, SamePaths
  <2>3. ExportTypeOK' /\ ExcuseOK' /\ PhotosOK'
    BY <2>1, <2>2 DEF ExportInv, ExportTypeOK, ExcuseOK, PhotosOK
  <2>4. EntriesOK' /\ OutOK' /\ PartOK'
    BY <2>1, <2>2 DEF ExportInv, EntriesOK, OutOK, PartOK, Out, Holding
  <2>5. CleanOK'
    BY <2>1, <2>2 DEF ExportInv, CleanOK, Out, Holding
  <2> QED
    BY <2>3, <2>4, <2>5 DEF ExportInv
<1> QED
  BY <1>1, <1>2, <1>3, <1>4, <1>5, <1>6, <1>7, <1>8 DEF ExportNext

LEMMA ExportKept ==
    ExportSpec => []ExportInv
<1>1. ExportInit => ExportInv
  BY ExportInitOK
<1>2. ExportInv /\ [ExportNext]_exportVars => ExportInv'
  BY ExportStep
<1> QED
  BY <1>1, <1>2, PTL DEF ExportSpec

\* The names of every export can be used on every file system, for every snapshot
\* and however suffixes and originals interfere.
THEOREM NamesArePortable ==
    ExportSpec => []PortableNames
<1>1. ExportInv => PortableNames
  <2> SUFFICES ASSUME ExportInv PROVE PortableNames
    OBVIOUS
  <2>1. GoodNames(Filenames(files), Len(files), files)
    BY FilesNames DEF ExportInv, NamesOK
  <2> DEFINE names == Filenames(files)
  <2>2. names \in Seq(Name) /\ Len(names) = Len(files) /\ DOMAIN names = 1..Len(files)
    BY <2>1 DEF GoodNames
  <2> HIDE DEF names
  <2>3. \A i, j \in DOMAIN names : ToLower(names[i]) = ToLower(names[j]) => i = j
    BY <2>1, <2>2 DEF GoodNames, names
  <2>4. ASSUME NEW i \in DOMAIN names
        PROVE  /\ names[i] # <<>> /\ (IsDevice(names[i]) => BlanksToTheLimit(files[i]))
               /\ names[i][Len(names[i])] \notin Blank
               /\ \A k \in DOMAIN names[i] : names[i][k] \notin Separator \cup Unsafe
    <3>1. CleanName(names[i]) /\ (IsDevice(names[i]) => BlanksToTheLimit(files[i]))
      BY <2>1, <2>2 DEF GoodNames, names
    <3> DEFINE w == names[i]
    <3> HIDE DEF w
    <3>2. CleanName(w)
      BY <3>1 DEF w
    <3>3. w # <<>> /\ DOMAIN w = 1..Len(w)
      BY <3>2, CleanDevice DEF CleanName, Name
    <3>4. w[Len(w)] \notin Blank /\ \A k \in DOMAIN w : w[k] \notin Separator \cup Unsafe
      BY <3>2, <3>3 DEF CleanName
    <3> QED
      BY <3>1, <3>3, <3>4 DEF w
  <2> QED
    BY <2>3, <2>4 DEF PortableNames, names
<1> QED
  BY <1>1, ExportKept, PTL

\* A file under its final name is whole, and a manifest has all its photos beside
\* it, through every kill, refusal and second run.
THEOREM ManifestIsComplete ==
    ExportSpec => []ManifestMeansComplete
<1>1. ExportInv => ManifestMeansComplete
  <2> SUFFICES ASSUME ExportInv PROVE ManifestMeansComplete
    OBVIOUS
  <2>0. NamesOK /\ Len(files) \in Nat /\ DOMAIN files = 1..Len(files) /\ item \in 1..(Len(files) + 1)
    BY FilesNames DEF ExportInv, ExportTypeOK, NamesOK, FewNames
  <2> DEFINE temporary(e) == e[Len(e)] = LowerOf(".part")
             photos == {Entry(Photos \o Filenames(files)[i]) : i \in DOMAIN files}
  <2>1. \A i \in 1..item : i \in 1..(Len(files) + 1)
    BY <2>0
  <2>2. \A i \in 1..item : temporary(PartAt(i))
    BY <2>0, <2>1, PartsAre
  <2>3. \A e \in DOMAIN tree : \/ e = Photos /\ tree[e] = "directory"
                               \/ \E i \in 1..item : e = At(i) /\ tree[e] = "whole"
                               \/ \E i \in 1..item : e = PartAt(i)
    BY DEF ExportInv, EntriesOK
  <2>4. ASSUME NEW e \in DOMAIN tree, tree[e] = "torn" PROVE temporary(e)
    BY <2>2, <2>3, <2>4
  <2>5. \A i \in DOMAIN files : At(i) = Entry(Photos \o Filenames(files)[i])
    BY <2>0 DEF At, PathAt
  <2>6. photos = {At(i) : i \in DOMAIN files}
    BY <2>5
  <2> HIDE DEF photos
  <2>7. ASSUME ManifestPath \in DOMAIN tree PROVE item = Len(files) + 1
    <3>0. ManifestPath # Photos
      BY <2>0, PartsAre
    <3>1. PICK i \in 1..item : ManifestPath = At(i)
      BY <2>0, <2>1, <2>3, <2>7, <3>0, PartsAre
    <3>2. i = Len(files) + 1
      BY <2>0, <2>1, <3>1, PartsAre
    <3> QED
      BY <2>0, <3>2
  <2>8. ASSUME ManifestPath \in DOMAIN tree PROVE photos \subseteq DOMAIN tree
    <3>1. \A i \in DOMAIN files : i \in 1..item /\ i < item
      BY <2>0, <2>7, <2>8
    <3> QED
      BY <2>6, <3>1 DEF ExportInv, OutOK, Out
  <2>9. ASSUME ManifestPath \in DOMAIN tree, NEW e \in DOMAIN tree \ {ManifestPath, Photos}
        PROVE  e \in photos \/ temporary(e)
    <3>1. CASE \E i \in 1..item : e = At(i)
      <4>1. PICK i \in 1..item : e = At(i)
        BY <3>1
      <4>2. i # Len(files) + 1
        BY <2>0, <2>1, <2>9, <4>1, PartsAre
      <4>3. i \in DOMAIN files
        BY <2>0, <2>1, <4>2
      <4> QED
        BY <2>6, <4>1, <4>3
    <3> QED
      BY <2>2, <2>3, <2>9, <3>1
  <2> QED
    BY <2>4, <2>8, <2>9 DEF ManifestMeansComplete, photos
<1> QED
  BY <1>1, ExportKept, PTL

\* An export fails only because something outside it failed, or because of the one
\* kind of name that its temporary names meet.
THEOREM FailureHasAReason ==
    ExportSpec => []FailsOnlyInTrouble
<1>1. ExportInv => FailsOnlyInTrouble
  BY DEF ExportInv, ExcuseOK, FailsOnlyInTrouble
<1> QED
  BY <1>1, ExportKept, PTL

=============================================================================
