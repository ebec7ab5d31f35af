----------------------------- MODULE DataLemmas -----------------------------
(***************************************************************************)
(* What the proofs need of sequences and of sets of naturals: positions of *)
(* queues that grow at their end and shrink at their head, and that a set  *)
(* of naturals has a least and a bounded one a greatest member.            *)
(***************************************************************************)
EXTENDS Naturals, Integers, Sequences, SequenceTheorems, WellFoundedInduction, TLAPS

-----------------------------------------------------------------------------
(* Sequences, position by position.                                        *)

LEMMA JoinIs ==
  ASSUME NEW S, NEW s \in Seq(S), NEW t \in Seq(S)
  PROVE  /\ s \o t \in Seq(S) /\ Len(s \o t) = Len(s) + Len(t)
         /\ \A i \in 1 .. Len(s) : (s \o t)[i] = s[i]
         /\ \A i \in 1 .. Len(t) : (s \o t)[Len(s) + i] = t[i]
  <1>1. /\ s \o t \in Seq(S) /\ Len(s \o t) = Len(s) + Len(t)
        /\ \A i \in 1 .. Len(s) + Len(t) :
             (s \o t)[i] = IF i <= Len(s) THEN s[i] ELSE t[i - Len(s)]
    BY ConcatProperties, Zenon
  <1> DEFINE st == s \o t
             m == Len(s)
             n == Len(t)
  <1>0. m \in Nat /\ n \in Nat
    BY LenProperties
  <1>2. \A i \in 1 .. m + n : st[i] = IF i <= m THEN s[i] ELSE t[i - m]
    BY <1>1, Zenon
  <1> HIDE DEF st, m, n
  <1>3. \A i \in 1 .. m : st[i] = s[i]
    BY <1>0, <1>2, SMT
  <1>4. ASSUME NEW i \in 1 .. n PROVE st[m + i] = t[i]
    <2>1. m + i \in 1 .. m + n /\ ~(m + i <= m) /\ (m + i) - m = i
      BY <1>0, SMT
    <2> QED BY <1>2, <2>1, Zenon
  <1> QED
    BY <1>1, <1>3, <1>4, Zenon DEF st, m, n

LEMMA JoinType ==
  ASSUME NEW S, NEW s \in Seq(S), NEW t \in Seq(S)
  PROVE  s \o t \in Seq(S) /\ Len(s \o t) = Len(s) + Len(t)
  BY JoinIs, Zenon

LEMMA JoinFirst ==
  ASSUME NEW S, NEW s \in Seq(S), NEW t \in Seq(S), NEW i \in 1 .. Len(s)
  PROVE  (s \o t)[i] = s[i]
  BY JoinIs, Zenon

LEMMA JoinLast ==
  ASSUME NEW S, NEW s \in Seq(S), NEW t \in Seq(S), NEW i \in 1 .. Len(t)
  PROVE  (s \o t)[Len(s) + i] = t[i]
  BY JoinIs

LEMMA DomainIs ==
  ASSUME NEW S, NEW s \in Seq(S)
  PROVE  /\ Len(s) \in Nat /\ DOMAIN s = 1 .. Len(s)
         /\ \A n \in DOMAIN s : n \in Nat /\ n >= 1 /\ s[n] \in S
         /\ s # <<>> => Len(s) >= 1 /\ 1 \in DOMAIN s
  <1>1. Len(s) \in Nat /\ DOMAIN s = 1 .. Len(s) /\ s \in [1 .. Len(s) -> S]
    BY LenProperties
  <1>2. s # <<>> => Len(s) >= 1
    BY EmptySeq, <1>1, SMT
  <1> DEFINE l == Len(s)
  <1> HIDE DEF l
  <1>3. /\ l \in Nat /\ DOMAIN s = 1 .. l /\ s \in [1 .. l -> S]
        /\ s # <<>> => l >= 1
    BY <1>1, <1>2 DEF l
  <1>4. /\ \A n \in DOMAIN s : n \in Nat /\ n >= 1 /\ s[n] \in S
        /\ s # <<>> => 1 \in DOMAIN s
    BY <1>3, SMT
  <1> QED BY <1>1, <1>2, <1>4

\* The rest of a queue is one place further on.
LEMMA RestIs ==
  ASSUME NEW S, NEW s \in Seq(S), s # <<>>
  PROVE  /\ Head(s) = s[1] /\ Head(s) \in S /\ Tail(s) \in Seq(S)
         /\ Len(Tail(s)) = Len(s) - 1
         /\ \A n \in DOMAIN Tail(s) : n + 1 \in DOMAIN s /\ Tail(s)[n] = s[n + 1]
         /\ \A n \in Nat \ {0} : n + 1 \in DOMAIN s => n \in DOMAIN Tail(s)
  <1> DEFINE u == Tail(s)
             l == Len(s)
             k == Len(u)
  <1>1. /\ Head(s) \in S /\ u \in Seq(S) /\ k = l - 1
        /\ \A i \in 1 .. k : u[i] = s[i + 1]
    BY HeadTailProperties
  <1>2. l \in Nat /\ DOMAIN s = 1 .. l
    BY DomainIs
  <1>3. k \in Nat /\ DOMAIN u = 1 .. k
    <2> HIDE DEF u
    <2> QED BY <1>1, DomainIs
  <1> HIDE DEF u, l, k
  <1>4. ASSUME NEW n \in DOMAIN u PROVE n + 1 \in DOMAIN s /\ u[n] = s[n + 1]
    BY <1>1, <1>2, <1>3, SMT
  <1>5. ASSUME NEW n \in Nat \ {0}, n + 1 \in DOMAIN s PROVE n \in DOMAIN u
    BY <1>1, <1>2, <1>3, <1>5, SMT
  <1>6. Head(s) = s[1]
    BY SMT
  <1> QED BY <1>1, <1>4, <1>5, <1>6 DEF u, l, k

\* One place more.
LEMMA OneMore ==
  ASSUME NEW S, NEW s \in Seq(S), NEW x \in S, NEW t, t = s \o <<x>> \/ t = Append(s, x)
  PROVE  /\ t \in Seq(S) /\ t # <<>>
         /\ Len(t) = Len(s) + 1 /\ DOMAIN t = (DOMAIN s) \cup {Len(s) + 1}
         /\ \A n \in DOMAIN s : t[n] = s[n]
         /\ t[Len(s) + 1] = x
  <1> DEFINE l == Len(s)
  <1>1. l \in Nat /\ DOMAIN s = 1 .. l
    BY DomainIs
  <1>2. t = Append(s, x)
    BY AppendIsConcat
  <1>3. /\ t \in Seq(S) /\ t # <<>> /\ Len(t) = l + 1
        /\ \A i \in 1 .. l : t[i] = s[i]
        /\ t[l + 1] = x
    BY <1>2, AppendProperties
  <1>4. DOMAIN t = 1 .. Len(t)
    BY <1>3, DomainIs
  <1> HIDE DEF l
  <1>5. DOMAIN t = (DOMAIN s) \cup {l + 1}
    BY <1>1, <1>3, <1>4, SMT
  <1> QED BY <1>1, <1>3, <1>5, Zenon DEF l

\* One place and one more.
LEMMA PairIs ==
  ASSUME NEW S, NEW x \in S, NEW y \in S
  PROVE  Append(<<x>>, y) = <<x, y>>
  <1> DEFINE s == <<x>>
             t == Append(s, y)
             u == <<x, y>>
  <1>1. s \in Seq(S) /\ Len(s) = 1 /\ s[1] = x
    BY SMT
  <1>2. u \in Seq(S) /\ Len(u) = 2 /\ u[1] = x /\ u[2] = y
    BY SMT
  <1> HIDE DEF s, u
  <1>3. t \in Seq(S) /\ Len(t) = 2 /\ DOMAIN t = (DOMAIN s) \cup {2} /\ t[2] = y
        /\ \A i \in DOMAIN s : t[i] = s[i]
    <2>1. 1 + 1 = 2
      BY SMT
    <2> QED BY <1>1, <2>1, OneMore, SMTT(30)
  <1>4. DOMAIN s = 1 .. 1
    BY <1>1, DomainIs
  <1> HIDE DEF t
  <1>5. t[1] = x
    <2>1. 1 \in DOMAIN s
      BY <1>4, SMT
    <2> QED BY <1>1, <1>3, <2>1, Zenon
  <1>6. \A i \in 1 .. 2 : t[i] = u[i]
    <2>1. \A i \in 1 .. 2 : i = 1 \/ i = 2
      BY SMT
    <2> QED BY <1>2, <1>3, <1>5, <2>1, Zenon
  <1>7. t = u
    BY <1>2, <1>3, <1>6, SeqEqual
  <1> QED BY <1>7 DEF t, s, u

\* A pair and one place more.
LEMMA TripleIs ==
  ASSUME NEW S, NEW x \in S, NEW y \in S, NEW z \in S
  PROVE  Append(<<x, y>>, z) = <<x, y, z>>
  <1> DEFINE s == <<x, y>>
             t == Append(s, z)
             u == <<x, y, z>>
  <1>1. s \in Seq(S) /\ Len(s) = 2 /\ s[1] = x /\ s[2] = y
    BY SMT
  <1>2. u \in Seq(S) /\ Len(u) = 3 /\ u[1] = x /\ u[2] = y /\ u[3] = z
    BY SMT
  <1> HIDE DEF s, u
  <1>0. t = Append(s, z)
    OBVIOUS
  <1> HIDE DEF t
  <1>3. /\ t \in Seq(S) /\ Len(t) = Len(s) + 1
        /\ \A i \in DOMAIN s : t[i] = s[i]
        /\ t[Len(s) + 1] = z
    BY <1>0, <1>1, OneMore
  <1>4. Len(t) = 3 /\ t[1] = x /\ t[2] = y /\ t[3] = z
    BY <1>1, <1>3, DomainIs, SMT
  <1>5. \A i \in 1 .. Len(t) : t[i] = u[i]
    BY <1>2, <1>4, SMT
  <1>6. t = u
    BY <1>2, <1>3, <1>4, <1>5, SeqEqual
  <1> QED BY <1>6 DEF s, t, u

-----------------------------------------------------------------------------
(* Sets of naturals: the least and the greatest of a set exist, since the  *)
(* order of the naturals is well founded.                                  *)

Less == {ss \in Nat \X Nat : ss[1] < ss[2]}
LEMMA LessWF == IsWellFoundedOn(Less, Nat)
  BY NatLessThanWellFounded DEF OpToRel, Less

LEMMA LeastExists ==
  ASSUME NEW T \in SUBSET Nat, T # {}
  PROVE  \E x \in T : \A y \in T : x <= y
  <1>1. PICK x \in T : \A y \in T : ~ (<<y, x>> \in Less)
    BY LessWF, WFMin, Zenon
  <1>2. ASSUME NEW y \in T PROVE x <= y
    <2>1. x \in Nat /\ y \in Nat
      OBVIOUS
    <2>2. ~ (<<y, x>> \in Less)
      BY <1>1
    <2> QED
      BY <2>1, <2>2, SMT DEF Less
  <1> QED
    BY <1>2

LEMMA GreatestExists ==
  ASSUME NEW n \in Nat, NEW S, S \subseteq 0 .. n, S # {}
  PROVE  \E i \in S : \A j \in S : j <= i
  <1> DEFINE T == {n - i : i \in S}
  <1>1. T \in SUBSET Nat
    <2> SUFFICES ASSUME NEW i \in S PROVE n - i \in Nat
      BY Zenon
    <2> QED BY SMT
  <1>2. T # {}
    BY Zenon
  <1>3. PICK x \in T : \A y \in T : x <= y
    <2> HIDE DEF T
    <2> QED BY <1>1, <1>2, LeastExists
  <1>4. PICK i \in S : x = n - i
    BY Zenon
  <1>5. \A j \in S : n - i <= n - j
    BY <1>3, <1>4, Zenon
  <1>6. ASSUME NEW j \in S PROVE j <= i
    <2>1. n \in Nat /\ i \in 0 .. n /\ j \in 0 .. n /\ n - i <= n - j
      BY <1>5
    <2> HIDE DEF T
    <2> QED
      BY <2>1, SMT
  <1> QED
    BY <1>6, Zenon

=============================================================================
