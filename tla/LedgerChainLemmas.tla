-------------------------- MODULE LedgerChainLemmas --------------------------
(***************************************************************************)
(* Facts about chains of records that hold for every ledger: what an       *)
(* append at the tip and the loss of a suffix do to a sequence, to the     *)
(* tip hash, and to verify_chain.                                          *)
(***************************************************************************)
EXTENDS LedgerChain, TLAPS

\* A sequence whose elements are elements of S, as the provers want it.
LEMMA SeqFacts ==
    ASSUME NEW s, IsSeq(s)
    PROVE  /\ Len(s) \in Nat
           /\ DOMAIN s = 1..Len(s)
           /\ \A i \in 1..Len(s) : s[i] \in {s[j] : j \in DOMAIN s}
  BY DEF IsSeq

\* A function over 1..n is a sequence.
LEMMA IsSeqIntro ==
    ASSUME NEW S, NEW s \in Seq(S)
    PROVE  IsSeq(s)
  <1> DEFINE T == {s[i] : i \in DOMAIN s}
  <1>1. Len(s) \in Nat /\ DOMAIN s = 1..Len(s) /\ s \in [1..Len(s) -> S]
    OBVIOUS
  <1>2. s \in [1..Len(s) -> T]
    BY <1>1
  <1>3. s \in Seq(T)
    BY <1>1, <1>2
  <1> QED BY <1>3 DEF IsSeq

\* Append at the tip: one more element, the others where they were.
LEMMA AppendFacts ==
    ASSUME NEW s, IsSeq(s), NEW r
    PROVE  /\ IsSeq(Append(s, r))
           /\ Len(Append(s, r)) = Len(s) + 1
           /\ \A i \in 1..Len(s) : Append(s, r)[i] = s[i]
           /\ Append(s, r)[Len(s) + 1] = r
  <1> DEFINE T == {s[i] : i \in DOMAIN s} \cup {r}
  <1>1. s \in Seq(T)
    <2>1. s \in Seq({s[i] : i \in DOMAIN s})
      BY DEF IsSeq
    <2>2. Len(s) \in Nat /\ DOMAIN s = 1..Len(s) /\ s \in [1..Len(s) -> T]
      BY <2>1
    <2> QED BY <2>2
  <1>2. Append(s, r) \in Seq(T)
    BY <1>1
  <1>3. IsSeq(Append(s, r))
    <2> HIDE DEF T
    <2> QED BY <1>2, IsSeqIntro
  <1> QED BY <1>1, <1>2, <1>3

\* A prefix: fewer elements, each where it was.
LEMMA PrefixFacts ==
    ASSUME NEW s, IsSeq(s), NEW k \in 0..Len(s)
    PROVE  /\ IsSeq(SubSeq(s, 1, k))
           /\ Len(SubSeq(s, 1, k)) = k
           /\ \A i \in 1..k : SubSeq(s, 1, k)[i] = s[i]
  <1> DEFINE T == {s[i] : i \in DOMAIN s}
  <1>1. s \in Seq(T) /\ Len(s) \in Nat
    BY DEF IsSeq
  <1>2. SubSeq(s, 1, k) \in Seq(T)
    <2> HIDE DEF T
    <2> QED BY <1>1
  <1>3. IsSeq(SubSeq(s, 1, k))
    <2> HIDE DEF T
    <2> QED BY <1>2, IsSeqIntro
  <1> HIDE DEF T
  <1> QED BY <1>1, <1>2, <1>3

\* Two sequences with the same elements are the same.
LEMMA SeqEqual ==
    ASSUME NEW s, IsSeq(s), NEW t, IsSeq(t), Len(s) = Len(t),
           \A i \in 1..Len(s) : s[i] = t[i]
    PROVE  s = t
  <1> DEFINE S == {s[i] : i \in DOMAIN s}
             T == {t[i] : i \in DOMAIN t}
  <1>1. s \in Seq(S) /\ t \in Seq(T)
    BY DEF IsSeq
  <1> HIDE DEF S, T
  <1>2. s \in [1..Len(s) -> S] /\ t \in [1..Len(s) -> T]
    BY <1>1
  <1> QED BY <1>2

\* The prefix without the appended element.
LEMMA PrefixOfAppend ==
    ASSUME NEW s, IsSeq(s), NEW r
    PROVE  SubSeq(Append(s, r), 1, Len(s)) = s
  <1> DEFINE t == Append(s, r)
             u == SubSeq(t, 1, Len(s))
  <1>1. /\ Len(s) \in Nat /\ IsSeq(t) /\ Len(t) = Len(s) + 1
        /\ \A i \in 1..Len(s) : t[i] = s[i]
    BY AppendFacts, SeqFacts
  <1> HIDE DEF t
  <1>2. IsSeq(u) /\ Len(u) = Len(s) /\ \A i \in 1..Len(s) : u[i] = t[i]
    BY <1>1, PrefixFacts
  <1> HIDE DEF u
  <1>3. u = s
    BY <1>1, <1>2, SeqEqual
  <1> QED BY <1>3 DEF u, t

\* The prefix that is one element longer.
LEMMA PrefixGrows ==
    ASSUME NEW s, IsSeq(s), NEW k \in 0..(Len(s) - 1)
    PROVE  Append(SubSeq(s, 1, k), s[k + 1]) = SubSeq(s, 1, k + 1)
  <1> DEFINE t == SubSeq(s, 1, k)
             u == Append(t, s[k + 1])
             v == SubSeq(s, 1, k + 1)
  <1>0. Len(s) \in Nat
    BY SeqFacts
  <1>1. IsSeq(t) /\ Len(t) = k /\ \A i \in 1..k : t[i] = s[i]
    BY <1>0, PrefixFacts
  <1>2. IsSeq(v) /\ Len(v) = k + 1 /\ \A i \in 1..(k + 1) : v[i] = s[i]
    BY <1>0, PrefixFacts
  <1> HIDE DEF t, v
  <1>3. IsSeq(u) /\ Len(u) = k + 1 /\ (\A i \in 1..k : u[i] = t[i]) /\ u[k + 1] = s[k + 1]
    BY <1>1, AppendFacts
  <1> HIDE DEF u
  <1>4. \A i \in 1..(k + 1) : u[i] = v[i]
    BY <1>1, <1>2, <1>3
  <1>5. u = v
    BY <1>2, <1>3, <1>4, SeqEqual
  <1> QED BY <1>5 DEF u, t, v

\* LedgerWriter::finalize fills in the hash that compute_hash checks.
LEMMA FinalizeFacts ==
    ASSUME NEW i, NEW b, NEW h
    PROVE  LET r == Finalize(i, b, h) IN
           /\ r.index = i /\ r.body = b /\ r.prev_hash = h
           /\ r.record_hash = compute_hash(r)
  BY DEF Finalize, compute_hash

\* A record that extends the tip keeps the chain intact.
LEMMA AppendIntact ==
    ASSUME NEW s, IsSeq(s), VerifyIntact(s), NEW b
    PROVE  VerifyIntact(Append(s, Finalize(Len(s), b, TipHash(s))))
  <1> DEFINE r == Finalize(Len(s), b, TipHash(s))
             t == Append(s, r)
  <1>1. /\ r.index = Len(s) /\ r.prev_hash = TipHash(s)
        /\ r.record_hash = compute_hash(r)
    BY FinalizeFacts
  <1> HIDE DEF r
  <1>2. /\ Len(s) \in Nat /\ Len(t) = Len(s) + 1
        /\ \A i \in 1..Len(s) : t[i] = s[i]
        /\ t[Len(s) + 1] = r
    BY AppendFacts, SeqFacts
  <1> HIDE DEF t
  <1>3. ASSUME NEW i \in 1..Len(t) PROVE LinkOK(t, i)
    <2>1. CASE i \in 1..Len(s)
      <3>1. LinkOK(s, i)
        BY <2>1 DEF VerifyIntact
      <3>2. t[i] = s[i] /\ (i # 1 => t[i - 1] = s[i - 1])
        BY <1>2, <2>1
      <3> QED BY <2>1, <3>1, <3>2 DEF LinkOK
    <2>2. CASE i = Len(s) + 1
      <3>1. CASE Len(s) = 0
        <4>1. s = <<>>
          BY <3>1 DEF IsSeq
        <4> QED BY <1>1, <1>2, <2>2, <3>1, <4>1 DEF LinkOK, TipHash
      <3>2. CASE Len(s) # 0
        <4>1. s # <<>>
          BY <3>2
        <4>2. t[i - 1] = s[Len(s)] /\ t[i] = r
          BY <1>2, <2>2, <3>2
        <4> QED BY <1>1, <1>2, <2>2, <3>2, <4>1, <4>2 DEF LinkOK, TipHash
      <3> QED BY <3>1, <3>2
    <2> QED BY <1>2, <2>1, <2>2
  <1> QED BY <1>3 DEF VerifyIntact, t, r

\* A prefix of an intact chain is intact.
LEMMA PrefixIntact ==
    ASSUME NEW s, IsSeq(s), VerifyIntact(s), NEW k \in 0..Len(s)
    PROVE  VerifyIntact(SubSeq(s, 1, k))
  <1> DEFINE t == SubSeq(s, 1, k)
  <1>1. Len(s) \in Nat /\ Len(t) = k /\ \A i \in 1..k : t[i] = s[i]
    BY PrefixFacts, SeqFacts
  <1> HIDE DEF t
  <1>2. ASSUME NEW i \in 1..Len(t) PROVE LinkOK(t, i)
    <2>1. LinkOK(s, i)
      BY <1>1 DEF VerifyIntact
    <2>2. t[i] = s[i] /\ (i # 1 => t[i - 1] = s[i - 1])
      BY <1>1
    <2> QED BY <1>1, <2>1, <2>2 DEF LinkOK
  <1> QED BY <1>2 DEF VerifyIntact, t

\* A prefix continued by the elements that follow it.
LEMMA PrefixContinued ==
    ASSUME NEW s, IsSeq(s), NEW n \in 0..Len(s), NEW m \in n..Len(s)
    PROVE  /\ Len(SubSeq(s, n + 1, m)) = m - n
           /\ SubSeq(s, 1, n) \o SubSeq(s, n + 1, m) = SubSeq(s, 1, m)
  <1> DEFINE T == {s[i] : i \in DOMAIN s}
  <1>1. s \in Seq(T) /\ Len(s) \in Nat
    BY SeqFacts DEF IsSeq
  <1> HIDE DEF T
  <1>2. PICK t, u, v : /\ t = SubSeq(s, 1, n) /\ u = SubSeq(s, n + 1, m)
                       /\ v = SubSeq(s, 1, m)
    OBVIOUS
  <1>3. t \in Seq(T) /\ Len(t) = n /\ \A i \in 1..n : t[i] = s[i]
    BY <1>1, <1>2
  <1>4. v \in Seq(T) /\ Len(v) = m /\ \A i \in 1..m : v[i] = s[i]
    BY <1>1, <1>2
  <1>5. u \in Seq(T) /\ Len(u) = m - n /\ \A i \in 1..(m - n) : u[i] = s[n + i]
    BY <1>1, <1>2
  <1>6. t \o u \in Seq(T) /\ Len(t \o u) = m /\ \A i \in 1..m : (t \o u)[i] = v[i]
    <2>1. t \o u \in Seq(T) /\ Len(t \o u) = n + (m - n) /\ n + (m - n) = m
      BY <1>1, <1>3, <1>5
    <2>2. ASSUME NEW i \in 1..n PROVE (t \o u)[i] = v[i]
      <3>1. i \in 1..m /\ (t \o u)[i] = t[i]
        BY <1>1, <1>3, <1>5
      <3>2. t[i] = s[i] /\ v[i] = s[i]
        BY <1>3, <1>4, <3>1
      <3> QED BY <3>1, <3>2
    <2>3. ASSUME NEW i \in 1..m, i > n PROVE (t \o u)[i] = v[i]
      <3>1. i - n \in 1..(m - n) /\ n + (i - n) = i
        BY <1>1, <2>3
      <3>2. (t \o u)[i] = u[i - n]
        BY <1>1, <1>3, <1>5, <2>3
      <3> QED BY <1>4, <1>5, <3>1, <3>2
    <2> QED BY <1>1, <2>1, <2>2, <2>3
  <1>7. t \o u = v
    BY <1>4, <1>6, IsSeqIntro, SeqEqual
  <1> QED BY <1>2, <1>5, <1>7
==============================================================================
