--------------------------- MODULE ArchiveProofs ---------------------------
(***************************************************************************)
(* Proofs about Archive: that every structure is read back as it was       *)
(* written, for contents of any size, and with it the four properties of   *)
(* the specification.                                                      *)
(*                                                                         *)
(* The argument goes by the structure of the types.  IsCodec says of one   *)
(* type that its values are read back, that a text with a number that      *)
(* cannot be read is not read through, and that neither is one that is     *)
(* cut.  It holds of a scalar, and it is passed on to a vector of values   *)
(* and to a structure of members, since both are rows of values; what a    *)
(* row writes and reads is found by induction on its length.               *)
(***************************************************************************)
EXTENDS Archive, SequenceTheorems, WellFoundedInduction, TLAPS

(* Induction over the natural numbers, with a set for the predicate.       *)
LEMMA Induction ==
  ASSUME NEW S, 0 \in S, \A n \in Nat : n \in S => n + 1 \in S
  PROVE  \A n \in Nat : n \in S
<1> SUFFICES ASSUME Nat \ S # {} PROVE FALSE
  OBVIOUS
<1>1. PICK x \in Nat \ S : \A y \in Nat \ S : <<y, x>> \notin OpToRel(<, Nat)
  BY NatLessThanWellFounded, WFMin
<1>2. x # 0 /\ x - 1 \in Nat /\ (x - 1) + 1 = x
  <2>1. x \in Nat /\ x # 0
    BY <1>1
  <2> QED
    BY <2>1
<1>3. x - 1 \notin S
  BY <1>1, <1>2
<1>4. <<x - 1, x>> \in OpToRel(<, Nat)
  BY <1>2 DEF OpToRel
<1> QED
  BY <1>1, <1>2, <1>3, <1>4

(* The recursion of Reads is well-founded.                                 *)
Following(codecs, before, k) ==
  LET item == codecs[k].load[before.rest]
  IN IF before.ok THEN [item EXCEPT !.value = Append(before.value, @)] ELSE before
IsReads(f, codecs, text, n) ==
  f = [k \in 0..n |-> IF k = 0 THEN Read(<<>>, text) ELSE Following(codecs, f[k - 1], k)]

LEMMA ReadsExists ==
  ASSUME NEW codecs, NEW text, NEW n \in Nat
  PROVE  \E f : IsReads(f, codecs, text, n)
<1> DEFINE S == {m \in Nat : \E f : IsReads(f, codecs, text, m)}
<1>1. 0 \in S
  <2> DEFINE f == [k \in 0..0 |-> Read(<<>>, text)]
  <2>1. IsReads(f, codecs, text, 0)
    BY DEF IsReads
  <2> QED
    BY <2>1
<1>2. ASSUME NEW m \in Nat, m \in S PROVE m + 1 \in S
  <2>1. PICK f : IsReads(f, codecs, text, m)
    BY <1>2
  <2> DEFINE g == [k \in 0..(m + 1) |-> IF k = m + 1 THEN Following(codecs, f[m], m + 1) ELSE f[k]]
  <2>2. ASSUME NEW k \in 0..(m + 1)
        PROVE g[k] = IF k = 0 THEN Read(<<>>, text) ELSE Following(codecs, g[k - 1], k)
    <3>1. CASE k = m + 1
      BY <3>1
    <3>2. CASE k # m + 1
      <4>1. k \in 0..m /\ (k # 0 => k - 1 \in 0..m)
        BY <3>2
      <4>2. f[k] = IF k = 0 THEN Read(<<>>, text) ELSE Following(codecs, f[k - 1], k)
        BY <2>1, <4>1 DEF IsReads
      <4>3. g[k] = f[k] /\ (k # 0 => g[k - 1] = f[k - 1])
        BY <4>1
      <4> QED
        BY <4>2, <4>3
    <3> QED
      BY <3>1, <3>2
  <2>3. IsReads(g, codecs, text, m + 1)
    <3> HIDE DEF g
    <3>1. g = [k \in 0..(m + 1) |-> g[k]]
      BY DEF g
    <3> QED
      BY <3>1, <2>2 DEF IsReads
  <2> QED
    BY <2>3
<1> HIDE DEF S
<1>3. n \in S
  BY <1>1, <1>2, Induction
<1> QED
  BY <1>3 DEF S

(* What has been read after k values follows from what was read before.    *)
LEMMA ReadsStep ==
  ASSUME NEW codecs, NEW text, Len(codecs) \in Nat
  PROVE  /\ Reads(codecs, text)[0] = Read(<<>>, text)
         /\ \A k \in 1..Len(codecs) :
              Reads(codecs, text)[k] = Following(codecs, Reads(codecs, text)[k - 1], k)
<1> DEFINE F == Reads(codecs, text)
<1>1. IsReads(F, codecs, text, Len(codecs))
  <2>1. \E f : IsReads(f, codecs, text, Len(codecs))
    BY ReadsExists
  <2> QED
    BY <2>1 DEF IsReads, Reads, Following
<1> HIDE DEF F
<1>2. ASSUME NEW k \in 0..Len(codecs)
      PROVE F[k] = IF k = 0 THEN Read(<<>>, text) ELSE Following(codecs, F[k - 1], k)
  BY <1>1 DEF IsReads
<1>3. \A k \in 1..Len(codecs) : k \in 0..Len(codecs) /\ k # 0
  OBVIOUS
<1>4. 0 \in 0..Len(codecs)
  OBVIOUS
<1>5. F[0] = Read(<<>>, text)
  BY <1>2, <1>4
<1>6. \A k \in 1..Len(codecs) : F[k] = Following(codecs, F[k - 1], k)
  BY <1>2, <1>3
<1> QED
  BY <1>5, <1>6 DEF F

-----------------------------------------------------------------------------
(* The texts of a row, one after the other.                                *)
IsJoin(f, parts, n) ==
  f = [i \in 1..n |-> IF i = 1 THEN parts[i] ELSE f[i - 1] \o parts[i]]

(* The recursion of FlattenSeq is well-founded.                            *)
LEMMA JoinExists ==
  ASSUME NEW parts, NEW n \in Nat
  PROVE  \E f : IsJoin(f, parts, n)
<1> DEFINE S == {m \in Nat : \E f : IsJoin(f, parts, m)}
<1>1. 0 \in S
  <2> DEFINE f == [i \in 1..0 |-> <<>>]
  <2>1. IsJoin(f, parts, 0)
    BY DEF IsJoin
  <2> QED
    BY <2>1
<1>2. ASSUME NEW m \in Nat, m \in S PROVE m + 1 \in S
  <2>1. PICK f : IsJoin(f, parts, m)
    BY <1>2
  <2> DEFINE last == IF m = 0 THEN parts[1] ELSE f[m] \o parts[m + 1]
             g == [i \in 1..(m + 1) |-> IF i = m + 1 THEN last ELSE f[i]]
  <2>2. ASSUME NEW i \in 1..(m + 1)
        PROVE g[i] = IF i = 1 THEN parts[i] ELSE g[i - 1] \o parts[i]
    <3>1. CASE i = m + 1
      BY <3>1
    <3>2. CASE i # m + 1
      <4>1. i \in 1..m /\ (i # 1 => i - 1 \in 1..m)
        BY <3>2
      <4>2. f[i] = IF i = 1 THEN parts[i] ELSE f[i - 1] \o parts[i]
        BY <2>1, <4>1 DEF IsJoin
      <4>3. g[i] = f[i] /\ (i # 1 => g[i - 1] = f[i - 1])
        BY <4>1
      <4> QED
        BY <4>2, <4>3
    <3> QED
      BY <3>1, <3>2
  <2>3. IsJoin(g, parts, m + 1)
    <3>1. g = [i \in 1..(m + 1) |-> g[i]]
      OBVIOUS
    <3> HIDE DEF g
    <3> QED
      BY <3>1, <2>2 DEF IsJoin
  <2> QED
    BY <2>3
<1> HIDE DEF S
<1>3. n \in S
  BY <1>1, <1>2, Induction
<1> QED
  BY <1>3 DEF S

(* The text of the first k of them.                                        *)
Joined(parts, k) == IF k = 0 THEN <<>> ELSE (CHOOSE f : IsJoin(f, parts, Len(parts)))[k]

(* The text of k parts is that of the parts before it and its own.         *)
LEMMA JoinStep ==
  ASSUME NEW parts \in Seq(Texts)
  PROVE  /\ Joined(parts, 0) = <<>>
         /\ \A k \in 0..Len(parts) : Joined(parts, k) \in Texts
         /\ \A k \in 1..Len(parts) : Joined(parts, k) = Joined(parts, k - 1) \o parts[k]
         /\ FlattenSeq(parts) = Joined(parts, Len(parts))
<1> DEFINE F == CHOOSE f : IsJoin(f, parts, Len(parts))
<1>1. Len(parts) \in Nat /\ \A k \in 1..Len(parts) : parts[k] \in Texts
  BY LenProperties, ElementOfSeq
<1>2. IsJoin(F, parts, Len(parts))
  BY <1>1, JoinExists
<1>3. FlattenSeq(parts) = IF Len(parts) = 0 THEN parts ELSE F[Len(parts)]
  BY DEF FlattenSeq, IsJoin
<1>4. Len(parts) = 0 => parts = <<>>
  BY EmptySeq
<1>5. \A k \in 1..Len(parts) : Joined(parts, k) = F[k]
  BY DEF Joined
<1> HIDE DEF F
<1>6. Joined(parts, 0) = <<>> /\ <<>> \in Texts
  BY EmptySeq DEF Joined, Texts
<1>7. \A k \in 1..Len(parts) : F[k] = IF k = 1 THEN parts[k] ELSE F[k - 1] \o parts[k]
  BY <1>2 DEF IsJoin
<1>8. \A k \in 1..Len(parts) : Joined(parts, k) = Joined(parts, k - 1) \o parts[k]
  <2> SUFFICES ASSUME NEW k \in 1..Len(parts)
               PROVE  Joined(parts, k) = Joined(parts, k - 1) \o parts[k]
    OBVIOUS
  <2>1. CASE k = 1
    <3>1. <<>> \o parts[1] = parts[1]
      BY <2>1, <1>1, ConcatEmptySeq DEF Texts
    <3>2. Joined(parts, k) = F[k] /\ F[k] = parts[k]
      BY <2>1, <1>5, <1>7
    <3>3. Joined(parts, k - 1) = <<>> /\ parts[k] = parts[1]
      BY <2>1, <1>6
    <3> QED
      BY <3>1, <3>2, <3>3
  <2>2. CASE k # 1
    <3>1. k - 1 \in 1..Len(parts)
      BY <2>2, <1>1
    <3> QED
      BY <2>2, <3>1, <1>5, <1>7
  <2> QED
    BY <2>1, <2>2
<1> DEFINE S == {m \in Nat : m <= Len(parts) => Joined(parts, m) \in Texts}
<1>9. 0 \in S
  BY <1>6
<1>10. ASSUME NEW m \in Nat, m \in S PROVE m + 1 \in S
  <2> SUFFICES ASSUME m + 1 <= Len(parts) PROVE Joined(parts, m + 1) \in Texts
    OBVIOUS
  <2>1. m + 1 \in 1..Len(parts) /\ m <= Len(parts) /\ (m + 1) - 1 = m
    BY <1>1
  <2>2. Joined(parts, m) \in Texts /\ parts[m + 1] \in Texts
    BY <1>10, <2>1, <1>1
  <2>3. Joined(parts, m + 1) = Joined(parts, m) \o parts[m + 1]
    BY <1>8, <2>1
  <2> QED
    BY <2>2, <2>3, ConcatProperties DEF Texts
<1> HIDE DEF S
<1>11. \A m \in Nat : m \in S
  BY <1>9, <1>10, Induction
<1>12. \A k \in 0..Len(parts) : Joined(parts, k) \in Texts
  BY <1>11, <1>1 DEF S
<1>13. FlattenSeq(parts) = Joined(parts, Len(parts))
  <2>1. CASE Len(parts) = 0
    BY <2>1, <1>3, <1>4, <1>6
  <2>2. CASE Len(parts) # 0
    <3>1. Len(parts) \in 1..Len(parts)
      BY <2>2, <1>1
    <3>2. Joined(parts, Len(parts)) = F[Len(parts)]
      BY <3>1, <1>5
    <3> QED
      BY <2>2, <3>2, <1>3
  <2> QED
    BY <2>1, <2>2
<1> QED
  BY <1>6, <1>8, <1>12, <1>13

-----------------------------------------------------------------------------
(* A text without numbers that cannot be read; and a text cut somewhere,   *)
(* or in the digits of its last number.                                    *)
Legible(text) == \A i \in 1..Len(text) : text[i] # NaN
CutOf(text, cut) ==
  /\ cut \in Texts /\ Len(cut) <= Len(text)
  /\ \A i \in 1..Len(cut) :
       cut[i] = text[i] \/ (i = Len(cut) /\ text[i] > 0 /\ cut[i] > 0)

(* The length of a text, and what it consists of.                          *)
LEMMA Sizes ==
  ASSUME NEW s \in Texts
  PROVE  /\ Len(s) \in Nat /\ (s = <<>> <=> Len(s) = 0)
         /\ \A i \in 1..Len(s) : s[i] \in Token /\ s[i] \in Int
<1>1. Len(s) \in Nat /\ \A i \in 1..Len(s) : s[i] \in Token
  BY LenProperties, ElementOfSeq DEF Texts
<1>2. s = <<>> <=> Len(s) = 0
  BY EmptySeq DEF Texts
<1>3. Token \subseteq Int
  BY DEF Token, NaN
<1> QED
  BY <1>1, <1>2, <1>3

(* Two texts can be read when each can.                                    *)
LEMMA LegibleParts ==
  ASSUME NEW s \in Texts, NEW t \in Texts
  PROVE  Legible(s \o t) <=> Legible(s) /\ Legible(t)
<1>1. /\ Len(s) \in Nat /\ Len(t) \in Nat /\ Len(s \o t) = Len(s) + Len(t)
      /\ \A i \in 1..(Len(s) + Len(t)) :
           (s \o t)[i] = IF i <= Len(s) THEN s[i] ELSE t[i - Len(s)]
  BY Sizes, ConcatProperties DEF Texts
<1>2. ASSUME Legible(s \o t) PROVE Legible(s) /\ Legible(t)
  <2>1. ASSUME NEW i \in 1..Len(s) PROVE s[i] # NaN
    BY <1>1, <1>2 DEF Legible
  <2>2. ASSUME NEW i \in 1..Len(t) PROVE t[i] # NaN
    <3>1. i + Len(s) \in 1..(Len(s) + Len(t)) /\ ~(i + Len(s) <= Len(s)) /\ (i + Len(s)) - Len(s) = i
      BY <1>1
    <3>2. (s \o t)[i + Len(s)] = t[i]
      BY <1>1, <3>1
    <3> QED
      BY <3>1, <3>2, <1>1, <1>2 DEF Legible
  <2> QED
    BY <2>1, <2>2 DEF Legible
<1>3. ASSUME Legible(s), Legible(t) PROVE Legible(s \o t)
  <2> SUFFICES ASSUME NEW i \in 1..(Len(s) + Len(t)) PROVE (s \o t)[i] # NaN
    BY <1>1 DEF Legible
  <2>1. CASE i <= Len(s)
    <3>1. i \in 1..Len(s)
      BY <2>1, <1>1
    <3> QED
      BY <2>1, <3>1, <1>1, <1>3 DEF Legible
  <2>2. CASE ~(i <= Len(s))
    <3>1. i - Len(s) \in 1..Len(t)
      BY <2>2, <1>1
    <3> QED
      BY <2>2, <3>1, <1>1, <1>3 DEF Legible
  <2> QED
    BY <2>1, <2>2
<1> QED
  BY <1>2, <1>3

(* A cut of two texts is a cut of the first, or leaves it whole and cuts   *)
(* the second.                                                             *)
Later(s, p, cut) ==
  \E end \in Texts : /\ end # <<>> /\ cut = s \o end /\ CutOf(p, end)
                     /\ Len(cut) = Len(s) + Len(end)
LEMMA CutParts ==
  ASSUME NEW s \in Texts, NEW p \in Texts, NEW cut, CutOf(s \o p, cut)
  PROVE  CutOf(s, cut) \/ Later(s, p, cut)
<1>1. /\ Len(s) \in Nat /\ Len(p) \in Nat /\ Len(s \o p) = Len(s) + Len(p)
      /\ \A i \in 1..(Len(s) + Len(p)) :
           (s \o p)[i] = IF i <= Len(s) THEN s[i] ELSE p[i - Len(s)]
  BY Sizes, ConcatProperties DEF Texts
<1>2. /\ cut \in Texts /\ Len(cut) \in Nat /\ Len(cut) <= Len(s) + Len(p)
      /\ \A i \in 1..Len(cut) :
           cut[i] = (s \o p)[i] \/ (i = Len(cut) /\ (s \o p)[i] > 0 /\ cut[i] > 0)
  BY <1>1, Sizes DEF CutOf
<1>3. CASE Len(cut) <= Len(s)
  <2>1. ASSUME NEW i \in 1..Len(cut) PROVE (s \o p)[i] = s[i]
    BY <1>1, <1>2, <1>3
  <2>2. CutOf(s, cut)
    BY <1>2, <1>3, <2>1 DEF CutOf
  <2> QED
    BY <1>3, <2>2
<1>4. CASE ~(Len(cut) <= Len(s))
  <2> DEFINE end == SubSeq(cut, Len(s) + 1, Len(cut))
             m == Len(cut) - Len(s)
  <2>1. m \in Nat /\ m # 0 /\ m <= Len(p) /\ Len(cut) = Len(s) + m
    BY <1>1, <1>2, <1>4
  <2>2. /\ end \in Texts /\ Len(end) = m
        /\ \A i \in 1..m : end[i] = cut[Len(s) + i]
    <3>1. \A i \in (Len(s) + 1)..Len(cut) : cut[i] \in Token
      BY <1>1, <1>2, Sizes
    <3>2. /\ end \in Seq(Token)
          /\ Len(end) = IF Len(s) + 1 <= Len(cut) THEN Len(cut) - (Len(s) + 1) + 1 ELSE 0
          /\ \A i \in 1..(Len(cut) - (Len(s) + 1) + 1) : end[i] = cut[(Len(s) + 1) + i - 1]
      BY <3>1, <1>1, <1>2, SubSeqProperties
    <3> QED
      BY <3>2, <2>1, <1>1 DEF Texts
  <2> HIDE DEF end, m
  <2>3. end # <<>>
    BY <2>1, <2>2, Sizes
  <2>4. cut = s \o end
    <3>1. /\ s \o end \in Texts /\ Len(s \o end) = Len(cut)
          /\ \A i \in 1..Len(cut) : (s \o end)[i] = IF i <= Len(s) THEN s[i] ELSE end[i - Len(s)]
      BY <2>1, <2>2, ConcatProperties DEF Texts
    <3>2. ASSUME NEW i \in 1..Len(cut) PROVE cut[i] = (s \o end)[i]
      <4>1. CASE i <= Len(s)
        <5>1. i # Len(cut) /\ i \in 1..(Len(s) + Len(p))
          BY <4>1, <1>4, <1>1, <1>2
        <5> QED
          BY <4>1, <5>1, <3>1, <1>1, <1>2
      <4>2. CASE ~(i <= Len(s))
        <5>1. i - Len(s) \in 1..m /\ Len(s) + (i - Len(s)) = i
          BY <4>2, <2>1, <1>1
        <5> QED
          BY <4>2, <5>1, <3>1, <2>2
      <4> QED
        BY <4>1, <4>2
    <3> QED
      BY <3>1, <3>2, <1>2, SeqEqual DEF Texts
  <2>5. CutOf(p, end)
    <3> SUFFICES ASSUME NEW i \in 1..m
                 PROVE  end[i] = p[i] \/ (i = m /\ p[i] > 0 /\ end[i] > 0)
      BY <2>1, <2>2 DEF CutOf
    <3>1. /\ Len(s) + i \in 1..Len(cut) /\ Len(s) + i \in 1..(Len(s) + Len(p))
          /\ ~(Len(s) + i <= Len(s)) /\ (Len(s) + i) - Len(s) = i
          /\ (Len(s) + i = Len(cut) => i = m)
      BY <1>1, <1>2, <2>1
    <3>2. (s \o p)[Len(s) + i] = p[i] /\ end[i] = cut[Len(s) + i]
      BY <3>1, <1>1, <2>2
    <3> QED
      BY <3>1, <3>2, <1>2
  <2> QED
    BY <2>1, <2>2, <2>3, <2>4, <2>5 DEF Later
<1> QED
  BY <1>3, <1>4

-----------------------------------------------------------------------------
(* What a reader returns.                                                  *)
IsResult(r) ==
  /\ r = [ok |-> r.ok, value |-> r.value, rest |-> r.rest]
  /\ r.ok \in BOOLEAN /\ r.rest \in Texts

(* A type whose values are read back as they were written, whatever        *)
(* follows; a text with a number that cannot be read, or that is cut, is   *)
(* never read through; and something is always read.                       *)
Saves(c) == \A x \in c.type : c.save[x] \in Texts /\ c.save[x] # <<>>
Loads(c) == (\A text \in Texts : IsResult(c.load[text])) /\ ~c.load[<<>>].ok
Whole(c) ==
  \A x \in c.type, rest \in Texts :
    IF Legible(c.save[x]) THEN c.load[c.save[x] \o rest] = Read(x, rest)
    ELSE ~c.load[c.save[x] \o rest].ok
Uncut(c) ==
  \A x \in c.type : \A cut \in Texts :
    CutOf(c.save[x], cut) /\ c.load[cut].ok =>
      c.load[cut].rest = <<>> /\ Len(cut) = Len(c.save[x])
IsCodec(c) == Saves(c) /\ Loads(c) /\ Whole(c) /\ Uncut(c)

(* Read and Fails are results.                                             *)
LEMMA ReadResult ==
  ASSUME NEW value, NEW rest \in Texts
  PROVE  IsResult(Read(value, rest)) /\ IsResult(Fails(value, rest))
BY DEF IsResult, Read, Fails

(* What one more value makes of a result.                                  *)
LEMMA FollowingResult ==
  ASSUME NEW codecs, NEW k, Loads(codecs[k]), NEW r, IsResult(r)
  PROVE  /\ IsResult(Following(codecs, r, k))
         /\ ~r.ok => Following(codecs, r, k) = r
         /\ r.ok => /\ Following(codecs, r, k).ok = codecs[k].load[r.rest].ok
                    /\ Following(codecs, r, k).value = Append(r.value, codecs[k].load[r.rest].value)
                    /\ Following(codecs, r, k).rest = codecs[k].load[r.rest].rest
<1> DEFINE item == codecs[k].load[r.rest]
<1>1. IsResult(item)
  BY DEF Loads, IsResult
<1> HIDE DEF item
<1>2. item = [ok |-> item.ok, value |-> item.value, rest |-> item.rest]
  BY <1>1 DEF IsResult
<1>3. [item EXCEPT !.value = Append(r.value, @)]
        = [ok |-> item.ok, value |-> Append(r.value, item.value), rest |-> item.rest]
  BY <1>2
<1>4. Following(codecs, r, k)
        = IF r.ok THEN [ok |-> item.ok, value |-> Append(r.value, item.value), rest |-> item.rest] ELSE r
  BY <1>3 DEF Following, item
<1>5. item.ok \in BOOLEAN /\ item.rest \in Texts
  BY <1>1 DEF IsResult
<1>6. CASE r.ok
  BY <1>4, <1>5, <1>6 DEF IsResult, item
<1>7. CASE ~r.ok
  BY <1>4, <1>7
<1> QED
  BY <1>6, <1>7

(* Reading a row of anything returns a result after each of them; once one *)
(* has failed, so have the rest, and a row is not read from nothing.       *)
LEMMA ReadsResults ==
  ASSUME NEW codecs, Len(codecs) \in Nat, \A k \in 1..Len(codecs) : Loads(codecs[k]),
         NEW text \in Texts
  PROVE  /\ \A k \in 0..Len(codecs) : IsResult(Reads(codecs, text)[k])
         /\ text = <<>> => \A k \in 1..Len(codecs) : ~Reads(codecs, text)[k].ok
<1> DEFINE F == Reads(codecs, text)
           S == {m \in Nat : m <= Len(codecs) =>
                              IsResult(F[m]) /\ (text = <<>> /\ m # 0 => ~F[m].ok)}
<1>1. /\ F[0] = Read(<<>>, text)
      /\ \A k \in 1..Len(codecs) : F[k] = Following(codecs, F[k - 1], k)
  BY ReadsStep
<1> HIDE DEF F
<1>2. 0 \in S
  BY <1>1, ReadResult
<1>3. ASSUME NEW m \in Nat, m \in S PROVE m + 1 \in S
  <2> SUFFICES ASSUME m + 1 <= Len(codecs)
               PROVE  IsResult(F[m + 1]) /\ (text = <<>> => ~F[m + 1].ok)
    OBVIOUS
  <2>1. m + 1 \in 1..Len(codecs) /\ m <= Len(codecs) /\ (m + 1) - 1 = m
    OBVIOUS
  <2>2. IsResult(F[m]) /\ (text = <<>> /\ m # 0 => ~F[m].ok)
    BY <1>3, <2>1
  <2>3. F[m + 1] = Following(codecs, F[m], m + 1) /\ Loads(codecs[m + 1])
    BY <1>1, <2>1
  <2>4. IsResult(F[m + 1])
    BY <2>2, <2>3, FollowingResult
  <2>5. ASSUME text = <<>> PROVE ~F[m + 1].ok
    <3>1. CASE m = 0
      <4>1. F[m] = Read(<<>>, <<>>) /\ F[m].ok /\ F[m].rest = <<>>
        BY <1>1, <2>5, <3>1 DEF Read
      <4>2. ~codecs[m + 1].load[<<>>].ok
        BY <2>3 DEF Loads
      <4>3. F[m + 1].ok = codecs[m + 1].load[F[m].rest].ok
        BY <2>2, <2>3, <4>1, FollowingResult
      <4> QED
        BY <4>1, <4>2, <4>3
    <3>2. CASE m # 0
      BY <2>2, <2>3, <2>5, <3>2, FollowingResult
    <3> QED
      BY <3>1, <3>2
  <2> QED
    BY <2>4, <2>5
<1> HIDE DEF S
<1>4. \A m \in Nat : m \in S
  BY <1>2, <1>3, Induction
<1>5. ASSUME NEW k \in 0..Len(codecs) PROVE IsResult(F[k]) /\ (text = <<>> /\ k # 0 => ~F[k].ok)
  BY <1>4 DEF S
<1> QED
  BY <1>5 DEF F

-----------------------------------------------------------------------------
(* A row of values, each of a type that is read back as it was written.    *)
IsRow(codecs, values) ==
  /\ Len(codecs) \in Nat /\ DOMAIN codecs = 1..Len(codecs)
  /\ \A i \in 1..Len(codecs) : IsCodec(codecs[i]) /\ values[i] \in codecs[i].type
Parts(codecs, values) == [i \in DOMAIN codecs |-> codecs[i].save[values[i]]]
Prefix(values, k) == [i \in 1..k |-> values[i]]

(* A function on 1..n is a sequence of length n.                           *)
LEMMA SequenceOf ==
  ASSUME NEW n \in Nat, NEW f, DOMAIN f = 1..n, f = [i \in 1..n |-> f[i]],
         NEW S, \A i \in 1..n : f[i] \in S
  PROVE  f \in Seq(S) /\ Len(f) = n
<1>1. f \in [1..n -> S]
  OBVIOUS
<1>2. f \in Seq(S)
  BY <1>1, SeqDef
<1>3. Len(f) \in Nat /\ DOMAIN f = 1..Len(f)
  BY <1>2, LenProperties
<1> QED
  BY <1>2, <1>3

(* The first values grow by one.                                           *)
LEMMA PrefixStep ==
  ASSUME NEW values, NEW k \in Nat
  PROVE  /\ Prefix(values, 0) = <<>>
         /\ Append(Prefix(values, k), values[k + 1]) = Prefix(values, k + 1)
<1> DEFINE S == {values[i] : i \in 1..(k + 1)}
           p == Prefix(values, k)
           q == Prefix(values, k + 1)
<1>1. p \in Seq(S) /\ Len(p) = k /\ \A i \in 1..k : p[i] = values[i]
  <2>1. /\ DOMAIN p = 1..k /\ p = [i \in 1..k |-> p[i]]
        /\ \A i \in 1..k : p[i] = values[i] /\ p[i] \in S
    BY DEF Prefix
  <2> HIDE DEF p, S
  <2> QED
    BY <2>1, SequenceOf
<1>2. q \in Seq(S) /\ Len(q) = k + 1 /\ \A i \in 1..(k + 1) : q[i] = values[i]
  <2>1. /\ DOMAIN q = 1..(k + 1) /\ q = [i \in 1..(k + 1) |-> q[i]]
        /\ \A i \in 1..(k + 1) : q[i] = values[i] /\ q[i] \in S
    BY DEF Prefix
  <2> HIDE DEF q, S
  <2> QED
    BY <2>1, SequenceOf
<1>3. values[k + 1] \in S
  OBVIOUS
<1> HIDE DEF S, p, q
<1>4. /\ Append(p, values[k + 1]) \in Seq(S)
      /\ Len(Append(p, values[k + 1])) = k + 1
      /\ \A i \in 1..k : Append(p, values[k + 1])[i] = p[i]
      /\ Append(p, values[k + 1])[k + 1] = values[k + 1]
  BY <1>1, <1>3, AppendProperties
<1>5. ASSUME NEW i \in 1..(k + 1) PROVE Append(p, values[k + 1])[i] = q[i]
  <2>1. CASE i = k + 1
    BY <1>2, <1>4, <2>1
  <2>2. CASE i # k + 1
    <3>1. i \in 1..k
      BY <2>2
    <3> QED
      BY <3>1, <1>1, <1>2, <1>4
  <2> QED
    BY <2>1, <2>2
<1>6. Append(p, values[k + 1]) = q
  BY <1>2, <1>4, <1>5, SeqEqual
<1>7. Prefix(values, 0) = <<>>
  BY DEF Prefix
<1> QED
  BY <1>6, <1>7 DEF p, q

(* The text of the first k of them.                                        *)
RowText(codecs, values, k) == Joined(Parts(codecs, values), k)

(* The text of a row is the text of all its values.                        *)
LEMMA RowTexts ==
  ASSUME NEW codecs, NEW values, IsRow(codecs, values)
  PROVE  /\ RowText(codecs, values, 0) = <<>>
         /\ \A k \in 0..Len(codecs) : RowText(codecs, values, k) \in Texts
         /\ \A k \in 1..Len(codecs) :
              /\ RowText(codecs, values, k) = RowText(codecs, values, k - 1) \o codecs[k].save[values[k]]
              /\ codecs[k].save[values[k]] \in Texts /\ codecs[k].save[values[k]] # <<>>
         /\ Row(codecs, values) = RowText(codecs, values, Len(codecs))
<1> DEFINE p == Parts(codecs, values)
<1>1. DOMAIN p = 1..Len(codecs) /\ p = [i \in 1..Len(codecs) |-> p[i]]
  BY DEF Parts, IsRow
<1>2. \A i \in 1..Len(codecs) :
        p[i] = codecs[i].save[values[i]] /\ p[i] \in Texts /\ p[i] # <<>>
  BY DEF Parts, IsRow, IsCodec, Saves
<1>3. Len(codecs) \in Nat
  BY DEF IsRow
<1>4. Row(codecs, values) = FlattenSeq(p)
  BY DEF Row, Parts
<1>5. \A k : RowText(codecs, values, k) = Joined(p, k)
  BY DEF RowText
<1> HIDE DEF p
<1>6. p \in Seq(Texts) /\ Len(p) = Len(codecs)
  BY <1>1, <1>2, <1>3, SequenceOf
<1>7. /\ Joined(p, 0) = <<>>
      /\ \A k \in 0..Len(codecs) : Joined(p, k) \in Texts
      /\ \A k \in 1..Len(codecs) : Joined(p, k) = Joined(p, k - 1) \o p[k]
      /\ FlattenSeq(p) = Joined(p, Len(codecs))
  BY <1>6, JoinStep
<1> QED
  BY <1>2, <1>4, <1>5, <1>7

(* One value more: what is read of it is read after the others.            *)
LEMMA RowMore ==
  ASSUME NEW codecs, NEW values, IsRow(codecs, values),
         NEW m \in Nat, m + 1 <= Len(codecs), NEW rest \in Texts
  PROVE  LET c    == codecs[m + 1]
             text == c.save[values[m + 1]]
             J(k) == RowText(codecs, values, k)
             F    == Reads(codecs, J(m + 1) \o rest)
         IN /\ J(m) \in Texts /\ text \in Texts /\ text \o rest \in Texts
            /\ J(m + 1) = J(m) \o text
            /\ J(m + 1) \o rest = J(m) \o (text \o rest)
            /\ IsCodec(c) /\ values[m + 1] \in c.type
            /\ Legible(J(m + 1)) <=> Legible(J(m)) /\ Legible(text)
<1> DEFINE c == codecs[m + 1]
           text == c.save[values[m + 1]]
<1>1. m + 1 \in 1..Len(codecs) /\ m \in 0..Len(codecs) /\ (m + 1) - 1 = m
  BY DEF IsRow
<1>2. /\ RowText(codecs, values, m) \in Texts /\ text \in Texts
      /\ RowText(codecs, values, m + 1) = RowText(codecs, values, m) \o text
  <2>1. \A k \in 1..Len(codecs) :
              /\ RowText(codecs, values, k) = RowText(codecs, values, k - 1) \o codecs[k].save[values[k]]
              /\ codecs[k].save[values[k]] \in Texts
    BY RowTexts
  <2>2. \A k \in 0..Len(codecs) : RowText(codecs, values, k) \in Texts
    BY RowTexts
  <2> QED
    BY <1>1, <2>1, <2>2
<1>3. IsCodec(c) /\ values[m + 1] \in c.type
  BY <1>1 DEF IsRow
<1> HIDE DEF c, text
<1>4. /\ text \o rest \in Texts
      /\ RowText(codecs, values, m + 1) \o rest = RowText(codecs, values, m) \o (text \o rest)
  <2> DEFINE a == RowText(codecs, values, m)
  <2>1. a \in Texts /\ text \in Texts
    BY <1>2
  <2> HIDE DEF a
  <2>2. text \o rest \in Texts
    BY <2>1, ConcatProperties DEF Texts
  <2>3. (a \o text) \o rest = a \o (text \o rest)
    BY <2>1, ConcatAssociative DEF Texts
  <2> QED
    BY <1>2, <2>2, <2>3 DEF a
<1>5. Legible(RowText(codecs, values, m + 1))
        <=> Legible(RowText(codecs, values, m)) /\ Legible(text)
  BY <1>2, LegibleParts
<1> QED
  BY <1>2, <1>3, <1>4, <1>5 DEF c, text

(* What is known of the result after one value more.                       *)
LEMMA ReadMore ==
  ASSUME NEW codecs, NEW values, IsRow(codecs, values),
         NEW m \in Nat, m + 1 <= Len(codecs), NEW text \in Texts
  PROVE  LET c == codecs[m + 1]
             F == Reads(codecs, text)
         IN /\ IsResult(F[m]) /\ IsResult(F[m + 1])
            /\ ~F[m].ok => F[m + 1] = F[m]
            /\ F[m].ok => /\ F[m + 1].ok = c.load[F[m].rest].ok
                          /\ F[m + 1].value = Append(F[m].value, c.load[F[m].rest].value)
                          /\ F[m + 1].rest = c.load[F[m].rest].rest
<1> DEFINE F == Reads(codecs, text)
<1>1. m + 1 \in 1..Len(codecs) /\ m \in 0..Len(codecs) /\ (m + 1) - 1 = m /\ Len(codecs) \in Nat
  BY DEF IsRow
<1>2. \A i \in 1..Len(codecs) : Loads(codecs[i])
  BY DEF IsRow, IsCodec
<1>3. IsResult(F[m])
  BY <1>1, <1>2, ReadsResults
<1>4. F[m + 1] = Following(codecs, F[(m + 1) - 1], m + 1)
  BY <1>1, ReadsStep
<1>5. F[m + 1] = Following(codecs, F[m], m + 1) /\ Loads(codecs[m + 1])
  BY <1>1, <1>2, <1>4
<1> HIDE DEF F
<1>6. /\ IsResult(F[m + 1])
      /\ ~F[m].ok => F[m + 1] = F[m]
      /\ F[m].ok => /\ F[m + 1].ok = codecs[m + 1].load[F[m].rest].ok
                    /\ F[m + 1].value = Append(F[m].value, codecs[m + 1].load[F[m].rest].value)
                    /\ F[m + 1].rest = codecs[m + 1].load[F[m].rest].rest
  BY <1>3, <1>5, FollowingResult
<1> QED
  BY <1>3, <1>6 DEF F

(* The first k values of a row are read back, whatever follows, unless one *)
(* of their numbers has no text to be read from.                           *)
LEMMA RowWhole ==
  ASSUME NEW codecs, NEW values, IsRow(codecs, values), NEW k \in 0..Len(codecs), NEW rest \in Texts
  PROVE  LET text == RowText(codecs, values, k)
             r    == Reads(codecs, text \o rest)[k]
         IN IF Legible(text) THEN r = Read(Prefix(values, k), rest) ELSE ~r.ok
<1> DEFINE J(m) == RowText(codecs, values, m)
           Good(m, end) ==
             IF Legible(J(m)) THEN Reads(codecs, J(m) \o end)[m] = Read(Prefix(values, m), end)
             ELSE ~Reads(codecs, J(m) \o end)[m].ok
           S == {m \in Nat : m <= Len(codecs) => \A end \in Texts : Good(m, end)}
<1>1. Len(codecs) \in Nat
  BY DEF IsRow
<1>2. 0 \in S
  <2> SUFFICES ASSUME NEW end \in Texts PROVE Good(0, end)
    OBVIOUS
  <2>1. J(0) = <<>>
    BY RowTexts
  <2>2. Legible(<<>>) /\ <<>> \o end = end
    BY ConcatEmptySeq, EmptySeq DEF Legible, Texts
  <2>3. Reads(codecs, end)[0] = Read(<<>>, end)
    BY <1>1, ReadsStep
  <2>4. Prefix(values, 0) = <<>>
    BY PrefixStep
  <2> HIDE DEF J
  <2> QED
    BY <2>1, <2>2, <2>3, <2>4
<1>3. ASSUME NEW m \in Nat, m \in S PROVE m + 1 \in S
  <2> SUFFICES ASSUME m + 1 <= Len(codecs), NEW end \in Texts PROVE Good(m + 1, end)
    OBVIOUS
  <2> DEFINE c == codecs[m + 1]
             text == c.save[values[m + 1]]
             F == Reads(codecs, J(m + 1) \o end)
  <2>1. /\ J(m) \in Texts /\ text \in Texts /\ text \o end \in Texts
        /\ J(m + 1) = J(m) \o text
        /\ J(m + 1) \o end = J(m) \o (text \o end)
        /\ IsCodec(c) /\ values[m + 1] \in c.type
        /\ Legible(J(m + 1)) <=> Legible(J(m)) /\ Legible(text)
    BY RowMore
  <2>2. J(m + 1) \o end \in Texts
    <3> HIDE DEF J, text
    <3> QED
      BY <2>1, ConcatProperties DEF Texts
  <2>3. /\ IsResult(F[m]) /\ IsResult(F[m + 1])
        /\ ~F[m].ok => F[m + 1] = F[m]
        /\ F[m].ok => /\ F[m + 1].ok = c.load[F[m].rest].ok
                      /\ F[m + 1].value = Append(F[m].value, c.load[F[m].rest].value)
                      /\ F[m + 1].rest = c.load[F[m].rest].rest
    BY <2>2, ReadMore
  <2>4. IF Legible(J(m)) THEN F[m] = Read(Prefix(values, m), text \o end) ELSE ~F[m].ok
    <3>1. Good(m, text \o end)
      BY <1>1, <1>3, <2>1
    <3> QED
      BY <3>1, <2>1
  <2>5. IF Legible(text) THEN c.load[text \o end] = Read(values[m + 1], end)
        ELSE ~c.load[text \o end].ok
    BY <2>1 DEF IsCodec, Whole
  <2>6. Append(Prefix(values, m), values[m + 1]) = Prefix(values, m + 1)
    BY PrefixStep
  <2> HIDE DEF J, F, c, text
  <2>7. CASE ~Legible(J(m))
    BY <2>1, <2>3, <2>4, <2>7 DEF F
  <2>8. CASE Legible(J(m)) /\ ~Legible(text)
    <3>1. F[m].ok /\ F[m].rest = text \o end
      BY <2>4, <2>8 DEF Read
    <3> QED
      BY <3>1, <2>1, <2>3, <2>5, <2>8 DEF F
  <2>9. CASE Legible(J(m)) /\ Legible(text)
    <3>1. F[m].ok /\ F[m].value = Prefix(values, m) /\ F[m].rest = text \o end
      BY <2>4, <2>9 DEF Read
    <3>2. /\ c.load[F[m].rest].ok = TRUE /\ c.load[F[m].rest].value = values[m + 1]
          /\ c.load[F[m].rest].rest = end
      BY <3>1, <2>5, <2>9 DEF Read
    <3>3. F[m + 1].ok = TRUE /\ F[m + 1].value = Prefix(values, m + 1) /\ F[m + 1].rest = end
      BY <3>1, <3>2, <2>3, <2>6
    <3>4. F[m + 1] = Read(Prefix(values, m + 1), end)
      BY <3>3, <2>3 DEF IsResult, Read
    <3> QED
      BY <3>4, <2>1, <2>9 DEF F
  <2> QED
    BY <2>7, <2>8, <2>9
<1> HIDE DEF S
<1>4. k \in S
  BY <1>1, <1>2, <1>3, Induction
<1> QED
  BY <1>1, <1>4 DEF S

(* A row that is cut somewhere is not read through.                        *)
LEMMA RowCut ==
  ASSUME NEW codecs, NEW values, IsRow(codecs, values), NEW k \in 0..Len(codecs),
         NEW cut \in Texts, CutOf(RowText(codecs, values, k), cut),
         Reads(codecs, cut)[k].ok
  PROVE  Reads(codecs, cut)[k].rest = <<>> /\ Len(cut) = Len(RowText(codecs, values, k))
<1> DEFINE J(m) == RowText(codecs, values, m)
           Good(m, end) ==
             CutOf(J(m), end) /\ Reads(codecs, end)[m].ok =>
               Reads(codecs, end)[m].rest = <<>> /\ Len(end) = Len(J(m))
           S == {m \in Nat : m <= Len(codecs) => \A end \in Texts : Good(m, end)}
<1>1. Len(codecs) \in Nat
  BY DEF IsRow
<1>2. 0 \in S
  <2> SUFFICES ASSUME NEW end \in Texts, CutOf(J(0), end)
               PROVE  Reads(codecs, end)[0].rest = <<>> /\ Len(end) = Len(J(0))
    OBVIOUS
  <2>1. J(0) = <<>>
    BY RowTexts
  <2>2. Len(end) = 0 /\ end = <<>>
    BY <2>1, Sizes DEF CutOf
  <2>3. Reads(codecs, end)[0] = Read(<<>>, end)
    BY <1>1, ReadsStep
  <2> HIDE DEF J
  <2> QED
    BY <2>1, <2>2, <2>3 DEF Read
<1>3. ASSUME NEW m \in Nat, m \in S PROVE m + 1 \in S
  <2> SUFFICES ASSUME m + 1 <= Len(codecs), NEW end \in Texts,
                      CutOf(J(m + 1), end), Reads(codecs, end)[m + 1].ok
               PROVE  Reads(codecs, end)[m + 1].rest = <<>> /\ Len(end) = Len(J(m + 1))
    OBVIOUS
  <2> DEFINE c == codecs[m + 1]
             text == c.save[values[m + 1]]
             F == Reads(codecs, end)
  <2>1. /\ J(m) \in Texts /\ text \in Texts
        /\ J(m + 1) = J(m) \o text
        /\ IsCodec(c) /\ values[m + 1] \in c.type
    <3>1. <<>> \in Texts
      BY EmptySeq DEF Texts
    <3>2. /\ J(m) \in Texts /\ text \in Texts /\ text \o <<>> \in Texts
          /\ J(m + 1) = J(m) \o text
          /\ J(m + 1) \o <<>> = J(m) \o (text \o <<>>)
          /\ IsCodec(c) /\ values[m + 1] \in c.type
          /\ Legible(J(m + 1)) <=> Legible(J(m)) /\ Legible(text)
      BY <3>1, RowMore
    <3> QED
      BY <3>2
  <2>2. /\ IsResult(F[m]) /\ IsResult(F[m + 1])
        /\ ~F[m].ok => F[m + 1] = F[m]
        /\ F[m].ok => /\ F[m + 1].ok = c.load[F[m].rest].ok
                      /\ F[m + 1].value = Append(F[m].value, c.load[F[m].rest].value)
                      /\ F[m + 1].rest = c.load[F[m].rest].rest
    BY ReadMore
  <2>3. F[m].ok /\ c.load[F[m].rest].ok
    BY <2>2
  <2>4. ~c.load[<<>>].ok
    BY <2>1 DEF IsCodec, Loads
  <2>5. Good(m, end)
    BY <1>1, <1>3
  <2>6. ~(CutOf(J(m), end))
    BY <2>3, <2>4, <2>5
  <2>7. PICK tail \in Texts : /\ end = J(m) \o tail /\ CutOf(text, tail)
                              /\ Len(end) = Len(J(m)) + Len(tail)
    <3>1. CutOf(J(m) \o text, end)
      BY <2>1
    <3>2. Later(J(m), text, end)
      BY <2>1, <2>6, <3>1, CutParts
    <3> QED
      BY <3>2 DEF Later
  <2>8. F[m] = Read(Prefix(values, m), tail)
    <3>1. m \in 0..Len(codecs)
      BY <1>1
    <3>2. IF Legible(J(m)) THEN Reads(codecs, J(m) \o tail)[m] = Read(Prefix(values, m), tail)
          ELSE ~Reads(codecs, J(m) \o tail)[m].ok
      BY <3>1, RowWhole
    <3> QED
      BY <3>2, <2>3, <2>7
  <2>9. F[m].rest = tail
    BY <2>8 DEF Read
  <2>10. c.load[tail].rest = <<>> /\ Len(tail) = Len(text)
    BY <2>1, <2>3, <2>7, <2>9 DEF IsCodec, Uncut
  <2>11. Len(J(m + 1)) = Len(J(m)) + Len(text)
    <3> HIDE DEF J, text
    <3> QED
      BY <2>1, ConcatProperties DEF Texts
  <2> QED
    BY <2>2, <2>3, <2>7, <2>9, <2>10, <2>11
<1> HIDE DEF S
<1>4. k \in S
  BY <1>1, <1>2, <1>3, Induction
<1> QED
  BY <1>1, <1>4 DEF S

(* The last token of a row is that of its last value, and a row of         *)
(* readable values is readable.                                            *)
LEMMA RowLast ==
  ASSUME NEW codecs, NEW values, IsRow(codecs, values), Len(codecs) # 0
  PROVE  LET text == codecs[Len(codecs)].save[values[Len(codecs)]]
         IN /\ Row(codecs, values) \in Texts /\ Row(codecs, values) # <<>>
            /\ Row(codecs, values)[Len(Row(codecs, values))] = text[Len(text)]
<1> DEFINE n == Len(codecs)
           J == RowText(codecs, values, n - 1)
           text == codecs[n].save[values[n]]
           row == Row(codecs, values)
<1>1. n \in Nat /\ n \in 1..n /\ n - 1 \in 0..n
  BY DEF IsRow
<1>2. row = J \o text /\ J \in Texts /\ text \in Texts /\ text # <<>>
  BY <1>1, RowTexts
<1> HIDE DEF J, text, row
<1>3. Len(text) \in Nat /\ Len(text) # 0 /\ Len(J) \in Nat
  BY <1>2, Sizes
<1>4. /\ row \in Texts /\ Len(row) = Len(J) + Len(text)
      /\ \A i \in 1..Len(J) + Len(text) :
           row[i] = IF i <= Len(J) THEN J[i] ELSE text[i - Len(J)]
  BY <1>2, ConcatProperties DEF Texts
<1>5. row # <<>>
  BY <1>3, <1>4, Sizes
<1>6. row[Len(row)] = text[Len(text)]
  <2>1. /\ Len(row) \in 1..Len(J) + Len(text) /\ ~(Len(row) <= Len(J))
        /\ Len(row) - Len(J) = Len(text)
    BY <1>3, <1>4
  <2> QED
    BY <2>1, <1>4
<1> QED
  BY <1>4, <1>5, <1>6 DEF text, row

LEMMA RowLegible ==
  ASSUME NEW codecs, NEW values, IsRow(codecs, values),
         \A i \in 1..Len(codecs) : Legible(codecs[i].save[values[i]])
  PROVE  Legible(Row(codecs, values))
<1> DEFINE J(m) == RowText(codecs, values, m)
           S == {m \in Nat : m <= Len(codecs) => Legible(J(m))}
<1>1. Len(codecs) \in Nat
  BY DEF IsRow
<1>2. 0 \in S
  <2>1. J(0) = <<>>
    BY RowTexts
  <2>2. Legible(<<>>)
    BY EmptySeq DEF Legible
  <2> HIDE DEF J
  <2> QED
    BY <2>1, <2>2
<1>3. ASSUME NEW m \in Nat, m \in S PROVE m + 1 \in S
  <2> SUFFICES ASSUME m + 1 <= Len(codecs) PROVE Legible(J(m + 1))
    OBVIOUS
  <2>1. <<>> \in Texts
    BY EmptySeq DEF Texts
  <2>2. Legible(J(m + 1)) <=> Legible(J(m)) /\ Legible(codecs[m + 1].save[values[m + 1]])
    BY <2>1, RowMore
  <2>3. m + 1 \in 1..Len(codecs) /\ m <= Len(codecs)
    BY <1>1
  <2> QED
    BY <2>2, <2>3, <1>3
<1> HIDE DEF S
<1>4. Len(codecs) \in S
  BY <1>1, <1>2, <1>3, Induction
<1> QED
  <2>1. Legible(J(Len(codecs)))
    BY <1>1, <1>4 DEF S
  <2>2. Row(codecs, values) = J(Len(codecs))
    BY RowTexts
  <2> QED
    BY <2>1, <2>2

-----------------------------------------------------------------------------
(* The text of one token, and what follows it.                             *)
LEMMA OneToken ==
  ASSUME NEW x \in Token
  PROVE  /\ <<x>> \in Texts /\ <<x>> # <<>> /\ Len(<<x>>) = 1 /\ <<x>>[1] = x
         /\ Legible(<<x>>) <=> x # NaN
<1>1. <<x>> \in Texts /\ <<x>> # <<>> /\ Len(<<x>>) = 1 /\ <<x>>[1] = x
  BY DEF Texts
<1>2. \A i \in 1..1 : i = 1
  OBVIOUS
<1>3. Legible(<<x>>) <=> x # NaN
  BY <1>1, <1>2 DEF Legible
<1> QED
  BY <1>1, <1>3

(* The first token of a text, and the rest.                                *)
LEMMA FirstToken ==
  ASSUME NEW text \in Texts, text # <<>>
  PROVE  /\ Head(text) = text[1] /\ Head(text) \in Token
         /\ Tail(text) \in Texts /\ Len(text) = 1 + Len(Tail(text))
         /\ \A i \in 1..Len(Tail(text)) : Tail(text)[i] = text[i + 1]
<1>1. Len(text) \in Nat /\ Len(text) # 0
  BY Sizes
<1>2. Head(text) = text[1]
  BY <1>1
<1>3. /\ Head(text) \in Token /\ Tail(text) \in Texts
      /\ Len(Tail(text)) = Len(text) - 1
      /\ \A i \in 1..Len(Tail(text)) : Tail(text)[i] = text[i + 1]
  BY HeadTailProperties DEF Texts
<1> QED
  BY <1>1, <1>2, <1>3

(* A token and a text that follows it.                                     *)
LEMMA TokenThen ==
  ASSUME NEW x \in Token, NEW rest \in Texts
  PROVE  /\ <<x>> \o rest \in Texts /\ <<x>> \o rest # <<>>
         /\ Head(<<x>> \o rest) = x /\ Tail(<<x>> \o rest) = rest
<1> DEFINE s == <<x>>
           t == s \o rest
<1>1. s \in Texts /\ Len(s) = 1 /\ s[1] = x
  BY OneToken
<1>2. Len(rest) \in Nat
  BY Sizes
<1> HIDE DEF s
<1>3. /\ t \in Texts /\ Len(t) = Len(s) + Len(rest)
      /\ \A i \in 1..Len(s) + Len(rest) : t[i] = IF i <= Len(s) THEN s[i] ELSE rest[i - Len(s)]
  BY <1>1, ConcatProperties DEF Texts
<1> HIDE DEF t
<1>4. t # <<>> /\ t[1] = x
  BY <1>1, <1>2, <1>3, Sizes
<1>5. /\ Head(t) = t[1] /\ Tail(t) \in Texts /\ Len(t) = 1 + Len(Tail(t))
      /\ \A i \in 1..Len(Tail(t)) : Tail(t)[i] = t[i + 1]
  BY <1>3, <1>4, FirstToken
<1>6. Tail(t) = rest
  <2>1. Len(Tail(t)) \in Nat
    BY <1>5, Sizes
  <2>2. Len(Tail(t)) = Len(rest)
    BY <2>1, <1>1, <1>2, <1>3, <1>5
  <2>3. ASSUME NEW i \in 1..Len(rest) PROVE Tail(t)[i] = rest[i]
    <3>1. /\ i + 1 \in 1..Len(s) + Len(rest) /\ ~(i + 1 <= Len(s)) /\ (i + 1) - Len(s) = i
      BY <1>1, <1>2
    <3> QED
      BY <3>1, <2>2, <1>3, <1>5
  <2> QED
    BY <2>2, <2>3, <1>5, SeqEqual DEF Texts
<1> QED
  BY <1>3, <1>4, <1>5, <1>6 DEF s, t

(* What can be left of a text of one token.                                *)
LEMMA CutOne ==
  ASSUME NEW s \in Texts, Len(s) = 1, NEW cut \in Texts, cut # <<>>, CutOf(s, cut)
  PROVE  /\ Tail(cut) = <<>> /\ Len(cut) = 1
         /\ Head(cut) = s[1] \/ (s[1] > 0 /\ Head(cut) > 0)
<1>1. Len(cut) \in Nat /\ Len(cut) # 0
  BY Sizes
<1>2. Len(cut) <= Len(s)
  BY DEF CutOf
<1>3. Len(cut) = 1
  BY <1>1, <1>2
<1>4. Head(cut) = cut[1] /\ Tail(cut) \in Texts /\ Len(cut) = 1 + Len(Tail(cut))
  BY FirstToken
<1>5. Len(Tail(cut)) \in Nat
  BY <1>4, Sizes
<1>6. Len(Tail(cut)) = 0
  BY <1>3, <1>4, <1>5
<1>7. Tail(cut) = <<>>
  BY <1>4, <1>6, Sizes
<1>8. cut[1] = s[1] \/ (s[1] > 0 /\ cut[1] > 0)
  <2>1. 1 \in 1..Len(cut)
    BY <1>3
  <2>2. \A i \in 1..Len(cut) : cut[i] = s[i] \/ (i = Len(cut) /\ s[i] > 0 /\ cut[i] > 0)
    BY DEF CutOf
  <2>3. cut[1] = s[1] \/ (1 = Len(cut) /\ s[1] > 0 /\ cut[1] > 0)
    BY <2>1, <2>2
  <2> QED
    BY <2>3
<1> QED
  BY <1>3, <1>4, <1>7, <1>8

(* Numbers, strings and flags.                                             *)
LEMMA ScalarCodec ==
  ASSUME NEW type, type \subseteq Token
  PROVE  IsCodec(Scalar(type)) /\ Scalar(type).type = type
<1> DEFINE c == Scalar(type)
<1>1. /\ c.type = type
      /\ \A x \in type : c.save[x] = <<x>>
      /\ \A text \in Texts :
           c.load[text] = IF text # <<>> /\ Head(text) \in type \ {NaN}
                          THEN Read(Head(text), Tail(text)) ELSE Fails(0, text)
  BY DEF Scalar
<1> HIDE DEF c
<1>2. ASSUME NEW x \in type
      PROVE  c.save[x] \in Texts /\ c.save[x] # <<>>
  <2>1. c.save[x] = <<x>>
    BY <1>1
  <2>2. <<x>> \in Texts /\ <<x>> # <<>>
    BY OneToken
  <2> QED
    BY <2>1, <2>2
<1>3. Saves(c)
  BY <1>1, <1>2 DEF Saves
<1>4. Loads(c)
  <2>1. ASSUME NEW text \in Texts PROVE IsResult(c.load[text])
    <3>1. CASE text # <<>> /\ Head(text) \in type \ {NaN}
      BY <3>1, <1>1, FirstToken, ReadResult
    <3>2. CASE ~(text # <<>> /\ Head(text) \in type \ {NaN})
      BY <3>2, <1>1, ReadResult
    <3> QED
      BY <3>1, <3>2
  <2>2. <<>> \in Texts
    BY EmptySeq DEF Texts
  <2>3. c.load[<<>>] = Fails(0, <<>>)
    BY <2>2, <1>1
  <2>4. ~c.load[<<>>].ok
    BY <2>3 DEF Fails
  <2> QED
    BY <2>1, <2>4 DEF Loads
<1>5. Whole(c)
  <2>1. ASSUME NEW x \in type, NEW rest \in Texts
        PROVE  IF Legible(c.save[x]) THEN c.load[c.save[x] \o rest] = Read(x, rest)
               ELSE ~c.load[c.save[x] \o rest].ok
    <3>1. c.save[x] = <<x>>
      BY <1>1
    <3>2. Legible(<<x>>) <=> x # NaN
      BY OneToken
    <3>3. /\ <<x>> \o rest \in Texts /\ <<x>> \o rest # <<>>
          /\ Head(<<x>> \o rest) = x /\ Tail(<<x>> \o rest) = rest
      BY TokenThen
    <3>4. c.load[<<x>> \o rest] = IF x # NaN THEN Read(x, rest) ELSE Fails(0, <<x>> \o rest)
      BY <1>1, <3>3
    <3>5. ~Fails(0, <<x>> \o rest).ok
      BY DEF Fails
    <3> QED
      BY <3>1, <3>2, <3>4, <3>5
  <2> QED
    BY <2>1, <1>1 DEF Whole
<1>6. Uncut(c)
  <2>1. ASSUME NEW x \in type, NEW cut \in Texts, CutOf(c.save[x], cut), c.load[cut].ok
        PROVE  c.load[cut].rest = <<>> /\ Len(cut) = Len(c.save[x])
    <3>1. Len(c.save[x]) = 1
      <4>1. Len(<<x>>) = 1
        BY OneToken
      <4> QED
        BY <4>1, <1>1
    <3>2. cut # <<>>
      BY <2>1, <1>4 DEF Loads
    <3>3. c.load[cut].rest = Tail(cut)
      <4>1. c.load[cut] = Read(Head(cut), Tail(cut)) \/ c.load[cut] = Fails(0, cut)
        BY <1>1
      <4> QED
        BY <4>1, <2>1 DEF Read, Fails
    <3>4. Tail(cut) = <<>> /\ Len(cut) = 1
      BY <1>2, <2>1, <3>1, <3>2, CutOne
    <3> QED
      BY <3>1, <3>3, <3>4
  <2> QED
    BY <2>1, <1>1 DEF Uncut
<1> QED
  BY <1>1, <1>3, <1>4, <1>5, <1>6 DEF IsCodec, c

(* What follows a first token that is not cut away.                        *)
LEMMA CutTail ==
  ASSUME NEW x \in Token, NEW p \in Texts, NEW cut \in Texts, cut # <<>>, CutOf(<<x>> \o p, cut)
  PROVE  \/ Tail(cut) = <<>> /\ Len(cut) = 1 /\ (Head(cut) = x \/ (x > 0 /\ Head(cut) > 0))
         \/ Head(cut) = x /\ Tail(cut) # <<>> /\ CutOf(p, Tail(cut))
<1> DEFINE s == <<x>>
<1>1. s \in Texts /\ Len(s) = 1 /\ s[1] = x
  BY OneToken
<1>2. CutOf(s \o p, cut)
  OBVIOUS
<1> HIDE DEF s
<1>3. CASE CutOf(s, cut)
  BY <1>1, <1>3, CutOne
<1>4. CASE Later(s, p, cut)
  <2>1. PICK end \in Texts : end # <<>> /\ cut = s \o end /\ CutOf(p, end)
    BY <1>4 DEF Later
  <2>2. Head(cut) = x /\ Tail(cut) = end
    BY <2>1, TokenThen DEF s
  <2> QED
    BY <2>1, <2>2
<1> QED
  BY <1>1, <1>2, <1>3, <1>4, CutParts

(* A row as a whole.                                                       *)
LEMMA RowCodec ==
  ASSUME NEW codecs, NEW values, IsRow(codecs, values)
  PROVE  /\ Row(codecs, values) \in Texts
         /\ Len(codecs) = 0 => Row(codecs, values) = <<>>
         /\ \A rest \in Texts :
              IF Legible(Row(codecs, values))
              THEN ReadRow(codecs, Row(codecs, values) \o rest) = Read(Prefix(values, Len(codecs)), rest)
              ELSE ~ReadRow(codecs, Row(codecs, values) \o rest).ok
         /\ \A cut \in Texts :
              CutOf(Row(codecs, values), cut) /\ ReadRow(codecs, cut).ok =>
                ReadRow(codecs, cut).rest = <<>> /\ Len(cut) = Len(Row(codecs, values))
<1> DEFINE n == Len(codecs)
           row == Row(codecs, values)
<1>1. n \in Nat /\ n \in 0..n
  BY DEF IsRow
<1>2. row = RowText(codecs, values, n) /\ row \in Texts
  BY <1>1, RowTexts
<1>3. n = 0 => row = <<>>
  BY <1>2, RowTexts
<1>4. ASSUME NEW rest \in Texts
      PROVE  IF Legible(row) THEN ReadRow(codecs, row \o rest) = Read(Prefix(values, n), rest)
             ELSE ~ReadRow(codecs, row \o rest).ok
  BY <1>1, <1>2, RowWhole DEF ReadRow
<1>5. ASSUME NEW cut \in Texts, CutOf(row, cut), ReadRow(codecs, cut).ok
      PROVE  ReadRow(codecs, cut).rest = <<>> /\ Len(cut) = Len(row)
  BY <1>1, <1>2, <1>5, RowCut DEF ReadRow
<1> QED
  BY <1>2, <1>3, <1>4, <1>5

(* Reading a row of anything as a whole.                                   *)
LEMMA ReadRowResult ==
  ASSUME NEW codecs, Len(codecs) \in Nat, \A k \in 1..Len(codecs) : Loads(codecs[k]),
         NEW text \in Texts
  PROVE  /\ IsResult(ReadRow(codecs, text))
         /\ text = <<>> /\ Len(codecs) # 0 => ~ReadRow(codecs, text).ok
         /\ Len(codecs) = 0 => ReadRow(codecs, text) = Read(<<>>, text)
<1>1. Len(codecs) \in 0..Len(codecs) /\ (Len(codecs) # 0 => Len(codecs) \in 1..Len(codecs))
  OBVIOUS
<1>2. /\ \A k \in 0..Len(codecs) : IsResult(Reads(codecs, text)[k])
      /\ text = <<>> => \A k \in 1..Len(codecs) : ~Reads(codecs, text)[k].ok
  BY ReadsResults
<1>3. Reads(codecs, text)[0] = Read(<<>>, text)
  BY ReadsStep
<1> QED
  BY <1>1, <1>2, <1>3 DEF ReadRow

(* The types of the items of a vector.                                     *)
LEMMA CopiesOf ==
  ASSUME NEW n \in Nat, NEW c
  PROVE  /\ Len(Copies(n, c)) = n /\ DOMAIN Copies(n, c) = 1..n
         /\ \A i \in 1..n : Copies(n, c)[i] = c
<1> DEFINE f == Copies(n, c)
<1>1. /\ DOMAIN f = 1..n /\ f = [i \in 1..n |-> f[i]]
      /\ \A i \in 1..n : f[i] = c /\ f[i] \in {c}
  BY DEF Copies
<1> HIDE DEF f
<1>2. Len(f) = n
  BY <1>1, SequenceOf
<1> QED
  BY <1>1, <1>2 DEF f

(* A vector is read back when its items are.                               *)
LEMMA VectorCodec ==
  ASSUME NEW c, IsCodec(c)
  PROVE  IsCodec(Vector(c)) /\ Vector(c).type = Seq(c.type)
<1> DEFINE V == Vector(c)
<1>1. /\ V.type = Seq(c.type)
      /\ \A x \in Seq(c.type) : V.save[x] = <<Len(x)>> \o Row(Copies(Len(x), c), x)
      /\ \A text \in Texts :
           V.load[text] = IF text # <<>> /\ Head(text) \in Nat
                          THEN ReadRow(Copies(Head(text), c), Tail(text)) ELSE Fails(<<>>, text)
  BY DEF Vector
<1> HIDE DEF V
<1>2. ASSUME NEW x \in Seq(c.type)
      PROVE  /\ Len(x) \in Nat /\ Len(x) \in Token
             /\ IsRow(Copies(Len(x), c), x) /\ Len(Copies(Len(x), c)) = Len(x)
             /\ Row(Copies(Len(x), c), x) \in Texts
             /\ Prefix(x, Len(x)) = x
  <2>1. Len(x) \in Nat /\ \A i \in 1..Len(x) : x[i] \in c.type
    BY LenProperties, ElementOfSeq
  <2>2. IsRow(Copies(Len(x), c), x) /\ Len(Copies(Len(x), c)) = Len(x)
    BY <2>1, CopiesOf DEF IsRow
  <2>3. x = [i \in 1..Len(x) |-> x[i]]
    BY LenProperties
  <2> QED
    BY <2>1, <2>2, <2>3, RowCodec DEF Prefix, Token
<1>3. ASSUME NEW n \in Nat, NEW text \in Texts
      PROVE  /\ IsResult(ReadRow(Copies(n, c), text))
             /\ text = <<>> /\ n # 0 => ~ReadRow(Copies(n, c), text).ok
             /\ n = 0 => ReadRow(Copies(n, c), text) = Read(<<>>, text)
  <2>1. Len(Copies(n, c)) = n /\ \A k \in 1..n : Loads(Copies(n, c)[k])
    BY CopiesOf DEF IsCodec
  <2> QED
    BY <2>1, ReadRowResult
<1>4. Saves(V)
  <2>1. ASSUME NEW x \in Seq(c.type) PROVE V.save[x] \in Texts /\ V.save[x] # <<>>
    BY <1>1, <1>2, TokenThen
  <2> QED
    BY <2>1, <1>1 DEF Saves
<1>5. Loads(V)
  <2>1. ASSUME NEW text \in Texts PROVE IsResult(V.load[text])
    <3>1. CASE text # <<>> /\ Head(text) \in Nat
      BY <3>1, <1>1, <1>3, FirstToken
    <3>2. CASE ~(text # <<>> /\ Head(text) \in Nat)
      BY <3>2, <1>1, ReadResult
    <3> QED
      BY <3>1, <3>2
  <2>2. <<>> \in Texts
    BY EmptySeq DEF Texts
  <2>3. V.load[<<>>] = Fails(<<>>, <<>>)
    BY <2>2, <1>1
  <2>4. ~V.load[<<>>].ok
    BY <2>3 DEF Fails
  <2> QED
    BY <2>1, <2>4 DEF Loads
<1>6. Whole(V)
  <2>1. ASSUME NEW x \in Seq(c.type), NEW rest \in Texts
        PROVE  IF Legible(V.save[x]) THEN V.load[V.save[x] \o rest] = Read(x, rest)
               ELSE ~V.load[V.save[x] \o rest].ok
    <3> DEFINE n == Len(x)
               one == <<n>>
               row == Row(Copies(n, c), x)
    <3>1. V.save[x] = one \o row
      BY <1>1
    <3>2. /\ n \in Nat /\ n \in Token /\ row \in Texts /\ one \in Texts /\ n # NaN
          /\ Legible(one)
      BY <1>2, OneToken DEF NaN
    <3>3. IF Legible(row) THEN ReadRow(Copies(n, c), row \o rest) = Read(x, rest)
          ELSE ~ReadRow(Copies(n, c), row \o rest).ok
      BY <1>2, RowCodec
    <3>4. row \o rest \in Texts
      <4> HIDE DEF row
      <4> QED
        BY <3>2, ConcatProperties DEF Texts
    <3>5. /\ one \o (row \o rest) \in Texts /\ one \o (row \o rest) # <<>>
          /\ Head(one \o (row \o rest)) = n /\ Tail(one \o (row \o rest)) = row \o rest
      BY <3>2, <3>4, TokenThen
    <3> HIDE DEF n, one, row
    <3>6. (one \o row) \o rest = one \o (row \o rest)
      BY <3>2, ConcatAssociative DEF Texts
    <3>7. V.load[one \o (row \o rest)] = ReadRow(Copies(n, c), row \o rest)
      BY <1>1, <3>2, <3>5
    <3>8. Legible(one \o row) <=> Legible(row)
      BY <3>2, LegibleParts
    <3> QED
      BY <3>1, <3>3, <3>6, <3>7, <3>8
  <2> QED
    BY <2>1, <1>1 DEF Whole
<1>7. Uncut(V)
  <2>1. ASSUME NEW x \in Seq(c.type), NEW cut \in Texts, CutOf(V.save[x], cut), V.load[cut].ok
        PROVE  V.load[cut].rest = <<>> /\ Len(cut) = Len(V.save[x])
    <3> DEFINE n == Len(x)
               row == Row(Copies(n, c), x)
    <3>1. V.save[x] = <<n>> \o row /\ CutOf(<<n>> \o row, cut)
      BY <1>1, <2>1
    <3>2. n \in Nat /\ n \in Token /\ row \in Texts
      BY <1>2
    <3>3. cut # <<>>
      BY <2>1, <1>5 DEF Loads
    <3>4. /\ Head(cut) \in Nat /\ Tail(cut) \in Texts /\ Len(cut) = 1 + Len(Tail(cut))
          /\ V.load[cut] = ReadRow(Copies(Head(cut), c), Tail(cut))
      <4>1. Head(cut) \in Nat
        <5>1. ~Fails(<<>>, cut).ok
          BY DEF Fails
        <5> QED
          BY <5>1, <1>1, <2>1
      <4> QED
        BY <4>1, <3>3, <1>1, FirstToken
    <3>5. Len(V.save[x]) = 1 + Len(row)
      <4>1. <<n>> \o row \in Texts /\ <<n>> \o row # <<>> /\ Tail(<<n>> \o row) = row
        BY <3>2, TokenThen
      <4> QED
        BY <4>1, <3>1, FirstToken
    <3>6. \/ Tail(cut) = <<>> /\ Len(cut) = 1 /\ (Head(cut) = n \/ (n > 0 /\ Head(cut) > 0))
          \/ Head(cut) = n /\ Tail(cut) # <<>> /\ CutOf(row, Tail(cut))
      BY <3>1, <3>2, <3>3, CutTail
    <3>7. CASE Tail(cut) = <<>> /\ Len(cut) = 1 /\ (Head(cut) = n \/ (n > 0 /\ Head(cut) > 0))
      <4>1. Head(cut) = 0 /\ V.load[cut] = Read(<<>>, <<>>)
        BY <1>3, <2>1, <3>4, <3>7
      <4>2. n = 0
        BY <4>1, <3>7
      <4>3. row = <<>>
        BY <4>2, <1>2, RowCodec
      <4>4. Len(row) = 0
        BY <4>3
      <4> QED
        BY <4>1, <4>4, <3>5, <3>7 DEF Read
    <3>8. CASE Head(cut) = n /\ CutOf(row, Tail(cut))
      <4>1. IsRow(Copies(n, c), x)
        BY <1>2
      <4>2. /\ ReadRow(Copies(n, c), Tail(cut)).rest = <<>>
            /\ Len(Tail(cut)) = Len(row)
        BY <4>1, <2>1, <3>4, <3>8, RowCodec
      <4> QED
        BY <4>2, <3>4, <3>5, <3>8
    <3> QED
      BY <3>6, <3>7, <3>8
  <2> QED
    BY <2>1, <1>1 DEF Uncut
<1> QED
  BY <1>1, <1>4, <1>5, <1>6, <1>7 DEF IsCodec, V

(* What serialize() of a structure has to list for it to be read back:     *)
(* members that can be, and all of them.                                   *)
Lists(members, type) ==
  /\ Len(members) \in Nat /\ Len(members) # 0 /\ DOMAIN members = 1..Len(members)
  /\ \A i \in 1..Len(members) : IsCodec(members[i].codec)
  /\ \A x \in type : /\ x = [name \in Names(members) |-> x[name]]
                     /\ \A i \in 1..Len(members) : x[members[i].name] \in members[i].codec.type
Filled(members, values) ==
  [name \in Names(members) |->
     LET i == Place(members, name)
     IN IF i \in DOMAIN values THEN values[i] ELSE members[i].codec.default]

(* A structure is the row of its members, and is made of it again.         *)
LEMMA StructRow ==
  ASSUME NEW type, NEW members, Lists(members, type), NEW x \in type
  PROVE  /\ IsRow(Codecs(members), Values(members, x))
         /\ Len(Codecs(members)) = Len(members)
         /\ Filled(members, Prefix(Values(members, x), Len(members))) = x
<1> DEFINE n == Len(members)
           codecs == Codecs(members)
           values == Values(members, x)
<1>1. n \in Nat /\ DOMAIN members = 1..n
  BY DEF Lists
<1>2. /\ DOMAIN codecs = 1..n /\ codecs = [i \in 1..n |-> codecs[i]]
      /\ \A i \in 1..n : /\ IsCodec(codecs[i]) /\ values[i] = x[members[i].name]
                         /\ values[i] \in codecs[i].type
  BY <1>1 DEF Lists, Codecs, Values
<1>3. Len(codecs) = n
  <2> DEFINE S == {codecs[i] : i \in 1..n}
  <2>1. \A i \in 1..n : codecs[i] \in S
    OBVIOUS
  <2> HIDE DEF S, codecs
  <2> QED
    BY <1>1, <1>2, <2>1, SequenceOf
<1>4. IsRow(codecs, values)
  BY <1>1, <1>2, <1>3 DEF IsRow
<1>5. Filled(members, Prefix(values, n)) = x
  <2>1. ASSUME NEW name \in Names(members)
        PROVE  Filled(members, Prefix(values, n))[name] = x[name]
    <3>1. PICK j \in 1..n : members[j].name = name
      BY <1>1 DEF Names
    <3>2. Place(members, name) \in 1..n /\ members[Place(members, name)].name = name
      BY <3>1, <1>1 DEF Place
    <3>3. /\ Place(members, name) \in DOMAIN Prefix(values, n)
          /\ Prefix(values, n)[Place(members, name)] = x[name]
      BY <3>2, <1>2 DEF Prefix
    <3> QED
      BY <3>3 DEF Filled
  <2>2. x = [name \in Names(members) |-> x[name]]
    BY DEF Lists
  <2>3. Filled(members, Prefix(values, n))
          = [name \in Names(members) |-> Filled(members, Prefix(values, n))[name]]
    BY DEF Filled
  <2> QED
    BY <2>1, <2>2, <2>3
<1> QED
  BY <1>3, <1>4, <1>5

(* A structure is read back when its members are.                          *)
LEMMA StructCodec ==
  ASSUME NEW type, NEW members, Lists(members, type)
  PROVE  IsCodec(Struct(type, members)) /\ Struct(type, members).type = type
<1> DEFINE C == Struct(type, members)
           codecs == Codecs(members)
           row(x) == Row(codecs, Values(members, x))
           r(text) == ReadRow(codecs, text)
<1>1. /\ C.type = type
      /\ \A x \in type : C.save[x] = row(x)
      /\ \A text \in Texts : C.load[text] = [r(text) EXCEPT !.value = Filled(members, r(text).value)]
  BY DEF Struct, Filled
<1>2. Len(codecs) \in Nat /\ Len(codecs) # 0 /\ \A i \in 1..Len(codecs) : Loads(codecs[i])
  <2> DEFINE S == {members[i].codec : i \in 1..Len(members)}
  <2>1. /\ Len(members) \in Nat /\ Len(members) # 0 /\ DOMAIN codecs = 1..Len(members)
        /\ codecs = [i \in 1..Len(members) |-> codecs[i]]
        /\ \A i \in 1..Len(members) : codecs[i] \in S /\ Loads(codecs[i])
    BY DEF Lists, Codecs, IsCodec
  <2> HIDE DEF S, codecs
  <2>2. Len(codecs) = Len(members)
    BY <2>1, SequenceOf
  <2> QED
    BY <2>1, <2>2
<1>3. ASSUME NEW text \in Texts
      PROVE  /\ IsResult(C.load[text])
             /\ C.load[text].ok = r(text).ok /\ C.load[text].rest = r(text).rest
             /\ C.load[text].value = Filled(members, r(text).value)
  <2>1. IsResult(r(text))
    BY <1>2, ReadRowResult
  <2>2. C.load[text] = [r(text) EXCEPT !.value = Filled(members, r(text).value)]
    BY <1>1
  <2>3. r(text) = [ok |-> r(text).ok, value |-> r(text).value, rest |-> r(text).rest]
    BY <2>1 DEF IsResult
  <2> HIDE DEF C, r
  <2>4. C.load[text] = [ok |-> r(text).ok, value |-> Filled(members, r(text).value),
                        rest |-> r(text).rest]
    BY <2>2, <2>3
  <2> QED
    BY <2>1, <2>4 DEF IsResult
<1>4. ASSUME NEW x \in type
      PROVE  /\ IsRow(codecs, Values(members, x))
             /\ Filled(members, Prefix(Values(members, x), Len(codecs))) = x
  BY StructRow
<1> HIDE DEF C
<1>5. Saves(C)
  <2>1. ASSUME NEW x \in type PROVE C.save[x] \in Texts /\ C.save[x] # <<>>
    BY <1>1, <1>2, <1>4, RowLast
  <2> QED
    BY <2>1, <1>1 DEF Saves
<1>6. Loads(C)
  <2>1. <<>> \in Texts
    BY EmptySeq DEF Texts
  <2>2. ~r(<<>>).ok
    BY <2>1, <1>2, ReadRowResult
  <2>3. ~C.load[<<>>].ok
    BY <2>1, <2>2, <1>3
  <2> QED
    BY <2>3, <1>3 DEF Loads
<1>7. Whole(C)
  <2>1. ASSUME NEW x \in type, NEW rest \in Texts
        PROVE  IF Legible(C.save[x]) THEN C.load[C.save[x] \o rest] = Read(x, rest)
               ELSE ~C.load[C.save[x] \o rest].ok
    <3> DEFINE values == Values(members, x)
               text == row(x) \o rest
    <3>1. C.save[x] = row(x) /\ row(x) \in Texts
      BY <1>1, <1>4, RowCodec
    <3>2. text \in Texts
      <4> HIDE DEF row
      <4> QED
        BY <3>1, ConcatProperties DEF Texts
    <3>3. IF Legible(row(x)) THEN r(text) = Read(Prefix(values, Len(codecs)), rest)
          ELSE ~r(text).ok
      BY <1>4, RowCodec
    <3>4. /\ IsResult(C.load[text])
          /\ C.load[text].ok = r(text).ok /\ C.load[text].rest = r(text).rest
          /\ C.load[text].value = Filled(members, r(text).value)
      BY <3>2, <1>3
    <3>5. Filled(members, Prefix(values, Len(codecs))) = x
      BY <1>4
    <3> HIDE DEF text, r, row, values, codecs
    <3>6. CASE Legible(row(x))
      <4>1. /\ C.load[text].ok = TRUE /\ C.load[text].rest = rest
            /\ C.load[text].value = x
        BY <3>3, <3>4, <3>5, <3>6 DEF Read
      <4>2. C.load[text] = Read(x, rest)
        BY <4>1, <3>4 DEF IsResult, Read
      <4> QED
        BY <4>2, <3>1, <3>6 DEF text
    <3>7. CASE ~Legible(row(x))
      BY <3>1, <3>3, <3>4, <3>7 DEF text
    <3> QED
      BY <3>6, <3>7
  <2> QED
    BY <2>1, <1>1 DEF Whole
<1>8. Uncut(C)
  <2>1. ASSUME NEW x \in type, NEW cut \in Texts, CutOf(C.save[x], cut), C.load[cut].ok
        PROVE  C.load[cut].rest = <<>> /\ Len(cut) = Len(C.save[x])
    <3>1. C.save[x] = row(x)
      BY <1>1
    <3>2. C.load[cut].ok = r(cut).ok /\ C.load[cut].rest = r(cut).rest
      BY <1>3
    <3>3. CutOf(row(x), cut) /\ r(cut).ok
      BY <2>1, <3>1, <3>2
    <3>4. r(cut).rest = <<>> /\ Len(cut) = Len(row(x))
      BY <1>4, <3>3, RowCodec
    <3> QED
      BY <3>1, <3>2, <3>4
  <2> QED
    BY <2>1, <1>1 DEF Uncut
<1> QED
  BY <1>1, <1>5, <1>6, <1>7, <1>8 DEF IsCodec, C

-----------------------------------------------------------------------------
(* The types of the members, and the structures: serialize() lists all of  *)
(* their members, each with its type.                                      *)
LEMMA Scalars ==
  /\ IsCodec(DoubleIO) /\ DoubleIO.type = Double
  /\ IsCodec(IntegerIO) /\ IntegerIO.type = Integer
  /\ IsCodec(TextIO) /\ TextIO.type = Text
  /\ IsCodec(FlagIO) /\ FlagIO.type = Flag
<1>1. Double \subseteq Token /\ Integer \subseteq Token /\ Text \subseteq Token /\ Flag \subseteq Token
  BY DEF Double, Integer, Text, Flag, Token
<1> QED
  BY <1>1, ScalarCodec DEF DoubleIO, IntegerIO, TextIO, FlagIO

LEMMA StopStationLists == Lists(StopStationMembers, StellaStopStation)
<1> DEFINE m == StopStationMembers
<1>1. /\ Len(m) = 3 /\ DOMAIN m = 1..3
      /\ m[1].name = "name" /\ m[2].name = "lat" /\ m[3].name = "lon"
      /\ m[1].codec = TextIO /\ m[2].codec = DoubleIO /\ m[3].codec = DoubleIO
  BY DEF StopStationMembers, Member
<1> HIDE DEF m
<1>2. \A i \in 1..3 : i = 1 \/ i = 2 \/ i = 3
  OBVIOUS
<1>3. \A i \in 1..3 : IsCodec(m[i].codec)
  BY <1>1, <1>2, Scalars
<1>4. Names(m) = {"name", "lat", "lon"}
  BY <1>1, <1>2 DEF Names
<1>5. ASSUME NEW x \in StellaStopStation
      PROVE  /\ x = [name \in Names(m) |-> x[name]]
             /\ \A i \in 1..3 : x[m[i].name] \in m[i].codec.type
  <2>1. /\ x = [name |-> x.name, lat |-> x.lat, lon |-> x.lon]
        /\ x.name \in Text /\ x.lat \in Double /\ x.lon \in Double
    BY DEF StellaStopStation
  <2>2. x = [name \in Names(m) |-> x[name]]
    BY <2>1, <1>4
  <2>3. \A i \in 1..3 : x[m[i].name] \in m[i].codec.type
    BY <2>1, <1>1, <1>2, Scalars
  <2> QED
    BY <2>2, <2>3
<1> QED
  BY <1>1, <1>3, <1>5 DEF Lists, m

LEMMA StopStationCodec == IsCodec(StopStationIO) /\ StopStationIO.type = StellaStopStation
BY StopStationLists, StructCodec DEF StopStationIO

LEMMA RouteLists == Lists(RouteMembers, StellaRoute)
<1> DEFINE m == RouteMembers
<1>1. /\ Len(m) = 6 /\ DOMAIN m = 1..6
      /\ m[1].name = "name" /\ m[2].name = "start_lat" /\ m[3].name = "start_lon"
      /\ m[4].name = "end_lat" /\ m[5].name = "end_lon" /\ m[6].name = "stop_stations"
      /\ m[1].codec = TextIO /\ m[2].codec = DoubleIO /\ m[3].codec = DoubleIO
      /\ m[4].codec = DoubleIO /\ m[5].codec = DoubleIO
      /\ m[6].codec = Vector(StopStationIO)
  BY DEF RouteMembers, Member
<1> HIDE DEF m
<1>2. \A i \in 1..6 :
        i = 1 \/ i = 2 \/ i = 3 \/ i = 4 \/ i = 5 \/ i = 6
  OBVIOUS
<1>3. /\ IsCodec(Vector(StopStationIO)) /\ Vector(StopStationIO).type = Seq(StellaStopStation)
  BY Scalars, VectorCodec, StopStationCodec
<1>4. \A i \in 1..6 : IsCodec(m[i].codec)
  BY <1>1, <1>2, Scalars, <1>3
<1>5. Names(m) =
        {"name", "start_lat", "start_lon", "end_lat", "end_lon", "stop_stations"}
  BY <1>1, <1>2 DEF Names
<1>6. ASSUME NEW x \in StellaRoute
      PROVE  /\ x = [name \in Names(m) |-> x[name]]
             /\ \A i \in 1..6 : x[m[i].name] \in m[i].codec.type
  <2>1. x =
          [name |-> x.name, start_lat |-> x.start_lat, start_lon |-> x.start_lon,
           end_lat |-> x.end_lat, end_lon |-> x.end_lon, stop_stations |-> x.stop_stations]
    BY DEF StellaRoute
  <2>2. /\ x.name \in Text /\ x.start_lat \in Double /\ x.start_lon \in Double
        /\ x.end_lat \in Double /\ x.end_lon \in Double
        /\ x.stop_stations \in Seq(StellaStopStation)
    BY DEF StellaRoute
  <2>3. x = [name \in Names(m) |-> x[name]]
    BY <2>1, <1>5
  <2>4. \A i \in 1..6 : x[m[i].name] \in m[i].codec.type
    BY <2>2, <1>1, <1>2, Scalars, <1>3
  <2> QED
    BY <2>3, <2>4
<1> QED
  BY <1>1, <1>4, <1>6 DEF Lists, m

LEMMA RouteCodec == IsCodec(RouteIO) /\ RouteIO.type = StellaRoute
BY RouteLists, StructCodec DEF RouteIO

LEMMA MapLists == Lists(MapMembers, StellaMap)
<1> DEFINE m == MapMembers
<1>1. /\ Len(m) = 2 /\ DOMAIN m = 1..2
      /\ m[1].name = "name" /\ m[2].name = "routes"
      /\ m[1].codec = TextIO /\ m[2].codec = Vector(RouteIO)
  BY DEF MapMembers, Member
<1> HIDE DEF m
<1>2. \A i \in 1..2 :
        i = 1 \/ i = 2
  OBVIOUS
<1>3. /\ IsCodec(Vector(RouteIO)) /\ Vector(RouteIO).type = Seq(StellaRoute)
  BY Scalars, VectorCodec, RouteCodec
<1>4. \A i \in 1..2 : IsCodec(m[i].codec)
  BY <1>1, <1>2, Scalars, <1>3
<1>5. Names(m) =
        {"name", "routes"}
  BY <1>1, <1>2 DEF Names
<1>6. ASSUME NEW x \in StellaMap
      PROVE  /\ x = [name \in Names(m) |-> x[name]]
             /\ \A i \in 1..2 : x[m[i].name] \in m[i].codec.type
  <2>1. x =
          [name |-> x.name, routes |-> x.routes]
    BY DEF StellaMap
  <2>2. /\ x.name \in Text /\ x.routes \in Seq(StellaRoute)
    BY DEF StellaMap
  <2>3. x = [name \in Names(m) |-> x[name]]
    BY <2>1, <1>5
  <2>4. \A i \in 1..2 : x[m[i].name] \in m[i].codec.type
    BY <2>2, <1>1, <1>2, Scalars, <1>3
  <2> QED
    BY <2>3, <2>4
<1> QED
  BY <1>1, <1>4, <1>6 DEF Lists, m

LEMMA MapCodec == IsCodec(MapIO) /\ MapIO.type = StellaMap
BY MapLists, StructCodec DEF MapIO

LEMMA ReceiveMsgLists == Lists(ReceiveMsgMembers, StellaSocketReceiveMsg)
<1> DEFINE m == ReceiveMsgMembers
<1>1. /\ Len(m) = 17 /\ DOMAIN m = 1..17
      /\ m[1].name = "timestamp" /\ m[2].name = "frame_id" /\ m[3].name = "maps"
      /\ m[4].name = "current_frame_id" /\ m[5].name = "vehicle_position_x"
      /\ m[6].name = "vehicle_position_y" /\ m[7].name = "vehicle_theta"
      /\ m[8].name = "vehicle_speed" /\ m[9].name = "vehicle_torque"
      /\ m[10].name = "vehicle_deceleration" /\ m[11].name = "steer_wheel_speed"
      /\ m[12].name = "steer_wheel_angle" /\ m[13].name = "vehicle_yaw_rate"
      /\ m[14].name = "canvas_size" /\ m[15].name = "data_encode"
      /\ m[16].name = "stop_size" /\ m[17].name = "stop_passed_status"
      /\ m[1].codec = DoubleIO /\ m[2].codec = IntegerIO /\ m[3].codec = Vector(MapIO)
      /\ m[4].codec = IntegerIO /\ m[5].codec = DoubleIO /\ m[6].codec = DoubleIO
      /\ m[7].codec = DoubleIO /\ m[8].codec = DoubleIO /\ m[9].codec = DoubleIO
      /\ m[10].codec = DoubleIO /\ m[11].codec = DoubleIO /\ m[12].codec = DoubleIO
      /\ m[13].codec = DoubleIO /\ m[14].codec = IntegerIO
      /\ m[15].codec = Vector(IntegerIO) /\ m[16].codec = IntegerIO
      /\ m[17].codec = Vector(FlagIO)
  BY DEF ReceiveMsgMembers, Member
<1> HIDE DEF m
<1>2. \A i \in 1..17 :
        i = 1 \/ i = 2 \/ i = 3 \/ i = 4 \/ i = 5 \/ i = 6 \/ i = 7 \/ i = 8 \/ i = 9 \/
        i = 10 \/ i = 11 \/ i = 12 \/ i = 13 \/ i = 14 \/ i = 15 \/ i = 16 \/ i = 17
  OBVIOUS
<1>3. /\ IsCodec(Vector(MapIO)) /\ Vector(MapIO).type = Seq(StellaMap)
      /\ IsCodec(Vector(IntegerIO)) /\ Vector(IntegerIO).type = Seq(Integer)
      /\ IsCodec(Vector(FlagIO)) /\ Vector(FlagIO).type = Seq(Flag)
  BY Scalars, VectorCodec, MapCodec
<1>4. \A i \in 1..17 : IsCodec(m[i].codec)
  BY <1>1, <1>2, Scalars, <1>3
<1>5. Names(m) =
        {"timestamp", "frame_id", "maps", "current_frame_id", "vehicle_position_x",
         "vehicle_position_y", "vehicle_theta", "vehicle_speed", "vehicle_torque",
         "vehicle_deceleration", "steer_wheel_speed", "steer_wheel_angle", "vehicle_yaw_rate",
         "canvas_size", "data_encode", "stop_size", "stop_passed_status"}
  BY <1>1, <1>2 DEF Names
<1>6. ASSUME NEW x \in StellaSocketReceiveMsg
      PROVE  /\ x = [name \in Names(m) |-> x[name]]
             /\ \A i \in 1..17 : x[m[i].name] \in m[i].codec.type
  <2>1. x =
          [timestamp |-> x.timestamp, frame_id |-> x.frame_id, maps |-> x.maps,
           current_frame_id |-> x.current_frame_id,
           vehicle_position_x |-> x.vehicle_position_x,
           vehicle_position_y |-> x.vehicle_position_y, vehicle_theta |-> x.vehicle_theta,
           vehicle_speed |-> x.vehicle_speed, vehicle_torque |-> x.vehicle_torque,
           vehicle_deceleration |-> x.vehicle_deceleration,
           steer_wheel_speed |-> x.steer_wheel_speed,
           steer_wheel_angle |-> x.steer_wheel_angle, vehicle_yaw_rate |-> x.vehicle_yaw_rate,
           canvas_size |-> x.canvas_size, data_encode |-> x.data_encode,
           stop_size |-> x.stop_size, stop_passed_status |-> x.stop_passed_status]
    BY DEF StellaSocketReceiveMsg
  <2>2. /\ x.timestamp \in Double /\ x.frame_id \in Integer /\ x.maps \in Seq(StellaMap)
        /\ x.current_frame_id \in Integer /\ x.vehicle_position_x \in Double
        /\ x.vehicle_position_y \in Double /\ x.vehicle_theta \in Double
        /\ x.vehicle_speed \in Double /\ x.vehicle_torque \in Double
        /\ x.vehicle_deceleration \in Double /\ x.steer_wheel_speed \in Double
        /\ x.steer_wheel_angle \in Double /\ x.vehicle_yaw_rate \in Double
        /\ x.canvas_size \in Integer /\ x.data_encode \in Seq(Integer)
        /\ x.stop_size \in Integer /\ x.stop_passed_status \in Seq(Flag)
    BY DEF StellaSocketReceiveMsg
  <2>3. x = [name \in Names(m) |-> x[name]]
    BY <2>1, <1>5
  <2>4. \A i \in 1..17 : x[m[i].name] \in m[i].codec.type
    BY <2>2, <1>1, <1>2, Scalars, <1>3
  <2> QED
    BY <2>3, <2>4
<1> QED
  BY <1>1, <1>4, <1>6 DEF Lists, m

LEMMA ReceiveMsgCodec == IsCodec(ReceiveMsgIO) /\ ReceiveMsgIO.type = StellaSocketReceiveMsg
BY ReceiveMsgLists, StructCodec DEF ReceiveMsgIO

LEMMA ReceiveDataLists == Lists(ReceiveDataMembers, StellaSocketReceiveData)
<1> DEFINE m == ReceiveDataMembers
<1>1. /\ Len(m) = 2 /\ DOMAIN m = 1..2
      /\ m[1].name = "command" /\ m[2].name = "msg"
      /\ m[1].codec = IntegerIO /\ m[2].codec = ReceiveMsgIO
  BY DEF ReceiveDataMembers, Member
<1> HIDE DEF m
<1>2. \A i \in 1..2 :
        i = 1 \/ i = 2
  OBVIOUS
<1>3. /\ IsCodec(ReceiveMsgIO) /\ ReceiveMsgIO.type = StellaSocketReceiveMsg
  BY Scalars, ReceiveMsgCodec
<1>4. \A i \in 1..2 : IsCodec(m[i].codec)
  BY <1>1, <1>2, Scalars, <1>3
<1>5. Names(m) =
        {"command", "msg"}
  BY <1>1, <1>2 DEF Names
<1>6. ASSUME NEW x \in StellaSocketReceiveData
      PROVE  /\ x = [name \in Names(m) |-> x[name]]
             /\ \A i \in 1..2 : x[m[i].name] \in m[i].codec.type
  <2>1. x =
          [command |-> x.command, msg |-> x.msg]
    BY DEF StellaSocketReceiveData
  <2>2. /\ x.command \in Integer /\ x.msg \in StellaSocketReceiveMsg
    BY DEF StellaSocketReceiveData
  <2>3. x = [name \in Names(m) |-> x[name]]
    BY <2>1, <1>5
  <2>4. \A i \in 1..2 : x[m[i].name] \in m[i].codec.type
    BY <2>2, <1>1, <1>2, Scalars, <1>3
  <2> QED
    BY <2>3, <2>4
<1> QED
  BY <1>1, <1>4, <1>6 DEF Lists, m

LEMMA ReceiveDataCodec == IsCodec(ReceiveDataIO) /\ ReceiveDataIO.type = StellaSocketReceiveData
BY ReceiveDataLists, StructCodec DEF ReceiveDataIO

LEMMA SendDataLists == Lists(SendDataMembers, StellaSocketSendData)
<1> DEFINE m == SendDataMembers
<1>1. /\ Len(m) = 1 /\ DOMAIN m = 1..1
      /\ m[1].name = "command"
      /\ m[1].codec = IntegerIO
  BY DEF SendDataMembers, Member
<1> HIDE DEF m
<1>2. \A i \in 1..1 :
        i = 1
  OBVIOUS
<1>4. \A i \in 1..1 : IsCodec(m[i].codec)
  BY <1>1, <1>2, Scalars
<1>5. Names(m) =
        {"command"}
  BY <1>1, <1>2 DEF Names
<1>6. ASSUME NEW x \in StellaSocketSendData
      PROVE  /\ x = [name \in Names(m) |-> x[name]]
             /\ \A i \in 1..1 : x[m[i].name] \in m[i].codec.type
  <2>1. x =
          [command |-> x.command]
    BY DEF StellaSocketSendData
  <2>2. /\ x.command \in Integer
    BY DEF StellaSocketSendData
  <2>3. x = [name \in Names(m) |-> x[name]]
    BY <2>1, <1>5
  <2>4. \A i \in 1..1 : x[m[i].name] \in m[i].codec.type
    BY <2>2, <1>1, <1>2, Scalars
  <2> QED
    BY <2>3, <2>4
<1> QED
  BY <1>1, <1>4, <1>6 DEF Lists, m

LEMMA SendDataCodec == IsCodec(SendDataIO) /\ SendDataIO.type = StellaSocketSendData
BY SendDataLists, StructCodec DEF SendDataIO

LEMMA SendMsgLists == Lists(SendMsgMembers, StellaSocketSendMsg)
<1> DEFINE m == SendMsgMembers
<1>1. /\ Len(m) = 12 /\ DOMAIN m = 1..12
      /\ m[1].name = "timestamp" /\ m[2].name = "frame_id" /\ m[3].name = "scenario_name"
      /\ m[4].name = "route_name" /\ m[5].name = "stop_size"
      /\ m[6].name = "stop_enable_status" /\ m[7].name = "start_stella_system"
      /\ m[8].name = "stop_stella_system" /\ m[9].name = "exit_stella_system"
      /\ m[10].name = "enable_auto_drive" /\ m[11].name = "close_the_door"
      /\ m[12].name = "vehicle_scenario_type"
      /\ m[1].codec = DoubleIO /\ m[2].codec = IntegerIO /\ m[3].codec = TextIO
      /\ m[4].codec = TextIO /\ m[5].codec = IntegerIO /\ m[6].codec = Vector(FlagIO)
      /\ m[7].codec = FlagIO /\ m[8].codec = FlagIO /\ m[9].codec = FlagIO
      /\ m[10].codec = FlagIO /\ m[11].codec = FlagIO /\ m[12].codec = IntegerIO
  BY DEF SendMsgMembers, Member
<1> HIDE DEF m
<1>2. \A i \in 1..12 :
        i = 1 \/ i = 2 \/ i = 3 \/ i = 4 \/ i = 5 \/ i = 6 \/ i = 7 \/ i = 8 \/ i = 9 \/
        i = 10 \/ i = 11 \/ i = 12
  OBVIOUS
<1>3. /\ IsCodec(Vector(FlagIO)) /\ Vector(FlagIO).type = Seq(Flag)
  BY Scalars, VectorCodec
<1>4. \A i \in 1..12 : IsCodec(m[i].codec)
  BY <1>1, <1>2, Scalars, <1>3
<1>5. Names(m) =
        {"timestamp", "frame_id", "scenario_name", "route_name", "stop_size",
         "stop_enable_status", "start_stella_system", "stop_stella_system",
         "exit_stella_system", "enable_auto_drive", "close_the_door", "vehicle_scenario_type"}
  BY <1>1, <1>2 DEF Names
<1>6. ASSUME NEW x \in StellaSocketSendMsg
      PROVE  /\ x = [name \in Names(m) |-> x[name]]
             /\ \A i \in 1..12 : x[m[i].name] \in m[i].codec.type
  <2>1. x =
          [timestamp |-> x.timestamp, frame_id |-> x.frame_id,
           scenario_name |-> x.scenario_name, route_name |-> x.route_name,
           stop_size |-> x.stop_size, stop_enable_status |-> x.stop_enable_status,
           start_stella_system |-> x.start_stella_system,
           stop_stella_system |-> x.stop_stella_system,
           exit_stella_system |-> x.exit_stella_system,
           enable_auto_drive |-> x.enable_auto_drive, close_the_door |-> x.close_the_door,
           vehicle_scenario_type |-> x.vehicle_scenario_type]
    BY DEF StellaSocketSendMsg
  <2>2. /\ x.timestamp \in Double /\ x.frame_id \in Integer /\ x.scenario_name \in Text
        /\ x.route_name \in Text /\ x.stop_size \in Integer
        /\ x.stop_enable_status \in Seq(Flag) /\ x.start_stella_system \in Flag
        /\ x.stop_stella_system \in Flag /\ x.exit_stella_system \in Flag
        /\ x.enable_auto_drive \in Flag /\ x.close_the_door \in Flag
        /\ x.vehicle_scenario_type \in Integer
    BY DEF StellaSocketSendMsg
  <2>3. x = [name \in Names(m) |-> x[name]]
    BY <2>1, <1>5
  <2>4. \A i \in 1..12 : x[m[i].name] \in m[i].codec.type
    BY <2>2, <1>1, <1>2, Scalars, <1>3
  <2> QED
    BY <2>3, <2>4
<1> QED
  BY <1>1, <1>4, <1>6 DEF Lists, m

LEMMA SendMsgCodec == IsCodec(SendMsgIO) /\ SendMsgIO.type = StellaSocketSendMsg
BY SendMsgLists, StructCodec DEF SendMsgIO

-----------------------------------------------------------------------------
(* Every structure that travels is read back as it was written, every      *)
(* member of it, whatever follows it in the archive; if one of its numbers *)
(* is not finite, or the archive is cut anywhere, reading fails.  This is  *)
(* StellaSerialization.h with the structures of StellaType.h.              *)
THEOREM StructuresReadBack ==
  \A io \in {StopStationIO, RouteIO, MapIO, ReceiveMsgIO, ReceiveDataIO, SendDataIO, SendMsgIO} :
    IsCodec(io)
BY StopStationCodec, RouteCodec, MapCodec, ReceiveMsgCodec, ReceiveDataCodec, SendDataCodec,
   SendMsgCodec

(* A row begins with its first value.                                      *)
LEMMA RowFirst ==
  ASSUME NEW codecs, NEW values, IsRow(codecs, values), Len(codecs) # 0
  PROVE  RowText(codecs, values, 1) = codecs[1].save[values[1]]
<1> DEFINE text == codecs[1].save[values[1]]
<1>1. 1 \in 1..Len(codecs)
  BY DEF IsRow
<1>2. /\ \A k \in 1..Len(codecs) :
           RowText(codecs, values, k) = RowText(codecs, values, k - 1) \o codecs[k].save[values[k]]
      /\ \A k \in 1..Len(codecs) : codecs[k].save[values[k]] \in Texts
      /\ RowText(codecs, values, 0) = <<>>
  BY RowTexts
<1>3. RowText(codecs, values, 1) = RowText(codecs, values, 1 - 1) \o text /\ text \in Texts
  BY <1>1, <1>2
<1>4. RowText(codecs, values, 1 - 1) = <<>>
  BY <1>2
<1> HIDE DEF text
<1>5. <<>> \o text = text
  BY <1>3, ConcatEmptySeq DEF Texts
<1> QED
  BY <1>3, <1>4, <1>5 DEF text

(* The client's own answer is one token.                                   *)
LEMMA AnswerText == struct_to_str(SendData) = <<normal>>
<1> DEFINE codecs == Codecs(SendDataMembers)
           values == Values(SendDataMembers, SendData)
<1>1. SendData \in StellaSocketSendData
  BY DEF SendData, StellaSocketSendData, Integer, normal
<1>2. IsRow(codecs, values) /\ Len(codecs) = Len(SendDataMembers)
  BY <1>1, SendDataLists, StructRow
<1>3. /\ Len(SendDataMembers) = 1 /\ DOMAIN SendDataMembers = 1..1
      /\ SendDataMembers[1] = Member("command", IntegerIO)
  BY DEF SendDataMembers
<1>4. codecs[1] = IntegerIO /\ values[1] = normal
  BY <1>3 DEF Codecs, Values, Member, SendData
<1>5. IntegerIO.save[normal] = <<normal>>
  BY DEF IntegerIO, Scalar, Integer, normal
<1>6. struct_to_str(SendData) = Row(codecs, values)
  BY <1>1 DEF struct_to_str, SendDataIO, Struct
<1>7. Row(codecs, values) = RowText(codecs, values, 1)
  BY <1>2, <1>3, RowTexts
<1>8. RowText(codecs, values, 1) = codecs[1].save[values[1]]
  BY <1>2, <1>3, RowFirst
<1> QED
  BY <1>4, <1>5, <1>6, <1>7, <1>8

(* A message is its command and what it is about.                          *)
LEMMA ReceiveDataText ==
  ASSUME NEW data \in StellaSocketReceiveData
  PROVE  /\ ReceiveDataIO.save[data] = <<data.command>> \o ReceiveMsgIO.save[data.msg]
         /\ data.command \in Nat
         /\ ReceiveMsgIO.save[data.msg] \in Texts /\ ReceiveMsgIO.save[data.msg] # <<>>
<1> DEFINE codecs == Codecs(ReceiveDataMembers)
           values == Values(ReceiveDataMembers, data)
<1>1. IsRow(codecs, values) /\ Len(codecs) = Len(ReceiveDataMembers)
  BY ReceiveDataLists, StructRow
<1>2. /\ Len(ReceiveDataMembers) = 2 /\ DOMAIN ReceiveDataMembers = 1..2
      /\ ReceiveDataMembers[1] = Member("command", IntegerIO)
      /\ ReceiveDataMembers[2] = Member("msg", ReceiveMsgIO)
  BY DEF ReceiveDataMembers
<1>3. /\ codecs[1] = IntegerIO /\ values[1] = data.command
      /\ codecs[2] = ReceiveMsgIO /\ values[2] = data.msg
  BY <1>2 DEF Codecs, Values, Member
<1>4. data.command \in Nat /\ data.msg \in StellaSocketReceiveMsg
  BY DEF StellaSocketReceiveData, Integer
<1>5. IntegerIO.save[data.command] = <<data.command>>
  BY <1>4 DEF IntegerIO, Scalar, Integer
<1>6. ReceiveMsgIO.save[data.msg] \in Texts /\ ReceiveMsgIO.save[data.msg] # <<>>
  BY <1>4, ReceiveMsgCodec DEF IsCodec, Saves
<1>7. ReceiveDataIO.save[data] = Row(codecs, values)
  BY DEF ReceiveDataIO, Struct
<1>8. Row(codecs, values) = RowText(codecs, values, 2)
  BY <1>1, <1>2, RowTexts
<1>9. RowText(codecs, values, 1) = codecs[1].save[values[1]]
  BY <1>1, <1>2, RowFirst
<1>10. RowText(codecs, values, 2) = RowText(codecs, values, 1) \o codecs[2].save[values[2]]
  <2>1. \A k \in 1..Len(codecs) :
          RowText(codecs, values, k) = RowText(codecs, values, k - 1) \o codecs[k].save[values[k]]
    BY <1>1, RowTexts
  <2>2. 2 \in 1..Len(codecs) /\ 2 - 1 = 1
    BY <1>1, <1>2
  <2> QED
    BY <2>1, <2>2
<1> QED
  BY <1>3, <1>4, <1>5, <1>6, <1>7, <1>8, <1>9, <1>10

(* The last thing in a message is a vector of flags, so that no number of  *)
(* two digits is cut at its very end.                                      *)
LEMMA FlagsText ==
  ASSUME NEW flags \in Seq(Flag)
  PROVE  LET text == Vector(FlagIO).save[flags]
         IN text[Len(text)] \in {0, 1} /\ Legible(text)
<1> DEFINE n == Len(flags)
           codecs == Copies(n, FlagIO)
           row == Row(codecs, flags)
           one == <<n>>
<1>1. n \in Nat /\ n \in Token /\ n # NaN /\ \A i \in 1..n : flags[i] \in Flag
  BY LenProperties, ElementOfSeq DEF Token, NaN
<1>2. FlagIO.type = Flag /\ \A x \in Flag : FlagIO.save[x] = <<x>>
  BY DEF FlagIO, Scalar
<1>3. /\ Vector(FlagIO).save[flags] = one \o row
  BY <1>2 DEF Vector
<1>4. Len(codecs) = n /\ IsRow(codecs, flags)
  BY <1>1, <1>2, CopiesOf, Scalars DEF IsRow
<1>5. one \in Texts /\ Len(one) = 1 /\ one[1] = n /\ Legible(one)
  BY <1>1, OneToken
<1>6. row \in Texts /\ (n = 0 => row = <<>>)
  BY <1>4, RowCodec
<1>7. Legible(row)
  <2>1. ASSUME NEW i \in 1..n PROVE Legible(codecs[i].save[flags[i]])
    <3>1. codecs[i].save[flags[i]] = <<flags[i]>> /\ flags[i] \in Token /\ flags[i] # NaN
      BY <1>1, <1>2, CopiesOf DEF Flag, Token, NaN
    <3> QED
      BY <3>1, OneToken
  <2> QED
    BY <2>1, <1>4, RowLegible
<1>8. n # 0 => row # <<>> /\ row[Len(row)] \in {0, 1}
  <2> SUFFICES ASSUME n # 0 PROVE row # <<>> /\ row[Len(row)] \in {0, 1}
    OBVIOUS
  <2> DEFINE text == codecs[n].save[flags[n]]
  <2>1. n \in 1..n
    BY <1>1
  <2>2. text = <<flags[n]>> /\ flags[n] \in {0, 1}
    BY <2>1, <1>1, <1>2, CopiesOf DEF Flag
  <2>3. Len(text) = 1 /\ text[1] = flags[n]
    BY <2>2
  <2>4. row # <<>> /\ row[Len(row)] = text[Len(text)]
    BY <1>4, RowLast
  <2> QED
    BY <2>2, <2>3, <2>4
<1> HIDE DEF one, row, n
<1>9. Legible(one \o row)
  BY <1>5, <1>6, <1>7, LegibleParts
<1>10. (one \o row)[Len(one \o row)] \in {0, 1}
  <2>1. /\ Len(one \o row) = Len(one) + Len(row)
        /\ \A i \in 1..Len(one) + Len(row) :
             (one \o row)[i] = IF i <= Len(one) THEN one[i] ELSE row[i - Len(one)]
    BY <1>5, <1>6, ConcatProperties DEF Texts
  <2>2. Len(row) \in Nat /\ (n = 0 => Len(row) = 0) /\ (n # 0 => Len(row) # 0)
    BY <1>6, <1>8, Sizes
  <2>3. /\ 1 + Len(row) \in 1..Len(one) + Len(row)
        /\ Len(row) = 0 => 1 + Len(row) <= Len(one) /\ 1 + Len(row) = 1
        /\ Len(row) # 0 => ~(1 + Len(row) <= Len(one)) /\ (1 + Len(row)) - Len(one) = Len(row)
    BY <2>2, <1>5
  <2>4. CASE n = 0
    BY <2>1, <2>2, <2>3, <2>4, <1>5
  <2>5. CASE n # 0
    BY <2>1, <2>2, <2>3, <2>5, <1>5, <1>8
  <2> QED
    BY <2>4, <2>5
<1> QED
  BY <1>3, <1>9, <1>10

(* A message ends with 0 or 1.                                             *)
LEMMA MessageEnd ==
  ASSUME NEW data \in StellaSocketReceiveData
  PROVE  LET text == ReceiveDataIO.save[data] IN text[Len(text)] \in {0, 1}
<1> DEFINE msg == data.msg
           codecs == Codecs(ReceiveMsgMembers)
           values == Values(ReceiveMsgMembers, msg)
           m == ReceiveMsgMembers
           p == ReceiveMsgIO.save[msg]
           flags == Vector(FlagIO).save[msg.stop_passed_status]
<1>1. msg \in StellaSocketReceiveMsg /\ msg.stop_passed_status \in Seq(Flag)
  BY DEF StellaSocketReceiveData, StellaSocketReceiveMsg
<1>2. IsRow(codecs, values) /\ Len(codecs) = Len(m)
  BY <1>1, ReceiveMsgLists, StructRow
<1>3. /\ Len(m) = 17 /\ DOMAIN m = 1..17
      /\ m[17] = Member("stop_passed_status", Vector(FlagIO))
  BY DEF ReceiveMsgMembers
<1>4. 17 \in DOMAIN m
  BY <1>3
<1>5. codecs[17] = Vector(FlagIO) /\ values[17] = msg.stop_passed_status
  <2> HIDE DEF m
  <2>1. codecs = [i \in DOMAIN m |-> m[i].codec] /\ values = [i \in DOMAIN m |-> msg[m[i].name]]
    BY DEF m, Codecs, Values
  <2> HIDE DEF codecs, values
  <2>2. codecs[17] = m[17].codec /\ values[17] = msg[m[17].name]
    BY <2>1, <1>4
  <2> QED
    BY <2>2, <1>3 DEF Member
<1>6. p = Row(codecs, values)
  BY <1>1 DEF ReceiveMsgIO, Struct
<1>7. p \in Texts /\ p # <<>> /\ p[Len(p)] = flags[Len(flags)]
  <2>1. LET text == codecs[Len(codecs)].save[values[Len(codecs)]]
        IN /\ Row(codecs, values) \in Texts /\ Row(codecs, values) # <<>>
           /\ Row(codecs, values)[Len(Row(codecs, values))] = text[Len(text)]
    <3>1. Len(codecs) # 0
      BY <1>2, <1>3
    <3> HIDE DEF codecs, values, m
    <3> QED
      BY <3>1, <1>2, RowLast
  <2> HIDE DEF codecs, values, m
  <2> QED
    BY <2>1, <1>2, <1>3, <1>5, <1>6
<1>8. p[Len(p)] \in {0, 1}
  BY <1>1, <1>7, FlagsText
<1>9. ReceiveDataIO.save[data] = <<data.command>> \o p /\ data.command \in Token
  BY ReceiveDataText DEF Token
<1> DEFINE one == <<data.command>>
<1>10. one \in Texts /\ Len(one) = 1
  BY <1>9, OneToken
<1>11. ReceiveDataIO.save[data] = one \o p
  BY <1>9
<1> HIDE DEF one, p
<1>12. /\ Len(one \o p) = Len(one) + Len(p)
       /\ \A i \in 1..Len(one) + Len(p) :
            (one \o p)[i] = IF i <= Len(one) THEN one[i] ELSE p[i - Len(one)]
  BY <1>7, <1>10, ConcatProperties DEF Texts
<1>13. Len(p) \in Nat /\ Len(p) # 0
  BY <1>7, Sizes
<1>14. /\ 1 + Len(p) \in 1..Len(one) + Len(p) /\ ~(1 + Len(p) <= Len(one))
       /\ (1 + Len(p)) - Len(one) = Len(p)
  BY <1>10, <1>13
<1>15. (one \o p)[Len(one \o p)] = p[Len(p)]
  BY <1>10, <1>12, <1>14
<1> QED
  BY <1>8, <1>11, <1>15

(* Whatever happens to a frame, what is left of it is not read through.    *)
LEMMA CutIsShorter ==
  ASSUME NEW text \in Texts, text[Len(text)] \in {0, 1}, NEW cut \in Cuts(text)
  PROVE  cut \in Texts /\ cut # <<>> /\ CutOf(text, cut) /\ Len(cut) < Len(text)
<1>1. Len(text) \in Nat /\ DOMAIN text = 1..Len(text)
      /\ \A i \in 1..Len(text) : text[i] \in Token /\ text[i] \in Int
  BY Sizes, LenProperties DEF Texts
<1>2. ASSUME NEW n \in 1..Len(text)
      PROVE  /\ SubSeq(text, 1, n) \in Texts /\ Len(SubSeq(text, 1, n)) = n
             /\ \A i \in 1..n : SubSeq(text, 1, n)[i] = text[i]
  <2>1. n \in Int /\ 1 <= n /\ \A i \in 1..n : i \in 1..Len(text)
    BY <1>1
  <2>2. \A i \in 1..n : text[i] \in Token
    BY <2>1, <1>1
  <2>3. /\ SubSeq(text, 1, n) \in Seq(Token)
        /\ Len(SubSeq(text, 1, n)) = IF 1 <= n THEN n - 1 + 1 ELSE 0
        /\ \A i \in 1..(n - 1 + 1) : SubSeq(text, 1, n)[i] = text[1 + i - 1]
    BY <2>1, <2>2, SubSeqProperties
  <2>4. n - 1 + 1 = n /\ \A i \in 1..n : 1 + i - 1 = i
    BY <2>1
  <2> QED
    BY <2>1, <2>3, <2>4 DEF Texts
<1>3. CASE cut \in {SubSeq(text, 1, n) : n \in 1..(Len(text) - 1)}
  <2>1. PICK n \in 1..(Len(text) - 1) : cut = SubSeq(text, 1, n)
    BY <1>3
  <2>2. n \in 1..Len(text) /\ n < Len(text) /\ n # 0
    BY <1>1
  <2>3. cut \in Texts /\ Len(cut) = n /\ \A i \in 1..n : cut[i] = text[i]
    BY <2>1, <2>2, <1>2
  <2>4. cut # <<>>
    BY <2>2, <2>3, Sizes
  <2> QED
    BY <2>2, <2>3, <2>4 DEF CutOf
<1>4. CASE cut \in {[SubSeq(text, 1, n) EXCEPT ![n] = @ \div 10] : n \in {k \in DOMAIN text : text[k] >= 10}}
  <2>1. PICK n \in 1..Len(text) :
          text[n] >= 10 /\ cut = [SubSeq(text, 1, n) EXCEPT ![n] = SubSeq(text, 1, n)[n] \div 10]
    BY <1>1, <1>4
  <2> DEFINE s == SubSeq(text, 1, n)
             digits == text[n] \div 10
  <2>2. s \in Texts /\ Len(s) = n /\ \A i \in 1..n : s[i] = text[i]
    BY <1>2
  <2>3. n \in 1..n /\ n \in Nat /\ n # 0
    BY <1>1
  <2>4. digits \in Nat /\ digits > 0 /\ digits \in Token
    <3>1. text[n] \in Int /\ text[n] >= 10
      BY <1>1, <2>1
    <3>2. digits \in Nat /\ digits > 0
      BY <3>1
    <3> QED
      BY <3>2 DEF Token
  <2>5. cut = [s EXCEPT ![n] = digits]
    BY <2>1, <2>2, <2>3
  <2> HIDE DEF s, digits
  <2>6. /\ cut \in Texts /\ Len(cut) = n
        /\ \A i \in 1..n : cut[i] = IF i = n THEN digits ELSE s[i]
    BY <2>2, <2>3, <2>4, <2>5, ExceptSeq DEF Texts
  <2>7. n # Len(text)
    BY <2>1
  <2>8. n < Len(text)
    <3>1. Len(text) \in Nat /\ n \in Nat /\ n <= Len(text)
      BY <1>1
    <3> QED
      BY <3>1, <2>7
  <2>9. text[n] > 0
    BY <2>1, <1>1
  <2>10. ASSUME NEW i \in 1..n
         PROVE  cut[i] = text[i] \/ (i = Len(cut) /\ text[i] > 0 /\ cut[i] > 0)
    BY <2>2, <2>4, <2>6, <2>9
  <2>11. cut # <<>>
    BY <2>3, <2>6, Sizes
  <2> QED
    BY <2>6, <2>8, <2>10, <2>11, <1>1 DEF CutOf
<1> QED
  BY <1>3, <1>4 DEF Cuts

(* A frame that something has happened to is not read.                     *)
LEMMA BrokenIsNotRead ==
  ASSUME NEW data \in StellaSocketReceiveData,
         NEW text \in Cuts(ReceiveDataIO.save[data]) \cup {struct_to_str(SendData)}
  PROVE  text \in Texts /\ text # <<>> /\ ~str_to_struct(text).ok
<1>1. /\ ReceiveDataIO.save[data] \in Texts
      /\ \A x \in StellaSocketReceiveData : \A cut \in Texts :
           CutOf(ReceiveDataIO.save[x], cut) /\ ReceiveDataIO.load[cut].ok =>
             Len(cut) = Len(ReceiveDataIO.save[x])
  BY ReceiveDataCodec DEF IsCodec, Saves, Uncut
<1>2. CASE text \in Cuts(ReceiveDataIO.save[data])
  <2>1. /\ text \in Texts /\ text # <<>> /\ CutOf(ReceiveDataIO.save[data], text)
        /\ Len(text) < Len(ReceiveDataIO.save[data])
    BY <1>1, <1>2, MessageEnd, CutIsShorter
  <2>2. Len(text) \in Nat /\ Len(ReceiveDataIO.save[data]) \in Nat
    BY <1>1, <2>1, Sizes
  <2>3. Len(text) # Len(ReceiveDataIO.save[data])
    BY <2>1, <2>2
  <2> QED
    BY <1>1, <2>1, <2>3 DEF str_to_struct
<1>3. CASE text = struct_to_str(SendData)
  <2> DEFINE x == [data EXCEPT !.command = normal]
             one == <<normal>>
             p == ReceiveMsgIO.save[x.msg]
  <2>1. x \in StellaSocketReceiveData /\ x.command = normal
    BY DEF StellaSocketReceiveData, Integer, normal
  <2>2. text = one /\ normal \in Token
    BY <1>3, AnswerText DEF normal, Token
  <2>3. one \in Texts /\ one # <<>> /\ Len(one) = 1
    BY <2>2, OneToken
  <2>4. /\ ReceiveDataIO.save[x] = one \o p /\ p \in Texts /\ p # <<>>
    BY <2>1, ReceiveDataText
  <2> HIDE DEF one, p, x
  <2>5. /\ Len(one \o p) = Len(one) + Len(p)
        /\ \A i \in 1..Len(one) + Len(p) : (one \o p)[i] = IF i <= Len(one) THEN one[i] ELSE p[i - Len(one)]
    BY <2>3, <2>4, ConcatProperties DEF Texts
  <2>6. Len(p) \in Nat /\ Len(p) # 0
    BY <2>4, Sizes
  <2>7. Len(one) <= Len(one \o p) /\ Len(one) # Len(one \o p)
    BY <2>3, <2>5, <2>6
  <2>8. \A i \in 1..Len(one) : one[i] = (one \o p)[i]
    BY <2>3, <2>5, <2>6
  <2>9. CutOf(ReceiveDataIO.save[x], one)
    BY <2>3, <2>4, <2>7, <2>8 DEF CutOf
  <2> QED
    BY <1>1, <2>1, <2>2, <2>3, <2>4, <2>7, <2>9 DEF str_to_struct
<1> QED
  BY <1>2, <1>3

(* A frame that nothing has happened to.                                   *)
LEMMA WholeIsRead ==
  ASSUME NEW data \in StellaSocketReceiveData
  PROVE  LET text == ReceiveDataIO.save[data]
         IN /\ text \in Texts /\ text # <<>>
            /\ IF Legible(text) THEN str_to_struct(text) = Read(data, <<>>)
               ELSE ~str_to_struct(text).ok
<1> DEFINE text == ReceiveDataIO.save[data]
<1>1. /\ text \in Texts /\ text # <<>>
      /\ \A rest \in Texts :
           IF Legible(text) THEN ReceiveDataIO.load[text \o rest] = Read(data, rest)
           ELSE ~ReceiveDataIO.load[text \o rest].ok
  BY ReceiveDataCodec DEF IsCodec, Saves, Whole
<1> HIDE DEF text
<1>2. <<>> \in Texts /\ text \o <<>> = text
  BY <1>1, EmptySeq, ConcatEmptySeq DEF Texts
<1>3. IF Legible(text) THEN ReceiveDataIO.load[text] = Read(data, <<>>)
      ELSE ~ReceiveDataIO.load[text].ok
  BY <1>1, <1>2
<1> QED
  BY <1>1, <1>3 DEF str_to_struct, text

(* Every number of an order is finite: the desk takes its time stamp from  *)
(* telemetry that it has read.                                             *)
LEMMA OrderIsLegible ==
  ASSUME NEW msg \in SendMsgs
  PROVE  Legible(SendMsgIO.save[msg])
<1> DEFINE m == SendMsgMembers
           codecs == Codecs(SendMsgMembers)
           values == Values(SendMsgMembers, msg)
<1>1. msg \in StellaSocketSendMsg /\ msg.timestamp # NaN
  BY MessagesAssumption
<1>2. IsRow(codecs, values) /\ Len(codecs) = Len(m)
  BY <1>1, SendMsgLists, StructRow
<1>3. /\ Len(m) = 12 /\ DOMAIN m = 1..12
      /\ m[1].name = "timestamp" /\ m[1].codec = DoubleIO
      /\ m[6].name = "stop_enable_status" /\ m[6].codec = Vector(FlagIO)
      /\ \A i \in 1..12 \ {1, 6} : m[i].codec \in {IntegerIO, TextIO, FlagIO}
  <2>1. /\ Len(m) = 12 /\ DOMAIN m = 1..12
        /\ m[1].name = "timestamp" /\ m[6].name = "stop_enable_status"
        /\ m[1].codec = DoubleIO /\ m[2].codec = IntegerIO /\ m[3].codec = TextIO
        /\ m[4].codec = TextIO /\ m[5].codec = IntegerIO /\ m[6].codec = Vector(FlagIO)
        /\ m[7].codec = FlagIO /\ m[8].codec = FlagIO /\ m[9].codec = FlagIO
        /\ m[10].codec = FlagIO /\ m[11].codec = FlagIO /\ m[12].codec = IntegerIO
    BY DEF SendMsgMembers, Member
  <2> HIDE DEF m
  <2>2. \A i \in 1..12 \ {1, 6} : \/ i = 2 \/ i = 3 \/ i = 4 \/ i = 5 \/ i = 7 \/ i = 8
                                  \/ i = 9 \/ i = 10 \/ i = 11 \/ i = 12
    OBVIOUS
  <2>3. ASSUME NEW i \in 1..12 \ {1, 6} PROVE m[i].codec \in {IntegerIO, TextIO, FlagIO}
    BY <2>1, <2>2
  <2> QED
    BY <2>1, <2>3
<1>4. ASSUME NEW c \in {DoubleIO, IntegerIO, TextIO, FlagIO}, NEW x \in c.type, x # NaN
      PROVE  Legible(c.save[x])
  <2>1. c.save[x] = <<x>> /\ x \in Token
    BY DEF DoubleIO, IntegerIO, TextIO, FlagIO, Scalar, Double, Integer, Text, Flag, Token
  <2> QED
    BY <1>4, <2>1, OneToken
<1>5. ASSUME NEW i \in 1..12 PROVE Legible(codecs[i].save[values[i]])
  <2> HIDE DEF m
  <2>1. codecs[i] = m[i].codec /\ values[i] = msg[m[i].name]
    BY <1>3 DEF Codecs, Values, m
  <2>2. values[i] \in codecs[i].type
    BY <1>2, <1>3 DEF IsRow
  <2> HIDE DEF codecs, values
  <2>3. CASE i = 1
    <3>1. codecs[i] = DoubleIO /\ values[i] # NaN
      BY <1>1, <1>3, <2>1, <2>3
    <3> QED
      BY <3>1, <2>2, <1>4
  <2>4. CASE i = 6
    <3>1. codecs[i] = Vector(FlagIO) /\ values[i] \in Seq(Flag)
      BY <1>1, <1>3, <2>1, <2>4 DEF StellaSocketSendMsg
    <3> QED
      BY <3>1, FlagsText
  <2>5. CASE i \notin {1, 6}
    <3>1. codecs[i] \in {IntegerIO, TextIO, FlagIO}
      BY <1>3, <2>1, <2>5
    <3>2. values[i] # NaN
      BY <3>1, <2>2, Scalars DEF Integer, Text, Flag, NaN
    <3> QED
      BY <3>1, <3>2, <2>2, <1>4
  <2> QED
    BY <2>3, <2>4, <2>5
<1>6. Legible(Row(codecs, values))
  <2>1. Len(codecs) = 12
    BY <1>2, <1>3
  <2>2. \A i \in 1..Len(codecs) : Legible(codecs[i].save[values[i]])
    BY <2>1, <1>5
  <2> QED
    BY <2>2, <1>2, RowLegible
<1>7. SendMsgIO.save[msg] = Row(codecs, values)
  BY <1>1 DEF SendMsgIO, Struct
<1> QED
  BY <1>6, <1>7

(* What the vehicle reads of an order.                                     *)
LEMMA OrderIsRead ==
  ASSUME NEW msg \in SendMsgs
  PROVE  LET text == struct_to_char(msg)
         IN text # <<>> /\ SendMsgIO.load[text].value = msg
<1> DEFINE text == SendMsgIO.save[msg]
<1>1. msg \in StellaSocketSendMsg /\ Legible(text)
  BY MessagesAssumption, OrderIsLegible
<1>2. /\ text \in Texts /\ text # <<>>
      /\ \A rest \in Texts : SendMsgIO.load[text \o rest] = Read(msg, rest)
  BY <1>1, SendMsgCodec DEF IsCodec, Saves, Whole
<1>3. text = struct_to_char(msg)
  BY DEF struct_to_char
<1> HIDE DEF text
<1>4. <<>> \in Texts /\ text \o <<>> = text
  BY <1>2, EmptySeq, ConcatEmptySeq DEF Texts
<1>5. SendMsgIO.load[text] = Read(msg, <<>>)
  BY <1>2, <1>4
<1> QED
  BY <1>2, <1>3, <1>5 DEF Read

-----------------------------------------------------------------------------
(* The inductive invariant: what is on its way is what somebody sent, or   *)
(* what is left of it, and what has been read was sent as it is.           *)
FrameIsTold ==
  frame # <<>> =>
    /\ told \in ReceiveDatas
    /\ ~damaged => frame = ReceiveDataIO.save[told]
    /\ damaged => frame \in Cuts(ReceiveDataIO.save[told]) \cup {struct_to_str(SendData)}
DatagramIsSent ==
  /\ send_msg \in SendMsgs \cup {None}
  /\ datagram # <<>> => \E msg \in SendMsgs : datagram = struct_to_char(msg)
SessionIsKnown == session \in {"open", "closing", "closed"}
ArchiveInv ==
  /\ SessionIsKnown
  /\ FrameIsTold /\ DatagramIsSent /\ StoredIsWhole /\ OrderIsWhole

(* What Receive makes of the frame that is there.                          *)
LEMMA FrameRead ==
  ASSUME FrameIsTold, frame # <<>>
  PROVE  /\ told \in ReceiveDatas
         /\ Readable => str_to_struct(frame) = Read(told, <<>>)
         /\ ~Readable => ~str_to_struct(frame).ok
<1>1. told \in ReceiveDatas /\ told \in StellaSocketReceiveData
  BY MessagesAssumption DEF FrameIsTold
<1>2. CASE damaged
  <2>1. ~str_to_struct(frame).ok
    BY <1>1, <1>2, BrokenIsNotRead DEF FrameIsTold
  <2> QED
    BY <1>1, <1>2, <2>1 DEF Readable
<1>3. CASE ~damaged
  <2>1. frame = ReceiveDataIO.save[told]
    BY <1>3 DEF FrameIsTold
  <2>2. /\ frame \in Texts
        /\ IF Legible(frame) THEN str_to_struct(frame) = Read(told, <<>>)
           ELSE ~str_to_struct(frame).ok
    BY <1>1, <2>1, WholeIsRead
  <2>3. DOMAIN frame = 1..Len(frame)
    BY <2>2, LenProperties DEF Texts
  <2>4. Readable <=> Legible(frame)
    BY <1>3, <2>3 DEF Readable, Legible
  <2> QED
    BY <1>1, <2>2, <2>4
<1> QED
  BY <1>2, <1>3

(* The invariant holds at first, and every action preserves it.            *)
LEMMA ArchiveInit == Init => ArchiveInv
BY DEF Init, ArchiveInv, SessionIsKnown, FrameIsTold, DatagramIsSent, StoredIsWhole, OrderIsWhole

LEMMA ServerSendsInv ==
  ASSUME ArchiveInv, NEW data \in ReceiveDatas, ServerSends(data)
  PROVE  ArchiveInv' /\ frame' # <<>>
<1>1. frame' = ReceiveDataIO.save[data] /\ told' = data /\ damaged' = FALSE
  BY DEF ServerSends
<1>2. frame' # <<>>
  BY <1>1, WholeIsRead, MessagesAssumption
<1>3. FrameIsTold'
  BY <1>1 DEF FrameIsTold
<1>4. SessionIsKnown' /\ DatagramIsSent' /\ StoredIsWhole' /\ OrderIsWhole'
  BY DEF ArchiveInv, SessionIsKnown, DatagramIsSent, StoredIsWhole, OrderIsWhole, ServerSends
<1> QED
  BY <1>2, <1>3, <1>4 DEF ArchiveInv

LEMMA DamageInv ==
  ASSUME ArchiveInv, Damage
  PROVE  ArchiveInv' /\ frame' # <<>>
<1>1. /\ frame # <<>> /\ ~damaged /\ damaged' = TRUE /\ told' = told
      /\ frame' \in Cuts(frame) \cup {struct_to_str(SendData)}
  BY DEF Damage
<1>2. told \in ReceiveDatas /\ frame = ReceiveDataIO.save[told]
  BY <1>1 DEF ArchiveInv, FrameIsTold
<1>3. frame' # <<>>
  BY <1>1, <1>2, BrokenIsNotRead, MessagesAssumption
<1>4. FrameIsTold'
  BY <1>1, <1>2 DEF FrameIsTold
<1>5. SessionIsKnown' /\ DatagramIsSent' /\ StoredIsWhole' /\ OrderIsWhole'
  BY DEF ArchiveInv, SessionIsKnown, DatagramIsSent, StoredIsWhole, OrderIsWhole, Damage
<1> QED
  BY <1>3, <1>4, <1>5 DEF ArchiveInv

LEMMA ReceiveInv ==
  ASSUME ArchiveInv, Receive
  PROVE  /\ ArchiveInv'
         /\ Readable => /\ session = "open" => session' = "open"
                        /\ told.command = normal => m_receive_data' = told
         /\ ~Readable => session' # "open" /\ m_receive_data' = m_receive_data
<1> DEFINE r == str_to_struct(frame)
<1>1. /\ frame # <<>> /\ frame' = <<>>
      /\ session' = (IF session = "closing" THEN "closed" ELSE IF r.ok THEN "open" ELSE "closing")
      /\ m_receive_data' = IF r.ok /\ r.value.command = normal THEN r.value ELSE m_receive_data
  BY DEF Receive, Stored, After
<1>2. /\ told \in ReceiveDatas
      /\ Readable => r = Read(told, <<>>)
      /\ ~Readable => ~r.ok
  BY <1>1, FrameRead DEF ArchiveInv
<1> HIDE DEF r
<1>3. Readable => r.ok = TRUE /\ r.value = told
  BY <1>2 DEF Read
<1>4. /\ Readable => /\ session = "open" => session' = "open"
                     /\ told.command = normal => m_receive_data' = told
      /\ ~Readable => session' # "open" /\ m_receive_data' = m_receive_data
  BY <1>1, <1>2, <1>3
<1>5. StoredIsWhole'
  BY <1>1, <1>2, <1>3 DEF ArchiveInv, StoredIsWhole
<1>6. FrameIsTold'
  BY <1>1 DEF FrameIsTold
<1>7. SessionIsKnown' /\ DatagramIsSent' /\ OrderIsWhole'
  BY <1>1 DEF ArchiveInv, SessionIsKnown, DatagramIsSent, OrderIsWhole, Receive
<1> QED
  BY <1>4, <1>5, <1>6, <1>7 DEF ArchiveInv

LEMMA HandleCloseInv ==
  ASSUME ArchiveInv, HandleClose
  PROVE  ArchiveInv' /\ frame' = frame
BY DEF ArchiveInv, SessionIsKnown, FrameIsTold, DatagramIsSent, StoredIsWhole, OrderIsWhole, HandleClose

LEMMA SendToStructInv ==
  ASSUME ArchiveInv, NEW msg \in SendMsgs, SendToStruct(msg)
  PROVE  ArchiveInv' /\ frame' = frame
BY DEF ArchiveInv, SessionIsKnown, FrameIsTold, DatagramIsSent, StoredIsWhole, OrderIsWhole, SendToStruct

LEMMA SenderTurnInv ==
  ASSUME ArchiveInv, SenderTurn
  PROVE  ArchiveInv' /\ frame' = frame
<1>1. send_msg \in SendMsgs /\ datagram' = struct_to_char(send_msg) /\ send_msg' = send_msg
  BY DEF ArchiveInv, DatagramIsSent, SenderTurn
<1>2. DatagramIsSent'
  BY <1>1 DEF DatagramIsSent
<1>3. frame' = frame /\ SessionIsKnown' /\ FrameIsTold' /\ StoredIsWhole' /\ OrderIsWhole'
  BY DEF ArchiveInv, SessionIsKnown, FrameIsTold, StoredIsWhole, OrderIsWhole, SenderTurn
<1> QED
  BY <1>2, <1>3 DEF ArchiveInv

LEMMA VehicleReadsInv ==
  ASSUME ArchiveInv, VehicleReads
  PROVE  ArchiveInv' /\ frame' = frame
<1>1. PICK msg \in SendMsgs : datagram = struct_to_char(msg)
  BY DEF ArchiveInv, DatagramIsSent, VehicleReads
<1>2. order' \in {order, msg}
  BY <1>1, OrderIsRead DEF VehicleReads
<1>3. OrderIsWhole'
  BY <1>2 DEF ArchiveInv, OrderIsWhole
<1>4. frame' = frame /\ SessionIsKnown' /\ FrameIsTold' /\ DatagramIsSent' /\ StoredIsWhole'
  BY DEF ArchiveInv, SessionIsKnown, FrameIsTold, DatagramIsSent, StoredIsWhole, VehicleReads
<1> QED
  BY <1>3, <1>4 DEF ArchiveInv

(* Every step preserves it; and only Receive takes a frame.                *)
LEMMA ArchiveStep ==
  ASSUME ArchiveInv, [Next]_vars
  PROVE  ArchiveInv' /\ (Taken => Receive)
<1>1. CASE \E data \in ReceiveDatas : ServerSends(data)
  BY <1>1, ServerSendsInv DEF Taken
<1>2. CASE Damage
  BY <1>2, DamageInv DEF Taken
<1>3. CASE Receive
  BY <1>3, ReceiveInv
<1>4. CASE \E msg \in SendMsgs : SendToStruct(msg)
  BY <1>4, SendToStructInv DEF Taken
<1>5. CASE SenderTurn
  BY <1>5, SenderTurnInv DEF Taken
<1>6. CASE VehicleReads
  BY <1>6, VehicleReadsInv DEF Taken
<1>7. CASE HandleClose
  BY <1>7, HandleCloseInv DEF Taken
<1>8. CASE UNCHANGED vars
  BY <1>8 DEF vars, ArchiveInv, SessionIsKnown, FrameIsTold, DatagramIsSent, StoredIsWhole, OrderIsWhole, Taken
<1> QED
  BY <1>1, <1>2, <1>3, <1>4, <1>5, <1>6, <1>7, <1>8 DEF Next

(* It is an invariant.                                                     *)
LEMMA ArchiveInvariant == Spec => []ArchiveInv
<1>1. ArchiveInv /\ [Next]_vars => ArchiveInv'
  BY ArchiveStep
<1> QED
  BY <1>1, ArchiveInit, PTL DEF Spec

(* What the client holds is a message the server sent, every member of it, *)
(* or what the constructor left: handle_read_data stores nothing that has  *)
(* been read in part.                                                      *)
THEOREM StoredIsWholeCorrect == Spec => []StoredIsWhole
<1>1. ArchiveInv => StoredIsWhole
  BY DEF ArchiveInv
<1> QED
  BY <1>1, ArchiveInvariant, PTL

(* What the vehicle reads of a datagram is an order that was emitted, every *)
(* member of it.                                                            *)
THEOREM OrderIsWholeCorrect == Spec => []OrderIsWhole
<1>1. ArchiveInv => OrderIsWhole
  BY DEF ArchiveInv
<1> QED
  BY <1>1, ArchiveInvariant, PTL

(* A frame that arrives whole is stored as the server built it, and an     *)
(* open session stays open.                                                *)
THEOREM WholeFramesArriveCorrect == Spec => WholeFramesArrive
<1>1. ArchiveInv /\ [Next]_vars =>
        [Taken /\ Readable =>
           /\ session = "open" => session' = "open"
           /\ told.command = normal => m_receive_data' = told]_vars
  BY ArchiveStep, ReceiveInv
<1> QED
  BY <1>1, ArchiveInvariant, PTL DEF Spec, WholeFramesArrive

(* A frame that is cut anywhere, is the client's own answer, or holds a    *)
(* number that is not finite is not stored and ends the session.           *)
THEOREM BrokenFramesEndSessionCorrect == Spec => BrokenFramesEndSession
<1>1. ArchiveInv /\ [Next]_vars =>
        [Taken /\ ~Readable => session' # "open" /\ m_receive_data' = m_receive_data]_vars
  BY ArchiveStep, ReceiveInv
<1> QED
  BY <1>1, ArchiveInvariant, PTL DEF Spec, BrokenFramesEndSession

-----------------------------------------------------------------------------
(* The archives implement links of messages, action by action.  What the   *)
(* link sees of a state: its line, and the order in its air.               *)
Finite == {data \in ReceiveDatas :
             LET text == ReceiveDataIO.save[data]
             IN \A i \in DOMAIN text : text[i] # NaN}
Air == IF datagram = <<>> THEN <<>> ELSE <<SendMsgIO.load[datagram].value>>

(* The frames and the session, or the orders, are left alone.              *)
LEMMA LineStays ==
  ASSUME UNCHANGED <<frame, damaged>>
  PROVE  Line' = Line
BY DEF Line, Readable

LEMMA AirStays ==
  ASSUME UNCHANGED datagram
  PROVE  Air' = Air
BY DEF Air

(* A message is sent: the line is whole when a text can carry it.          *)
LEMMA ServerSendsSends ==
  ASSUME ArchiveInv, NEW data \in ReceiveDatas, ServerSends(data)
  PROVE  Carrier!Send(data)
<1>1. /\ session # "closed" /\ frame = <<>> /\ told' = data
      /\ frame' = ReceiveDataIO.save[data] /\ damaged' = FALSE
      /\ session' = session /\ m_receive_data' = m_receive_data
      /\ send_msg' = send_msg /\ order' = order /\ datagram' = datagram
  BY DEF ServerSends
<1>2. frame' # <<>>
  BY ServerSendsInv
<1>3. Line = "free"
  BY <1>1 DEF Line
<1>4. data \in Finite <=> \A i \in DOMAIN frame' : frame'[i] # NaN
  BY <1>1 DEF Finite
<1>5. Line' = IF data \in Finite THEN "whole" ELSE "broken"
  BY <1>1, <1>2, <1>4 DEF Line, Readable
<1>6. Air' = Air
  BY <1>1, AirStays
<1> QED
  BY <1>1, <1>3, <1>5, <1>6 DEF Carrier!Send, Finite, Air

(* A line breaks once: a message with a number that is not finite was      *)
(* broken before.                                                          *)
LEMMA DamageBreaks ==
  ASSUME ArchiveInv, Damage
  PROVE  Carrier!Break \/ UNCHANGED Carrier!linkVars
<1>1. /\ frame # <<>> /\ damaged' = TRUE /\ told' = told
      /\ session' = session /\ m_receive_data' = m_receive_data
      /\ send_msg' = send_msg /\ order' = order /\ datagram' = datagram
  BY DEF Damage
<1>2. frame' # <<>>
  BY DamageInv
<1>3. Line' = "broken" /\ Line \in {"whole", "broken"}
  BY <1>1, <1>2 DEF Line, Readable
<1>4. Air' = Air
  BY <1>1, AirStays
<1>5. CASE Line = "whole"
  BY <1>1, <1>3, <1>4, <1>5 DEF Carrier!Break, Air
<1>6. CASE Line = "broken"
  BY <1>1, <1>3, <1>4, <1>6 DEF Carrier!linkVars, Air
<1> QED
  BY <1>3, <1>5, <1>6

(* A message arrives as it is, or the session ends.                        *)
LEMMA ReceiveArrives ==
  ASSUME ArchiveInv, Receive
  PROVE  Carrier!Arrive \/ Carrier!Fail
<1> DEFINE r == str_to_struct(frame)
           Normal == {data \in ReceiveDatas : data.command = normal}
<1>1. /\ session # "closed" /\ frame # <<>> /\ frame' = <<>> /\ told' = told
      /\ session' = (IF session = "closing" THEN "closed" ELSE IF r.ok THEN "open" ELSE "closing")
      /\ m_receive_data' = IF r.ok /\ r.value.command = normal THEN r.value ELSE m_receive_data
      /\ send_msg' = send_msg /\ order' = order /\ datagram' = datagram
  BY DEF Receive, Stored, After
<1>2. /\ told \in ReceiveDatas
      /\ Readable => r = Read(told, <<>>)
      /\ ~Readable => ~r.ok
  BY <1>1, FrameRead DEF ArchiveInv
<1> HIDE DEF r
<1>3. Line' = "free" /\ Air' = Air
  BY <1>1, AirStays DEF Line
<1>4. session \in {"open", "closing"}
  BY <1>1 DEF ArchiveInv, SessionIsKnown
<1>5. CASE Readable
  <2>1. r.ok = TRUE /\ r.value = told
    BY <1>2, <1>5 DEF Read
  <2>2. Line = "whole" /\ session' = IF session = "open" THEN "open" ELSE "closed"
    BY <1>1, <1>5, <1>4, <2>1 DEF Line
  <2>3. m_receive_data' = IF told \in Normal THEN told ELSE m_receive_data
    BY <1>1, <1>2, <2>1
  <2> QED
    BY <1>1, <1>3, <2>2, <2>3 DEF Carrier!Arrive, Air
<1>6. CASE ~Readable
  <2>1. /\ Line = "broken" /\ m_receive_data' = m_receive_data
        /\ session' = IF session = "open" THEN "closing" ELSE "closed"
    BY <1>1, <1>2, <1>6, <1>4 DEF Line
  <2> QED
    BY <1>1, <1>3, <2>1 DEF Carrier!Fail, Air
<1> QED
  BY <1>5, <1>6

(* The session is closed, whatever is on the line.                         *)
LEMMA HandleCloseCloses ==
  ASSUME HandleClose
  PROVE  Carrier!Close
<1>1. /\ session = "closing" /\ session' = "closed"
      /\ frame' = frame /\ told' = told /\ damaged' = damaged /\ m_receive_data' = m_receive_data
      /\ order' = order /\ datagram' = datagram /\ send_msg' = send_msg
  BY DEF HandleClose
<1>2. Line' = Line /\ Air' = Air
  BY <1>1, LineStays, AirStays
<1> QED
  BY <1>1, <1>2 DEF Carrier!Close, Air

(* An order is given, and repeated as it is in force.                      *)
LEMMA SendToStructGives ==
  ASSUME NEW msg \in SendMsgs, SendToStruct(msg)
  PROVE  Carrier!Give(msg)
<1>1. /\ send_msg' = msg /\ frame' = frame /\ told' = told /\ damaged' = damaged
      /\ session' = session /\ m_receive_data' = m_receive_data
      /\ order' = order /\ datagram' = datagram
  BY DEF SendToStruct
<1>2. Line' = Line /\ Air' = Air
  BY <1>1, LineStays, AirStays
<1> QED
  BY <1>1, <1>2 DEF Carrier!Give, Air

LEMMA SenderTurnRepeats ==
  ASSUME ArchiveInv, SenderTurn
  PROVE  Carrier!Repeat
<1>1. /\ send_msg # None /\ datagram = <<>> /\ datagram' = struct_to_char(send_msg)
      /\ frame' = frame /\ told' = told /\ damaged' = damaged
      /\ session' = session /\ m_receive_data' = m_receive_data
      /\ order' = order /\ send_msg' = send_msg
  BY DEF SenderTurn
<1>2. send_msg \in SendMsgs
  BY <1>1 DEF ArchiveInv, DatagramIsSent
<1>3. datagram' # <<>> /\ SendMsgIO.load[datagram'].value = send_msg
  BY <1>1, <1>2, OrderIsRead
<1>4. Line' = Line
  BY <1>1, LineStays
<1>5. Air = <<>> /\ Air' = <<send_msg>>
  BY <1>1, <1>3 DEF Air
<1> QED
  BY <1>1, <1>4, <1>5 DEF Carrier!Repeat, Air

LEMMA VehicleReadsHears ==
  ASSUME VehicleReads
  PROVE  Carrier!Hear
<1>1. /\ datagram # <<>> /\ datagram' = <<>>
      /\ order' \in {order, SendMsgIO.load[datagram].value}
      /\ frame' = frame /\ told' = told /\ damaged' = damaged
      /\ session' = session /\ m_receive_data' = m_receive_data /\ send_msg' = send_msg
  BY DEF VehicleReads
<1>2. Line' = Line
  BY <1>1, LineStays
<1>3. Air' = <<>> /\ Air # <<>> /\ Head(Air) = SendMsgIO.load[datagram].value
  BY <1>1 DEF Air
<1> QED
  BY <1>1, <1>2, <1>3 DEF Carrier!Hear, Air

(* Nobody who sends or reads a message can tell the archives from a line   *)
(* that carries whole messages or breaks: serialize() lists every member,  *)
(* in one order for both directions, and what has been read in part is     *)
(* never used.                                                             *)
THEOREM MessagesCarriedCorrect == Spec => MessagesCarried
<1>1. Init => Carrier!LinkInit
  BY DEF Init, Carrier!LinkInit, Line
<1>2. ArchiveInv /\ [Next]_vars => [Carrier!LinkNext]_(Carrier!linkVars)
  <2> SUFFICES ASSUME ArchiveInv, [Next]_vars
               PROVE  Carrier!LinkNext \/ UNCHANGED Carrier!linkVars
    OBVIOUS
  <2>1. CASE \E data \in ReceiveDatas : ServerSends(data)
    BY <2>1, ServerSendsSends DEF Carrier!LinkNext
  <2>2. CASE Damage
    BY <2>2, DamageBreaks DEF Carrier!LinkNext
  <2>3. CASE Receive
    BY <2>3, ReceiveArrives DEF Carrier!LinkNext
  <2>4. CASE \E msg \in SendMsgs : SendToStruct(msg)
    BY <2>4, SendToStructGives DEF Carrier!LinkNext
  <2>5. CASE SenderTurn
    BY <2>5, SenderTurnRepeats DEF Carrier!LinkNext
  <2>6. CASE VehicleReads
    BY <2>6, VehicleReadsHears DEF Carrier!LinkNext
  <2>7. CASE HandleClose
    BY <2>7, HandleCloseCloses DEF Carrier!LinkNext
  <2>8. CASE UNCHANGED vars
    <3>1. UNCHANGED <<frame, told, damaged, session, m_receive_data, datagram, order, send_msg>>
      BY <2>8 DEF vars
    <3>2. Line' = Line /\ Air' = Air
      BY <3>1, LineStays, AirStays
    <3> QED
      BY <3>1, <3>2 DEF Carrier!linkVars, Air
  <2> QED
    BY <2>1, <2>2, <2>3, <2>4, <2>5, <2>6, <2>7, <2>8 DEF Next
<1> QED
  BY <1>1, <1>2, ArchiveInvariant, PTL DEF Spec, MessagesCarried, Carrier!LinkSpec
=============================================================================
