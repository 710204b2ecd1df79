--------------------------- MODULE PreTradeProofs ---------------------------
(***************************************************************************)
(* Proofs about what stands between a signal and an order: Sizing, for     *)
(* every set of accounts, signals and series of bars and every number of   *)
(* calls, kills and failed reads and writes; and the quality gate of       *)
(* Quality, for every set of bars and days.                                *)
(***************************************************************************)
EXTENDS Sizing, Quality, FiniteSetTheorems, SequenceTheorems, WellFoundedInduction, TLAPS

-----------------------------------------------------------------------------
(* The audit file.                                                           *)

Increasing(s) == \A k, l \in DOMAIN s : k < l => s[k] < s[l]
Below(s, n) == \A k \in DOMAIN s : s[k] < n
Files == [lines : Seq(Nat), partial : BOOLEAN]

AuditTypeOK ==
    /\ calls \in Nat \ {0}
    /\ pc \in {"sized", "read", "open", "write", "replace", "idle"}
    /\ file \in Files /\ tmp \in Files /\ existing \in Seq(Nat)

\* The file's records are those of earlier calls, and of this one only after
\* the rename; what was read is the file, unless a read failed; what is renamed
\* is what was read with one record more.
FileInv ==
    /\ Increasing(file.lines) /\ Below(file.lines, calls + 1)
    /\ pc # "idle" => Below(file.lines, calls)
    /\ pc \in {"open", "write", "replace"} =>
          /\ Increasing(existing) /\ Below(existing, calls)
          /\ ~unread => existing = file.lines
    /\ pc = "replace" => tmp = [lines |-> Append(existing, calls), partial |-> FALSE]

RecordsInv ==
    /\ file.partial => file \in Inherited
    /\ ~unread => returned \subseteq ToSet(file.lines)

AuditInv == AuditTypeOK /\ FileInv /\ RecordsInv

\* Adding the newest record keeps the order and every record.
LEMMA AppendRecord ==
    ASSUME NEW s \in Seq(Nat), NEW n \in Nat, Increasing(s), Below(s, n)
    PROVE  /\ Append(s, n) \in Seq(Nat) /\ Increasing(Append(s, n)) /\ Below(Append(s, n), n + 1)
           /\ ToSet(s) \cup {n} \subseteq ToSet(Append(s, n))
<1> DEFINE t == Append(s, n)
<1>1. t \in Seq(Nat) /\ Len(t) = Len(s) + 1 /\ Len(s) \in Nat
  OBVIOUS
<1>2. DOMAIN s = 1..Len(s) /\ DOMAIN t = 1..Len(s) + 1
  BY <1>1
<1>3. \A k \in DOMAIN s : t[k] = s[k] /\ t[k] \in Nat
  BY <1>2
<1>4. t[Len(s) + 1] = n
  OBVIOUS
<1> HIDE DEF t
<1>5. ASSUME NEW k \in DOMAIN t, NEW l \in DOMAIN t, k < l PROVE t[k] < t[l]
  <2>1. k \in DOMAIN s
    BY <1>1, <1>2, <1>5
  <2>2. CASE l \in DOMAIN s
    BY <2>1, <2>2, <1>3, <1>5 DEF Increasing
  <2>3. CASE l = Len(s) + 1
    BY <2>1, <2>3, <1>3, <1>4 DEF Below
  <2>4. QED
    BY <2>2, <2>3, <1>1, <1>2
<1>6. ASSUME NEW k \in DOMAIN t PROVE t[k] < n + 1
  <2>1. CASE k \in DOMAIN s
    BY <2>1, <1>3 DEF Below
  <2>2. CASE k = Len(s) + 1
    BY <2>2, <1>4
  <2>3. QED
    BY <2>1, <2>2, <1>1, <1>2
<1>7. ToSet(s) \cup {n} \subseteq ToSet(t)
  <2>1. DOMAIN s \subseteq DOMAIN t /\ Len(s) + 1 \in DOMAIN t
    BY <1>1, <1>2
  <2>2. n \in ToSet(t)
    BY <2>1, <1>4 DEF ToSet
  <2>3. ToSet(s) \subseteq ToSet(t)
    BY <2>1, <1>3 DEF ToSet
  <2>4. QED
    BY <2>2, <2>3
<1>8. QED
  BY <1>1, <1>5, <1>6, <1>7 DEF Increasing, Below, t

LEMMA InitAudit == Init => AuditInv
<1> SUFFICES ASSUME Init PROVE AuditInv
  OBVIOUS
<1>1. /\ calls = 1 /\ pc = "sized" /\ file \in Inherited /\ tmp = Absent
      /\ existing = <<>> /\ returned = ToSet(file.lines) /\ unread = FALSE
  BY DEF Init
<1>2. Absent \in Files /\ Absent.lines = <<>>
  BY DEF Absent, Files
<1>3. Inherited \subseteq Files
  <2>1. <<0>> \in Seq(Nat)
    OBVIOUS
  <2>2. \A p \in BOOLEAN : [lines |-> <<0>>, partial |-> p] \in Files
    BY <2>1 DEF Files
  <2>3. QED
    BY <1>2, <2>2 DEF Inherited
<1>4. file.lines = <<>> \/ file.lines = <<0>>
  BY <1>1, <1>2 DEF Inherited
<1>5. Increasing(file.lines) /\ Below(file.lines, 1) /\ Below(file.lines, 2)
  BY <1>4 DEF Increasing, Below
<1>6. AuditTypeOK
  BY <1>1, <1>2, <1>3 DEF AuditTypeOK
<1>7. FileInv
  BY <1>1, <1>5 DEF FileInv
<1>8. RecordsInv
  BY <1>1 DEF RecordsInv
<1>9. QED
  BY <1>6, <1>7, <1>8 DEF AuditInv

LEMMA NextAudit == AuditInv /\ [Next]_vars => AuditInv'
<1> SUFFICES ASSUME AuditInv, [Next]_vars PROVE AuditInv'
  OBVIOUS
<1> USE DEF AuditInv
<1>0. Absent \in Files
  BY DEF Absent, Files
<1>1. CASE Hook
  <2>1. /\ pc = "sized" /\ pc' = "read"
        /\ UNCHANGED <<calls, file, tmp, existing, returned, unread>>
    BY <1>1 DEF Hook
  <2>2. QED
    BY <2>1 DEF AuditTypeOK, FileInv, RecordsInv, Increasing, Below
<1>2. CASE Read
  <2>1. /\ pc = "read" /\ pc' = "open" /\ existing' = file.lines
        /\ UNCHANGED <<calls, file, tmp, returned, unread>>
    BY <1>2 DEF Read
  <2>2. AuditTypeOK'
    BY <2>1 DEF AuditTypeOK, Files
  <2>3. QED
    BY <2>1, <2>2 DEF FileInv, RecordsInv, Increasing, Below
<1>3. CASE ReadFails
  <2>1. /\ pc = "read" /\ pc' = "open" /\ existing' = <<>> /\ unread' = TRUE
        /\ UNCHANGED <<calls, file, tmp, returned>>
    BY <1>3 DEF ReadFails
  <2>2. AuditTypeOK'
    BY <2>1 DEF AuditTypeOK
  <2>3. Increasing(existing') /\ Below(existing', calls')
    BY <2>1 DEF Increasing, Below
  <2>4. QED
    BY <2>1, <2>2, <2>3 DEF FileInv, RecordsInv, Increasing, Below
<1>4. CASE OpenTmp
  <2>1. /\ pc = "open" /\ pc' = "write" /\ tmp' = [lines |-> <<>>, partial |-> TRUE]
        /\ UNCHANGED <<calls, file, existing, returned, unread>>
    BY <1>4 DEF OpenTmp
  <2>2. AuditTypeOK'
    BY <2>1 DEF AuditTypeOK, Files
  <2>3. QED
    BY <2>1, <2>2 DEF FileInv, RecordsInv, Increasing, Below
<1>5. CASE WriteTmp
  <2>1. /\ pc = "write" /\ pc' = "replace"
        /\ tmp' = [lines |-> Append(existing, calls), partial |-> FALSE]
        /\ UNCHANGED <<calls, file, existing, returned, unread>>
    BY <1>5 DEF WriteTmp
  <2>2. Append(existing, calls) \in Seq(Nat)
    BY DEF AuditTypeOK
  <2>3. AuditTypeOK'
    BY <2>1, <2>2 DEF AuditTypeOK, Files
  <2>4. QED
    BY <2>1, <2>3 DEF FileInv, RecordsInv, Increasing, Below
<1>6. CASE Replace
  <2>1. /\ pc = "replace" /\ pc' = "idle" /\ file' = tmp /\ tmp' = Absent
        /\ returned' = returned \cup {calls} /\ UNCHANGED <<calls, existing, unread>>
    BY <1>6 DEF Replace
  <2>2. file' = [lines |-> Append(existing, calls), partial |-> FALSE]
    BY <2>1 DEF FileInv
  <2>3. file'.lines = Append(existing, calls) /\ file'.partial = FALSE
    BY <2>2
  <2>4. /\ Increasing(file'.lines) /\ Below(file'.lines, calls + 1)
        /\ ToSet(existing) \cup {calls} \subseteq ToSet(file'.lines)
    BY <2>1, <2>3, AppendRecord DEF AuditTypeOK, FileInv
  <2>5. AuditTypeOK'
    BY <2>1, <1>0 DEF AuditTypeOK
  <2>6. FileInv'
    BY <2>1, <2>4 DEF FileInv
  <2>7. ASSUME ~unread PROVE returned' \subseteq ToSet(file'.lines)
    BY <2>1, <2>4, <2>7 DEF FileInv, RecordsInv
  <2>8. RecordsInv'
    BY <2>1, <2>3, <2>7 DEF RecordsInv
  <2>9. QED
    BY <2>5, <2>6, <2>8
<1>7. CASE WriteFails
  <2>1. /\ pc' = "idle" /\ tmp' \in {tmp, Absent}
        /\ UNCHANGED <<calls, file, existing, returned, unread>>
    BY <1>7 DEF WriteFails
  <2>2. QED
    BY <2>1, <1>0 DEF AuditTypeOK, FileInv, RecordsInv, Increasing, Below
<1>8. CASE Kill
  <2>1. pc' = "idle" /\ UNCHANGED <<calls, file, tmp, existing, returned, unread>>
    BY <1>8 DEF Kill
  <2>2. QED
    BY <2>1 DEF AuditTypeOK, FileInv, RecordsInv, Increasing, Below
<1>9. CASE Call
  <2>1. /\ pc = "idle" /\ calls' = calls + 1 /\ pc' = "read" /\ existing' = <<>>
        /\ UNCHANGED <<file, tmp, returned, unread>>
    BY <1>9 DEF Call
  <2>2. AuditTypeOK'
    BY <2>1 DEF AuditTypeOK
  <2>3. Below(file.lines, calls + 1 + 1)
    <3>1. file.lines \in Seq(Nat) /\ calls \in Nat
      BY DEF AuditTypeOK, Files
    <3>2. \A k \in DOMAIN file.lines : file.lines[k] \in Nat
      BY <3>1
    <3>3. QED
      BY <3>1, <3>2 DEF FileInv, Below
  <2>4. FileInv'
    BY <2>1, <2>3 DEF FileInv
  <2>5. QED
    BY <2>1, <2>2, <2>4 DEF RecordsInv
<1>10. CASE UNCHANGED vars
  BY <1>10 DEF vars, AuditTypeOK, FileInv, RecordsInv, Increasing, Below
<1>11. QED
  BY <1>1, <1>2, <1>3, <1>4, <1>5, <1>6, <1>7, <1>8, <1>9, <1>10 DEF Next

\* Whatever the kills, the failed reads and the failed writes, and whatever file
\* the process started with, the audit file is whole lines in the order of the
\* calls and loses no record whose write_audit_jsonl returned, until a read of
\* the file fails and the code starts over.
THEOREM AuditSurvivesFaults == Spec => []AuditKeepsRecords
<1>1. Spec => []AuditInv
  BY InitAudit, NextAudit, PTL DEF Spec
<1>2. AuditInv => AuditKeepsRecords
  BY DEF AuditInv, FileInv, RecordsInv, AuditKeepsRecords, Increasing
<1>3. QED
  BY <1>1, <1>2, PTL

-----------------------------------------------------------------------------
(* Sums.  Total folds a function over its domain in an order nobody chooses: *)
(* it takes one index, adds its value, and goes on with the rest.            *)

Some(s) == CHOOSE x \in s : TRUE
Rest(s) == s \ {Some(s)}
Sums(g, f) == g = [s \in SUBSET DOMAIN f |-> IF s = {} THEN 0 ELSE f[Some(s)] + g[Rest(s)]]
SumOf(f) == CHOOSE g : Sums(g, f)

\* Total is the fold of the library, written out.
LEMMA TotalIsSum ==
    ASSUME NEW f
    PROVE  Total(f) = SumOf(f)[DOMAIN f]
  BY DEF Total, FoldSeq, FoldFunction, FoldFunctionOnSet, MapThenFoldSet, SumOf, Sums, Some, Rest

\* Every non-empty set of natural numbers has a least element.
LEMMA NatMin ==
    ASSUME NEW S, S \subseteq Nat, S # {}
    PROVE  \E m \in S : \A y \in S : m <= y
<1>1. PICK m \in S : \A y \in S : ~ (<<y, m>> \in OpToRel(<, Nat))
  BY NatLessThanWellFounded, WFMin
<1>2. ASSUME NEW y \in S PROVE m <= y
  <2>1. m \in Nat /\ y \in Nat
    OBVIOUS
  <2>2. ~ (y < m)
    BY <1>1, <2>1 DEF OpToRel
  <2>3. QED
    BY <2>1, <2>2
<1>3. QED
  BY <1>2

\* The rest of a set is smaller by one.
LEMMA RestSmaller ==
    ASSUME NEW D, IsFiniteSet(D), NEW s \in SUBSET D, s # {}
    PROVE  /\ Some(s) \in s /\ Rest(s) \in SUBSET D
           /\ Cardinality(s) \in Nat /\ Cardinality(Rest(s)) \in Nat
           /\ Cardinality(Rest(s)) = Cardinality(s) - 1
<1>1. Some(s) \in s
  BY DEF Some
<1>2. IsFiniteSet(s)
  BY FS_Subset
<1>3. IsFiniteSet(Rest(s)) /\ Cardinality(Rest(s)) = Cardinality(s) - 1
  BY <1>1, <1>2, FS_RemoveElement DEF Rest
<1>4. Cardinality(s) \in Nat /\ Cardinality(Rest(s)) \in Nat
  BY <1>2, <1>3, FS_CardinalityType
<1>5. QED
  BY <1>1, <1>3, <1>4 DEF Rest

\* A family of subsets that always has the rest of its members, but never the
\* empty set, has no members.
LEMMA NoDescent ==
    ASSUME NEW D, IsFiniteSet(D), NEW B, B \subseteq SUBSET D, {} \notin B,
           \A s \in B : Rest(s) \in B
    PROVE  B = {}
<1> SUFFICES ASSUME B # {} PROVE FALSE
  OBVIOUS
<1> DEFINE C == {Cardinality(s) : s \in B}
<1>1. \A s \in B : s \in SUBSET D /\ s # {}
  OBVIOUS
<1>2. C \subseteq Nat /\ C # {}
  BY <1>1, RestSmaller
<1>3. PICK c \in C : \A y \in C : c <= y
  <2> HIDE DEF C
  <2> QED
    BY <1>2, NatMin
<1>4. PICK s \in B : c = Cardinality(s)
  BY <1>3
<1>5. /\ Rest(s) \in B /\ Cardinality(s) \in Nat
      /\ Cardinality(Rest(s)) = Cardinality(s) - 1
  BY <1>1, RestSmaller
<1>6. c <= Cardinality(Rest(s))
  BY <1>3, <1>5
<1>7. QED
  BY <1>4, <1>5, <1>6

\* The sums over the subsets of at most n indices exist, for every n.
SumsUpTo(f, g, n) ==
    \A s \in SUBSET DOMAIN f :
        Cardinality(s) <= n => g[s] = IF s = {} THEN 0 ELSE f[Some(s)] + g[Rest(s)]

LEMMA SumsUpToExist ==
    ASSUME NEW D, IsFiniteSet(D), NEW f \in [D -> Int], NEW n \in Nat
    PROVE  \E g \in [SUBSET D -> Int] : SumsUpTo(f, g, n)
<1> DEFINE P(m) == \E g \in [SUBSET D -> Int] : SumsUpTo(f, g, m)
<1> DEFINE Bad == {m \in Nat : ~P(m)}
<1>1. ASSUME Bad # {} PROVE FALSE
  <2>1. PICK m \in Bad : \A y \in Bad : m <= y
    <3>1. Bad \subseteq Nat /\ Bad # {}
      BY <1>1
    <3> HIDE DEF Bad
    <3>2. QED
      BY <3>1, NatMin
  <2>2. m \in Nat /\ ~P(m)
    OBVIOUS
  <2>3. PICK g \in [SUBSET D -> Int] : \A k \in Nat : m = k + 1 => SumsUpTo(f, g, k)
    <3>1. CASE m = 0
      <4>1. [s \in SUBSET D |-> 0] \in [SUBSET D -> Int]
        OBVIOUS
      <4>2. \A k \in Nat : m # k + 1
        BY <3>1
      <4>3. PICK g \in [SUBSET D -> Int] : TRUE
        BY <4>1
      <4>4. QED
        BY <4>2, <4>3
    <3>2. CASE m # 0
      <4>1. m - 1 \in Nat /\ m - 1 \notin Bad
        <5> HIDE DEF Bad
        <5> QED
          BY <2>1, <2>2, <3>2
      <4>2. P(m - 1)
        BY <4>1
      <4>3. PICK g \in [SUBSET D -> Int] : SumsUpTo(f, g, m - 1)
        BY <4>2
      <4>4. \A k \in Nat : m = k + 1 => k = m - 1
        BY <2>2
      <4>5. QED
        BY <4>3, <4>4
    <3>3. QED
      BY <3>1, <3>2
  <2> DEFINE h == [s \in SUBSET D |-> IF s = {} THEN 0 ELSE f[Some(s)] + g[Rest(s)]]
  <2>4. ASSUME NEW s \in SUBSET D, s # {}
        PROVE  Some(s) \in D /\ Rest(s) \in SUBSET D
    BY <2>4, RestSmaller
  <2>5. h \in [SUBSET D -> Int]
    <3>1. ASSUME NEW s \in SUBSET D
          PROVE  (IF s = {} THEN 0 ELSE f[Some(s)] + g[Rest(s)]) \in Int
      BY <2>4
    <3>2. QED
      BY <3>1
  <2>6. ASSUME NEW s \in SUBSET D, Cardinality(s) <= m, s # {}
        PROVE  h[Rest(s)] = g[Rest(s)]
    <3>1. /\ Rest(s) \in SUBSET D /\ Cardinality(s) \in Nat
          /\ Cardinality(Rest(s)) \in Nat /\ Cardinality(Rest(s)) = Cardinality(s) - 1
      BY <2>6, RestSmaller
    <3>2. m - 1 \in Nat /\ m = (m - 1) + 1 /\ Cardinality(Rest(s)) <= m - 1
      BY <2>2, <2>6, <3>1
    <3>3. SumsUpTo(f, g, m - 1)
      BY <2>3, <3>2
    <3>4. g[Rest(s)] = IF Rest(s) = {} THEN 0 ELSE f[Some(Rest(s))] + g[Rest(Rest(s))]
      BY <3>1, <3>2, <3>3 DEF SumsUpTo
    <3>5. QED
      BY <3>1, <3>4
  <2>7. \A s \in SUBSET D : h[s] = IF s = {} THEN 0 ELSE f[Some(s)] + g[Rest(s)]
    OBVIOUS
  <2> HIDE DEF h
  <2>8. SumsUpTo(f, h, m)
    BY <2>6, <2>7 DEF SumsUpTo
  <2>9. QED
    BY <2>2, <2>5, <2>8
<1>2. QED
  BY <1>1

\* The sums of the subsets of a finite domain exist and are integers.
LEMMA SumOfEquation ==
    ASSUME NEW D, IsFiniteSet(D), NEW f \in [D -> Int]
    PROVE  /\ SumOf(f)[{}] = 0
           /\ \A s \in SUBSET D : s # {} => SumOf(f)[s] = f[Some(s)] + SumOf(f)[Rest(s)]
<1>1. Cardinality(D) \in Nat
  BY FS_CardinalityType
<1>2. PICK g \in [SUBSET D -> Int] : SumsUpTo(f, g, Cardinality(D))
  BY <1>1, SumsUpToExist
<1>3. ASSUME NEW s \in SUBSET D
      PROVE  g[s] = IF s = {} THEN 0 ELSE f[Some(s)] + g[Rest(s)]
  <2>1. Cardinality(s) <= Cardinality(D)
    BY FS_Subset
  <2>2. QED
    BY <1>2, <2>1 DEF SumsUpTo
<1>4. Sums(g, f)
  BY <1>3 DEF Sums
<1>5. Sums(SumOf(f), f)
  BY <1>4 DEF SumOf
<1>6. SumOf(f) = [s \in SUBSET D |-> IF s = {} THEN 0 ELSE f[Some(s)] + SumOf(f)[Rest(s)]]
  BY <1>5 DEF Sums
<1> HIDE DEF SumOf
<1>7. QED
  BY <1>6

LEMMA SumOfInt ==
    ASSUME NEW D, IsFiniteSet(D), NEW f \in [D -> Int]
    PROVE  \A s \in SUBSET D : SumOf(f)[s] \in Int
<1> DEFINE B == {s \in SUBSET D : SumOf(f)[s] \notin Int}
<1>1. {} \notin B
  BY SumOfEquation
<1>2. ASSUME NEW s \in B PROVE Rest(s) \in B
  <2>1. s \in SUBSET D /\ s # {}
    BY <1>1
  <2>2. Some(s) \in D /\ Rest(s) \in SUBSET D
    BY <2>1, RestSmaller
  <2>3. SumOf(f)[s] = f[Some(s)] + SumOf(f)[Rest(s)]
    BY <2>1, SumOfEquation
  <2>4. QED
    BY <2>2, <2>3
<1>3. B \subseteq SUBSET D
  OBVIOUS
<1>4. B = {}
  <2> HIDE DEF B
  <2> QED
    BY <1>1, <1>2, <1>3, NoDescent
<1>5. QED
  BY <1>4

\* A sum is an integer,
LEMMA TotalInt ==
    ASSUME NEW D, IsFiniteSet(D), NEW f \in [D -> Int]
    PROVE  Total(f) \in Int
  BY TotalIsSum, SumOfInt

\* it grows with its terms,
LEMMA TotalMonotone ==
    ASSUME NEW D, IsFiniteSet(D), NEW f \in [D -> Int], NEW g \in [D -> Int],
           \A k \in D : f[k] <= g[k]
    PROVE  Total(f) <= Total(g)
<1> DEFINE B == {s \in SUBSET D : ~(SumOf(f)[s] <= SumOf(g)[s])}
<1>1. {} \notin B
  BY SumOfEquation
<1>2. ASSUME NEW s \in B PROVE Rest(s) \in B
  <2>1. s \in SUBSET D /\ s # {}
    BY <1>1
  <2>2. Some(s) \in D /\ Rest(s) \in SUBSET D
    BY <2>1, RestSmaller
  <2>3. /\ SumOf(f)[s] = f[Some(s)] + SumOf(f)[Rest(s)]
        /\ SumOf(g)[s] = g[Some(s)] + SumOf(g)[Rest(s)]
    BY <2>1, SumOfEquation
  <2>4. SumOf(f)[Rest(s)] \in Int /\ SumOf(g)[Rest(s)] \in Int
    BY <2>2, SumOfInt
  <2>5. f[Some(s)] \in Int /\ g[Some(s)] \in Int /\ f[Some(s)] <= g[Some(s)]
    BY <2>2
  <2>6. ~(SumOf(f)[s] <= SumOf(g)[s])
    OBVIOUS
  <2>7. ~(SumOf(f)[Rest(s)] <= SumOf(g)[Rest(s)])
    BY <2>3, <2>4, <2>5, <2>6
  <2>8. QED
    BY <2>2, <2>7
<1>3. B \subseteq SUBSET D
  OBVIOUS
<1>4. B = {}
  <2> HIDE DEF B
  <2> QED
    BY <1>1, <1>2, <1>3, NoDescent
<1>5. SumOf(f)[D] <= SumOf(g)[D]
  BY <1>4
<1>6. QED
  BY <1>5, TotalIsSum

\* and it is positive when its terms are and there is one.
LEMMA TotalPositive ==
    ASSUME NEW D, IsFiniteSet(D), D # {}, NEW f \in [D -> Int], \A k \in D : f[k] > 0
    PROVE  Total(f) > 0
<1> DEFINE B == {s \in SUBSET D : ~(SumOf(f)[s] >= 0)}
<1>1. {} \notin B
  BY SumOfEquation
<1>2. ASSUME NEW s \in SUBSET D, s # {}
      PROVE  /\ Rest(s) \in SUBSET D /\ SumOf(f)[Rest(s)] \in Int
             /\ SumOf(f)[s] > SumOf(f)[Rest(s)]
  <2>1. Some(s) \in D /\ Rest(s) \in SUBSET D
    BY <1>2, RestSmaller
  <2>2. SumOf(f)[s] = f[Some(s)] + SumOf(f)[Rest(s)]
    BY <1>2, SumOfEquation
  <2>3. SumOf(f)[Rest(s)] \in Int
    BY <2>1, SumOfInt
  <2>4. f[Some(s)] \in Int /\ f[Some(s)] > 0
    BY <2>1
  <2>5. QED
    BY <2>1, <2>2, <2>3, <2>4
<1>3. ASSUME NEW s \in B PROVE Rest(s) \in B
  <2>1. s \in SUBSET D /\ s # {} /\ ~(SumOf(f)[s] >= 0)
    BY <1>1
  <2>2. SumOf(f)[s] \in Int
    BY <2>1, SumOfInt
  <2>3. QED
    BY <2>1, <2>2, <1>2
<1>4. B \subseteq SUBSET D
  OBVIOUS
<1>5. B = {}
  <2> HIDE DEF B
  <2> QED
    BY <1>1, <1>3, <1>4, NoDescent
<1>6. Rest(D) \in SUBSET D /\ SumOf(f)[Rest(D)] \in Int /\ SumOf(f)[D] > SumOf(f)[Rest(D)]
  BY <1>2
<1>7. SumOf(f)[Rest(D)] >= 0 /\ SumOf(f)[D] \in Int
  BY <1>5, <1>6, SumOfInt
<1>8. SumOf(f)[D] > 0
  BY <1>6, <1>7
<1>9. QED
  BY <1>8, TotalIsSum

-----------------------------------------------------------------------------
(* Whole-number arithmetic.                                                  *)

LEMMA ProductMonotone ==
    ASSUME NEW a \in Int, NEW b \in Int, NEW c \in Nat, a <= b
    PROVE  a * c <= b * c
  OBVIOUS

LEMMA DivBounds ==
    ASSUME NEW a \in Int, NEW b \in Nat \ {0}
    PROVE  /\ a \div b \in Int
           /\ (a \div b) * b <= a
           /\ a < (a \div b + 1) * b
  OBVIOUS

\* A quotient is at least any q whose product with the divisor is at most a.
LEMMA DivAtLeast ==
    ASSUME NEW a \in Int, NEW b \in Nat \ {0}, NEW q \in Int, q * b <= a
    PROVE  q <= a \div b
<1>1. a \div b \in Int /\ a < (a \div b + 1) * b
  BY DivBounds
<1> DEFINE d == a \div b
<1> HIDE DEF d
<1>2. CASE q >= d + 1
  <2>1. (d + 1) * b <= q * b
    BY <1>1, <1>2, ProductMonotone DEF d
  <2>2. q * b \in Int /\ (d + 1) * b \in Int
    BY <1>1 DEF d
  <2>3. QED
    BY <1>1, <2>1, <2>2 DEF d
<1>3. QED
  BY <1>1, <1>2 DEF d

LEMMA DivMonotone ==
    ASSUME NEW a \in Int, NEW b \in Nat \ {0}, NEW c \in Int, a <= c
    PROVE  a \div b <= c \div b
<1>1. a \div b \in Int /\ (a \div b) * b <= a /\ (a \div b) * b \in Int
  BY DivBounds
<1>2. (a \div b) * b <= c
  BY <1>1
<1>3. QED
  BY <1>1, <1>2, DivAtLeast

LEMMA DivNat ==
    ASSUME NEW a \in Nat, NEW b \in Nat \ {0}
    PROVE  a \div b \in Nat
<1>1. 0 <= a \div b
  BY DivAtLeast
<1>2. a \div b \in Int
  BY DivBounds
<1>3. QED
  BY <1>1, <1>2

\* A larger divisor gives no larger a quotient.
LEMMA DivAntitone ==
    ASSUME NEW a \in Nat, NEW b \in Nat \ {0}, NEW c \in Nat \ {0}, b <= c
    PROVE  a \div c <= a \div b
<1> DEFINE d == a \div c
<1>1. d \in Nat /\ d * c <= a
  BY DivNat, DivBounds
<1> HIDE DEF d
<1>2. d * b <= d * c
  <2>1. b * d <= c * d
    BY <1>1, ProductMonotone
  <2>2. QED
    BY <2>1, <1>1
<1>3. d * b <= a
  <2>1. d * b \in Int /\ d * c \in Int
    BY <1>1
  <2>2. QED
    BY <1>1, <1>2, <2>1
<1>4. d <= a \div b
  BY <1>1, <1>3, DivAtLeast
<1>5. QED
  BY <1>4 DEF d

\* A percentage of an amount is a whole amount,
LEMMA OfNat ==
    ASSUME NEW a \in Nat, NEW p \in Nat
    PROVE  Of(a, p) \in Nat
<1>1. a * p \in Nat
  OBVIOUS
<1>2. QED
  BY <1>1, DivNat DEF Of

\* and grows with both.
LEMMA OfMonotone ==
    ASSUME NEW a \in Nat, NEW b \in Nat, NEW p \in Nat, NEW q \in Nat, a <= b, p <= q
    PROVE  Of(a, p) \in Nat /\ Of(b, q) \in Nat /\ Of(a, p) <= Of(b, q)
<1>1. a * p \in Nat /\ b * p \in Nat /\ b * q \in Nat
  OBVIOUS
<1>2. a * p <= b * p
  BY ProductMonotone
<1>3. p * b <= q * b
  BY ProductMonotone
<1>4. a * p <= b * q
  <2>1. b * p = p * b /\ b * q = q * b
    OBVIOUS
  <2>2. QED
    BY <1>1, <1>2, <1>3, <2>1
<1>5. QED
  BY <1>1, <1>4, DivNat, DivMonotone DEF Of

\* Squares are not negative, and grow with what is squared.
LEMMA SquareNat ==
    ASSUME NEW a \in Int
    PROVE  a * a \in Nat
<1>1. CASE a >= 0
  <2>1. a \in Nat /\ 0 \in Int
    BY <1>1
  <2>2. 0 * a <= a * a
    BY <1>1, <2>1, ProductMonotone
  <2>3. QED
    BY <2>2
<1>2. CASE ~(a >= 0)
  <2>1. -a \in Nat /\ 0 \in Int /\ 0 <= -a
    BY <1>2
  <2>2. 0 * (-a) <= (-a) * (-a)
    BY <2>1, ProductMonotone
  <2>3. (-a) * (-a) = a * a
    OBVIOUS
  <2>4. QED
    BY <2>2, <2>3
<1>3. QED
  BY <1>1, <1>2

LEMMA SquareMonotone ==
    ASSUME NEW a \in Nat, NEW b \in Nat, a <= b
    PROVE  a * a <= b * b
<1>1. a * a <= b * a
  BY ProductMonotone
<1>2. a * b <= b * b
  BY ProductMonotone
<1>3. b * a = a * b /\ a * a \in Int /\ a * b \in Int /\ b * b \in Int
  OBVIOUS
<1>4. QED
  BY <1>1, <1>2, <1>3

\* The whole part of a root exists,
LEMMA RootIs ==
    ASSUME NEW v \in Nat
    PROVE  /\ _decimal_sqrt(v) \in Nat
           /\ _decimal_sqrt(v) * _decimal_sqrt(v) <= v
           /\ v < (_decimal_sqrt(v) + 1) * (_decimal_sqrt(v) + 1)
<1> DEFINE Above == {r \in Nat : v < (r + 1) * (r + 1)}
<1>1. v \in Above
  <2>1. (v + 1) * (v + 1) = v * v + v + v + 1 /\ v * v \in Nat
    BY SquareNat
  <2>2. QED
    BY <2>1
<1>2. PICK r \in Above : \A y \in Above : r <= y
  <2>1. Above \subseteq Nat /\ Above # {}
    BY <1>1
  <2> HIDE DEF Above
  <2>2. QED
    BY <2>1, NatMin
<1>3. r \in 0..v
  BY <1>1, <1>2
<1>4. r * r <= v
  <2>1. CASE r = 0
    BY <2>1
  <2>2. CASE r # 0
    <3>1. r - 1 \in Nat /\ r - 1 \notin Above /\ (r - 1) + 1 = r
      <4>1. r - 1 \in Nat /\ ~(r <= r - 1) /\ (r - 1) + 1 = r
        BY <1>3, <2>2
      <4> HIDE DEF Above
      <4>2. QED
        BY <1>2, <4>1
    <3>2. ~(v < ((r - 1) + 1) * ((r - 1) + 1))
      BY <3>1
    <3>3. ~(v < r * r)
      BY <3>1, <3>2
    <3>4. r * r \in Int
      BY <1>3
    <3>5. QED
      BY <3>3, <3>4
  <2>3. QED
    BY <2>1, <2>2
<1>5. v < (r + 1) * (r + 1)
  BY <1>2
<1> HIDE DEF Above
<1>6. \E x \in 0..v : x * x <= v /\ v < (x + 1) * (x + 1)
  BY <1>3, <1>4, <1>5
<1>7. /\ _decimal_sqrt(v) \in 0..v /\ _decimal_sqrt(v) * _decimal_sqrt(v) <= v
      /\ v < (_decimal_sqrt(v) + 1) * (_decimal_sqrt(v) + 1)
  BY <1>6 DEF _decimal_sqrt
<1>8. QED
  BY <1>7

\* and grows with the number.
LEMMA RootMonotone ==
    ASSUME NEW v \in Nat, NEW w \in Nat, v <= w
    PROVE  _decimal_sqrt(v) <= _decimal_sqrt(w)
<1> DEFINE a == _decimal_sqrt(v)
           b == _decimal_sqrt(w)
<1>1. a \in Nat /\ b \in Nat /\ a * a <= v /\ w < (b + 1) * (b + 1)
  BY RootIs
<1> HIDE DEF a, b
<1>2. ASSUME b + 1 <= a PROVE FALSE
  <2>1. (b + 1) * (b + 1) <= a * a
    BY <1>1, <1>2, SquareMonotone
  <2>2. (b + 1) * (b + 1) \in Int /\ a * a \in Int
    BY <1>1
  <2>3. QED
    BY <1>1, <2>1, <2>2
<1>3. QED
  BY <1>1, <1>2 DEF a, b

-----------------------------------------------------------------------------
(* The variance of the EWMA, written out over the squares of the moves.      *)

Variances(v, s, q, n) ==
    v = [k \in 0..n |-> IF k = 0 THEN s
                        ELSE (EwmaLambda * v[k - 1] + (100 - EwmaLambda) * q[k]) \div 100]

\* One step of it gives a natural number,
LEMMA DecayNat ==
    ASSUME NEW v \in Nat, NEW q \in Nat
    PROVE  (EwmaLambda * v + (100 - EwmaLambda) * q) \div 100 \in Nat
<1>1. EwmaLambda * v + (100 - EwmaLambda) * q \in Nat
  BY DEF EwmaLambda
<1>2. QED
  BY <1>1, DivNat

\* no smaller when nothing in it is.
LEMMA DecayMonotone ==
    ASSUME NEW v \in Nat, NEW w \in Nat, NEW q \in Nat, NEW r \in Nat, v <= w, q <= r
    PROVE  (EwmaLambda * v + (100 - EwmaLambda) * q) \div 100
              <= (EwmaLambda * w + (100 - EwmaLambda) * r) \div 100
<1> DEFINE x == EwmaLambda * v + (100 - EwmaLambda) * q
           y == EwmaLambda * w + (100 - EwmaLambda) * r
<1>1. x \in Nat /\ y \in Nat /\ x <= y
  BY DEF EwmaLambda
<1> HIDE DEF x, y
<1>2. x \div 100 <= y \div 100
  BY <1>1, DivMonotone
<1>3. QED
  BY <1>2 DEF x, y

\* It exists: otherwise there would be a first bar at which it does not.
LEMMA VariancesExist ==
    ASSUME NEW n \in Nat, NEW s \in Nat, NEW q \in [1..n -> Nat]
    PROVE  \E v \in [0..n -> Nat] : Variances(v, s, q, n)
<1> DEFINE Next1(v, k) == (EwmaLambda * v[k - 1] + (100 - EwmaLambda) * q[k]) \div 100
           Upto(v, m) == v[0] = s /\ \A k \in 1..n : k <= m => v[k] = Next1(v, k)
           Bad == {m \in Nat : ~\E v \in [0..n -> Nat] : Upto(v, m)}
<1>1. ASSUME Bad # {} PROVE FALSE
  <2>1. PICK m \in Bad : \A y \in Bad : m <= y
    <3>1. Bad \subseteq Nat /\ Bad # {}
      BY <1>1
    <3> HIDE DEF Bad
    <3>2. QED
      BY <3>1, NatMin
  <2>2. m \in Nat /\ ~\E v \in [0..n -> Nat] : Upto(v, m)
    OBVIOUS
  <2>3. CASE m = 0
    <3>1. [k \in 0..n |-> s] \in [0..n -> Nat] /\ 0 \in 0..n
      OBVIOUS
    <3>2. Upto([k \in 0..n |-> s], m)
      BY <2>3, <3>1
    <3> HIDE DEF Upto
    <3>3. QED
      BY <2>2, <3>1, <3>2
  <2>4. CASE m # 0
    <3>1. m - 1 \in Nat /\ m - 1 \notin Bad
      <4>1. m - 1 \in Nat /\ ~(m <= m - 1)
        BY <2>2, <2>4
      <4> HIDE DEF Bad
      <4>2. QED
        BY <2>1, <4>1
    <3>2. PICK v \in [0..n -> Nat] : Upto(v, m - 1)
      <4> HIDE DEF Upto
      <4> QED
        BY <3>1
    <3>3. CASE m > n
      <4>1. Upto(v, m)
        BY <2>2, <3>2, <3>3
      <4> HIDE DEF Upto
      <4>2. QED
        BY <2>2, <4>1
    <3>4. CASE m <= n
      <4>1. m \in 1..n /\ m - 1 \in 0..n /\ m \in 0..n /\ 0 \in 0..n
        BY <2>2, <2>4, <3>4
      <4>2. v[m - 1] \in Nat /\ q[m] \in Nat
        BY <4>1
      <4>3. Next1(v, m) \in Nat
        BY <4>2, DecayNat
      <4> DEFINE w == [v EXCEPT ![m] = Next1(v, m)]
      <4> HIDE DEF Next1
      <4>4. w \in [0..n -> Nat] /\ w[m] = Next1(v, m)
            /\ \A k \in 0..n : k # m => w[k] = v[k]
        BY <4>1, <4>3
      <4> HIDE DEF w
      <4>5. ASSUME NEW k \in 1..n, k <= m PROVE w[k] = Next1(w, k)
        <5>1. k - 1 \in 0..n /\ k - 1 # m /\ k \in 0..n
          BY <2>2, <4>5
        <5>2. Next1(w, k) = Next1(v, k)
          BY <4>4, <5>1 DEF Next1
        <5>3. CASE k = m
          BY <4>4, <5>2, <5>3
        <5>4. CASE k # m
          <6>1. k <= m - 1
            BY <2>2, <4>5, <5>4
          <6>2. v[k] = Next1(v, k)
            BY <3>2, <6>1
          <6>3. QED
            BY <4>4, <5>1, <5>2, <5>4, <6>2
        <5>5. QED
          BY <5>3, <5>4
      <4>6. w[0] = s
        BY <2>4, <3>2, <4>1, <4>4
      <4>7. Upto(w, m)
        BY <4>5, <4>6
      <4> HIDE DEF Upto
      <4>8. QED
        BY <2>2, <4>4, <4>7
    <3>5. QED
      BY <2>2, <3>3, <3>4
  <2>5. QED
    BY <2>3, <2>4
<1>2. PICK v \in [0..n -> Nat] : Upto(v, n)
  <2>1. n \notin Bad
    BY <1>1
  <2> HIDE DEF Upto
  <2>2. QED
    BY <2>1
<1>3. \A k \in 0..n : v[k] = IF k = 0 THEN s ELSE Next1(v, k)
  <2> SUFFICES ASSUME NEW k \in 0..n PROVE v[k] = IF k = 0 THEN s ELSE Next1(v, k)
    OBVIOUS
  <2>1. CASE k = 0
    BY <1>2, <2>1
  <2>2. CASE k # 0
    <3>1. k \in 1..n /\ k <= n
      BY <2>2
    <3> HIDE DEF Next1
    <3>2. QED
      BY <1>2, <2>2, <3>1
  <2>3. QED
    BY <2>1, <2>2
<1>4. v = [k \in 0..n |-> v[k]]
  OBVIOUS
<1>5. Variances(v, s, q, n)
  BY <1>3, <1>4 DEF Variances
<1>6. QED
  BY <1>5

\* Its values are natural numbers, and no smaller when seed and moves are not.
LEMMA VarianceMonotone ==
    ASSUME NEW n \in Nat, NEW s \in Nat, NEW t \in Nat, s <= t,
           NEW q \in [1..n -> Nat], NEW r \in [1..n -> Nat], \A k \in 1..n : q[k] <= r[k],
           NEW v, Variances(v, s, q, n), NEW w, Variances(w, t, r, n)
    PROVE  v[n] \in Nat /\ w[n] \in Nat /\ v[n] <= w[n]
<1> DEFINE Good(k) == v[k] \in Nat /\ w[k] \in Nat /\ v[k] <= w[k]
           Bad == {k \in 0..n : ~Good(k)}
<1>1. /\ \A k \in 0..n : v[k] = IF k = 0 THEN s
                            ELSE (EwmaLambda * v[k - 1] + (100 - EwmaLambda) * q[k]) \div 100
      /\ \A k \in 0..n : w[k] = IF k = 0 THEN t
                            ELSE (EwmaLambda * w[k - 1] + (100 - EwmaLambda) * r[k]) \div 100
  BY DEF Variances
<1>2. ASSUME Bad # {} PROVE FALSE
  <2>1. PICK m \in Bad : \A y \in Bad : m <= y
    <3>1. Bad \subseteq Nat /\ Bad # {}
      BY <1>2
    <3> HIDE DEF Bad
    <3>2. QED
      BY <3>1, NatMin
  <2>2. m \in 0..n /\ ~Good(m)
    OBVIOUS
  <2>3. CASE m = 0
    BY <1>1, <2>2, <2>3
  <2>4. CASE m # 0
    <3>1. m - 1 \in 0..n /\ m \in 1..n /\ ~(m <= m - 1)
      BY <2>2, <2>4
    <3>2. Good(m - 1)
      <4>1. m - 1 \notin Bad
        <5> HIDE DEF Bad
        <5> QED
          BY <2>1, <3>1
      <4> HIDE DEF Good
      <4>2. QED
        BY <3>1, <4>1
    <3>3. q[m] \in Nat /\ r[m] \in Nat /\ q[m] <= r[m]
      BY <3>1
    <3>4. /\ (EwmaLambda * v[m - 1] + (100 - EwmaLambda) * q[m]) \div 100 \in Nat
          /\ (EwmaLambda * w[m - 1] + (100 - EwmaLambda) * r[m]) \div 100 \in Nat
      BY <3>2, <3>3, DecayNat
    <3>5. (EwmaLambda * v[m - 1] + (100 - EwmaLambda) * q[m]) \div 100
             <= (EwmaLambda * w[m - 1] + (100 - EwmaLambda) * r[m]) \div 100
      BY <3>2, <3>3, DecayMonotone
    <3>6. /\ v[m] = (EwmaLambda * v[m - 1] + (100 - EwmaLambda) * q[m]) \div 100
          /\ w[m] = (EwmaLambda * w[m - 1] + (100 - EwmaLambda) * r[m]) \div 100
      BY <1>1, <2>2, <2>4
    <3>7. Good(m)
      BY <3>4, <3>5, <3>6
    <3>8. QED
      BY <2>2, <3>7
  <2>5. QED
    BY <2>3, <2>4
<1>3. Good(n)
  <2>1. n \in 0..n
    OBVIOUS
  <2> HIDE DEF Good
  <2>2. QED
    BY <1>2, <2>1
<1>4. QED
  BY <1>3

-----------------------------------------------------------------------------
(* The scalars: each is a whole percentage and never rises when its condition *)
(* gets worse.                                                                *)

Bar == [high : Nat \ {0}, low : Nat, close : Nat \ {0}, volume : Nat]

\* The window of two series of one length has the same places of both.
LEMMA WindowProperties ==
    ASSUME NEW bars \in Seq(Bar), bars # <<>>, NEW n \in Nat \ {0}
    PROVE  /\ Window(bars, n) \in Seq(Bar)
           /\ Len(Window(bars, n)) = Smaller(n, Len(bars))
           /\ Len(Window(bars, n)) \in Nat \ {0}
           /\ \A k \in 1..Len(Window(bars, n)) :
                /\ Larger(1, Len(bars) - n + 1) + k - 1 \in 1..Len(bars)
                /\ Window(bars, n)[k] = bars[Larger(1, Len(bars) - n + 1) + k - 1]
<1> DEFINE m == Larger(1, Len(bars) - n + 1)
<1>1. Len(bars) \in Nat \ {0} /\ n \in Nat \ {0}
  BY EmptySeq
<1>2. m \in Nat \ {0} /\ m <= Len(bars)
  BY <1>1 DEF Larger
<1>3. \A k \in m..Len(bars) : bars[k] \in Bar
  BY <1>1, <1>2, ElementOfSeq
<1>4. Len(bars) - m + 1 = Smaller(n, Len(bars))
  <2>1. CASE n < Len(bars)
    <3>1. m = Len(bars) - n + 1 /\ Smaller(n, Len(bars)) = n
      BY <1>1, <2>1 DEF Larger, Smaller
    <3>2. QED
      BY <1>1, <3>1
  <2>2. CASE ~(n < Len(bars))
    <3>1. m = 1 /\ Smaller(n, Len(bars)) = Len(bars)
      BY <1>1, <2>2 DEF Larger, Smaller
    <3>2. QED
      BY <1>1, <3>1
  <2>3. QED
    BY <2>1, <2>2
<1>5. Smaller(n, Len(bars)) \in Nat \ {0}
  BY <1>1 DEF Smaller
<1> HIDE DEF m
<1>6. /\ SubSeq(bars, m, Len(bars)) \in Seq(Bar)
      /\ Len(SubSeq(bars, m, Len(bars))) = Len(bars) - m + 1
      /\ \A k \in 1..Len(bars) - m + 1 : SubSeq(bars, m, Len(bars))[k] = bars[m + k - 1]
  BY <1>1, <1>2, <1>3, SubSeqProperties
<1>7. \A k \in 1..Len(bars) - m + 1 : m + k - 1 \in 1..Len(bars)
  BY <1>1, <1>2
<1>8. Window(bars, n) = SubSeq(bars, m, Len(bars))
  BY DEF Window, m
<1>9. QED
  BY <1>4, <1>5, <1>6, <1>7, <1>8 DEF m

\* The three sums of a window.
Ranges(bars, n) == [k \in DOMAIN Window(bars, n) |-> Window(bars, n)[k].high - Window(bars, n)[k].low]
Closes(bars, n) == [k \in DOMAIN Window(bars, n) |-> Window(bars, n)[k].close]
Volumes(bars, n) == [k \in DOMAIN Window(bars, n) |-> Window(bars, n)[k].volume]

LEMMA WindowSums ==
    ASSUME NEW bars \in Seq(Bar), bars # <<>>, NEW n \in Nat \ {0}
    PROVE  /\ IsFiniteSet(DOMAIN Window(bars, n)) /\ DOMAIN Window(bars, n) # {}
           /\ Ranges(bars, n) \in [DOMAIN Window(bars, n) -> Int]
           /\ Closes(bars, n) \in [DOMAIN Window(bars, n) -> Int]
           /\ Volumes(bars, n) \in [DOMAIN Window(bars, n) -> Int]
           /\ Total(Ranges(bars, n)) \in Int /\ Total(Closes(bars, n)) \in Nat \ {0}
           /\ Total(Volumes(bars, n)) \in Int
<1> DEFINE W == Window(bars, n)
           D == DOMAIN W
<1>1. W \in Seq(Bar) /\ Len(W) \in Nat \ {0} /\ D = 1..Len(W)
  BY WindowProperties
<1>2. \A k \in D : W[k] \in Bar
  BY <1>1, ElementOfSeq
<1>3. \A k \in D : W[k].high - W[k].low \in Int /\ W[k].close \in Nat \ {0} /\ W[k].volume \in Nat
  BY <1>2 DEF Bar
<1>4. IsFiniteSet(D) /\ D # {}
  <2>1. IsFiniteSet(1..Len(W)) /\ 1 \in 1..Len(W)
    BY <1>1, FS_Interval
  <2>2. QED
    BY <1>1, <2>1
<1> HIDE DEF W
<1>5. /\ Ranges(bars, n) \in [D -> Int] /\ Closes(bars, n) \in [D -> Int]
      /\ Volumes(bars, n) \in [D -> Int] /\ \A k \in D : Closes(bars, n)[k] > 0
  BY <1>3 DEF Ranges, Closes, Volumes, W
<1> HIDE DEF D
<1>6. /\ Total(Ranges(bars, n)) \in Int /\ Total(Closes(bars, n)) \in Int /\ Total(Volumes(bars, n)) \in Int
  BY <1>4, <1>5, TotalInt
<1>7. Total(Closes(bars, n)) > 0
  BY <1>4, <1>5, TotalPositive
<1>8. QED
  BY <1>4, <1>5, <1>6, <1>7 DEF D, W

\* The simple ATR is a number,
LEMMA SimpleType ==
    ASSUME NEW bars \in Seq(Bar), bars # <<>>, NEW n \in Nat \ {0}
    PROVE  /\ compute_atr_simple(bars, n) = (Total(Ranges(bars, n)) * 10000) \div Total(Closes(bars, n))
           /\ compute_atr_simple(bars, n) \in Int
<1>1. Total(Ranges(bars, n)) * 10000 \in Int /\ Total(Closes(bars, n)) \in Nat \ {0}
  <2>1. Total(Ranges(bars, n)) \in Int /\ Total(Closes(bars, n)) \in Nat \ {0}
    BY WindowSums
  <2>2. QED
    BY <2>1
<1>2. compute_atr_simple(bars, n) = (Total(Ranges(bars, n)) * 10000) \div Total(Closes(bars, n))
  BY DEF compute_atr_simple, Ranges, Closes
<1>3. QED
  BY <1>1, <1>2, DivBounds

\* The bars of b are those of bars with the same closes, none narrower.
Wider(b, bars) ==
    /\ Len(b) = Len(bars)
    /\ \A k \in 1..Len(bars) :
          /\ b[k].close = bars[k].close
          /\ b[k].high - b[k].low >= bars[k].high - bars[k].low

\* and wider bars have no smaller a one.
LEMMA SimpleMonotone ==
    ASSUME NEW bars \in Seq(Bar), bars # <<>>, NEW b \in Seq(Bar), Wider(b, bars),
           NEW n \in Nat \ {0}
    PROVE  compute_atr_simple(bars, n) <= compute_atr_simple(b, n)
<1> DEFINE m == Larger(1, Len(bars) - n + 1)
           D == DOMAIN Window(bars, n)
<1>1. b # <<>> /\ Len(b) = Len(bars)
  BY EmptySeq DEF Wider
<1>2. DOMAIN Window(b, n) = D /\ D = 1..Len(Window(bars, n))
  <2>1. /\ Len(Window(b, n)) = Len(Window(bars, n))
        /\ Window(b, n) \in Seq(Bar) /\ Window(bars, n) \in Seq(Bar)
    BY <1>1, WindowProperties
  <2>2. QED
    BY <2>1
<1>3. ASSUME NEW k \in D
      PROVE  /\ m + k - 1 \in 1..Len(bars)
             /\ Window(bars, n)[k] = bars[m + k - 1] /\ Window(b, n)[k] = b[m + k - 1]
             /\ bars[m + k - 1] \in Bar /\ b[m + k - 1] \in Bar
  <2>1. Len(Window(b, n)) = Len(Window(bars, n))
    BY <1>1, WindowProperties
  <2>2. k \in 1..Len(Window(bars, n)) /\ k \in 1..Len(Window(b, n))
    BY <1>2, <2>1
  <2>3. m + k - 1 \in 1..Len(bars) /\ Window(bars, n)[k] = bars[m + k - 1]
    BY <2>2, WindowProperties
  <2>4. Window(b, n)[k] = b[Larger(1, Len(b) - n + 1) + k - 1]
    BY <1>1, <2>2, WindowProperties
  <2>5. Window(b, n)[k] = b[m + k - 1]
    BY <1>1, <2>4
  <2>6. QED
    BY <1>1, <2>3, <2>5, ElementOfSeq
<1> HIDE DEF m
<1>4. Closes(b, n) = Closes(bars, n)
  BY <1>2, <1>3 DEF Closes, Wider
<1>5. ASSUME NEW k \in D PROVE Ranges(bars, n)[k] <= Ranges(b, n)[k]
  <2>1. /\ Ranges(bars, n)[k] = bars[m + k - 1].high - bars[m + k - 1].low
        /\ Ranges(b, n)[k] = b[m + k - 1].high - b[m + k - 1].low
    BY <1>2, <1>3 DEF Ranges
  <2>2. /\ bars[m + k - 1].high - bars[m + k - 1].low \in Int
        /\ b[m + k - 1].high - b[m + k - 1].low \in Int
    <3>1. \A x \in Bar : x.high - x.low \in Int
      BY DEF Bar
    <3>2. QED
      BY <1>3, <3>1
  <2>3. b[m + k - 1].high - b[m + k - 1].low >= bars[m + k - 1].high - bars[m + k - 1].low
    BY <1>3 DEF Wider
  <2>4. QED
    BY <2>1, <2>2, <2>3
<1>6. /\ IsFiniteSet(D) /\ Total(Closes(bars, n)) \in Nat \ {0}
      /\ Ranges(bars, n) \in [D -> Int] /\ Ranges(b, n) \in [D -> Int]
      /\ Total(Ranges(bars, n)) \in Int /\ Total(Ranges(b, n)) \in Int
  BY <1>1, <1>2, WindowSums
<1> HIDE DEF D
<1>7. Total(Ranges(bars, n)) <= Total(Ranges(b, n))
  BY <1>5, <1>6, TotalMonotone
<1>8. /\ compute_atr_simple(bars, n) = (Total(Ranges(bars, n)) * 10000) \div Total(Closes(bars, n))
      /\ compute_atr_simple(b, n) = (Total(Ranges(b, n)) * 10000) \div Total(Closes(bars, n))
  BY <1>1, <1>4, SimpleType
<1>9. /\ Total(Ranges(bars, n)) * 10000 \in Int /\ Total(Ranges(b, n)) * 10000 \in Int
      /\ Total(Ranges(bars, n)) * 10000 <= Total(Ranges(b, n)) * 10000
  BY <1>6, <1>7
<1>10. \A x, y \in Int : x <= y
           => x \div Total(Closes(bars, n)) <= y \div Total(Closes(bars, n))
  BY <1>6, DivMonotone
<1>11. QED
  BY <1>8, <1>9, <1>10

\* Bars that are not inverted have an ATR that is not negative.
LEMMA SimpleNat ==
    ASSUME NEW bars \in Seq(Bar), bars # <<>>, NEW n \in Nat \ {0},
           \A k \in 1..Len(bars) : bars[k].low <= bars[k].high
    PROVE  compute_atr_simple(bars, n) \in Nat
<1> DEFINE D == DOMAIN Window(bars, n)
           Zero == [k \in D |-> 0]
<1>1. /\ IsFiniteSet(D) /\ Ranges(bars, n) \in [D -> Int]
      /\ Total(Ranges(bars, n)) \in Int /\ Total(Closes(bars, n)) \in Nat \ {0}
  BY WindowSums
<1>2. ASSUME NEW k \in D PROVE 0 <= Ranges(bars, n)[k]
  <2>1. k \in 1..Len(Window(bars, n))
    BY WindowProperties
  <2>2. PICK l \in 1..Len(bars) : Window(bars, n)[k] = bars[l]
    BY <2>1, WindowProperties
  <2>3. bars[l] \in Bar /\ bars[l].low <= bars[l].high
    BY ElementOfSeq
  <2>4. bars[l].low \in Int /\ bars[l].high \in Int
    BY <2>3 DEF Bar
  <2>5. Ranges(bars, n)[k] = bars[l].high - bars[l].low
    BY <2>2 DEF Ranges
  <2>6. QED
    BY <2>3, <2>4, <2>5
<1>3. Zero \in [D -> Int] /\ \A k \in D : Zero[k] = 0
  OBVIOUS
<1> HIDE DEF D, Zero
<1>4. SumOf(Zero)[D] = 0
  <2> DEFINE B == {s \in SUBSET D : SumOf(Zero)[s] # 0}
  <2>1. {} \notin B
    BY <1>1, <1>3, SumOfEquation
  <2>2. ASSUME NEW s \in B PROVE Rest(s) \in B
    <3>1. s \in SUBSET D /\ s # {}
      BY <2>1
    <3>2. Some(s) \in D /\ Rest(s) \in SUBSET D
      BY <1>1, <3>1, RestSmaller
    <3>3. SumOf(Zero)[s] = Zero[Some(s)] + SumOf(Zero)[Rest(s)] /\ SumOf(Zero)[s] # 0
      BY <1>1, <1>3, <3>1, SumOfEquation
    <3>4. Zero[Some(s)] = 0 /\ SumOf(Zero)[Rest(s)] \in Int
      BY <1>1, <1>3, <3>2, SumOfInt
    <3>5. QED
      BY <3>2, <3>3, <3>4
  <2>3. B \subseteq SUBSET D
    OBVIOUS
  <2>4. B = {}
    <3> HIDE DEF B
    <3> QED
      BY <1>1, <2>1, <2>2, <2>3, NoDescent
  <2>5. QED
    BY <2>4
<1>5. Total(Zero) = 0
  <2>1. DOMAIN Zero = D
    BY <1>3
  <2>2. QED
    BY <1>4, <2>1, TotalIsSum
<1>6. 0 <= Total(Ranges(bars, n))
  BY <1>1, <1>2, <1>3, <1>5, TotalMonotone
<1>7. Total(Ranges(bars, n)) * 10000 \in Nat
  BY <1>1, <1>6
<1>8. QED
  BY <1>1, <1>7, SimpleType, DivNat

\* What the EWMA starts from.
First(bars) == SubSeq(bars, 1, Smaller(SeedBars, Len(bars)))
Seed(bars) == compute_atr_simple(First(bars), SeedBars)

LEMMA FirstProperties ==
    ASSUME NEW bars \in Seq(Bar), bars # <<>>
    PROVE  /\ First(bars) \in Seq(Bar) /\ First(bars) # <<>>
           /\ Len(First(bars)) = Smaller(SeedBars, Len(bars))
           /\ \A k \in 1..Len(First(bars)) : k \in 1..Len(bars) /\ First(bars)[k] = bars[k]
<1> DEFINE n == Smaller(SeedBars, Len(bars))
<1>1. Len(bars) \in Nat \ {0}
  BY EmptySeq
<1>2. n \in Nat \ {0} /\ n <= Len(bars)
  BY <1>1 DEF Smaller, SeedBars
<1>3. \A k \in 1..n : bars[k] \in Bar /\ k \in 1..Len(bars)
  BY <1>1, <1>2, ElementOfSeq
<1> HIDE DEF n
<1>4. /\ SubSeq(bars, 1, n) \in Seq(Bar) /\ Len(SubSeq(bars, 1, n)) = n
      /\ \A k \in 1..n : SubSeq(bars, 1, n)[k] = bars[k]
  <2>1. /\ SubSeq(bars, 1, n) \in Seq(Bar) /\ Len(SubSeq(bars, 1, n)) = n - 1 + 1
        /\ \A k \in 1..n - 1 + 1 : SubSeq(bars, 1, n)[k] = bars[1 + k - 1]
    BY <1>2, <1>3, SubSeqProperties
  <2>2. n - 1 + 1 = n /\ \A k \in 1..n : 1 + k - 1 = k
    BY <1>2
  <2>3. QED
    BY <2>1, <2>2
<1>5. First(bars) = SubSeq(bars, 1, n)
  BY DEF First, n
<1>6. First(bars) # <<>>
  BY <1>2, <1>4, <1>5, EmptySeq
<1>7. QED
  BY <1>2, <1>3, <1>4, <1>5, <1>6 DEF n

\* The squares of the moves.
Moves(bars) == [k \in 1..Len(bars) |-> Move2(bars[k])]

LEMMA MoveNat ==
    ASSUME NEW bars \in Seq(Bar)
    PROVE  Moves(bars) \in [1..Len(bars) -> Nat]
<1> SUFFICES ASSUME NEW k \in 1..Len(bars) PROVE Move2(bars[k]) \in Nat
  BY DEF Moves
<1>1. bars[k] \in Bar
  BY ElementOfSeq
<1>2. (bars[k].high - bars[k].low) * 10000 \in Int /\ bars[k].close \in Nat \ {0}
  BY <1>1 DEF Bar
<1>3. ((bars[k].high - bars[k].low) * 10000) \div bars[k].close \in Int
  BY <1>2, DivBounds
<1>4. QED
  BY <1>3, SquareNat DEF Move2

LEMMA MoveMonotone ==
    ASSUME NEW x \in Bar, NEW y \in Bar, x.close = y.close, x.low <= x.high,
           y.high - y.low >= x.high - x.low
    PROVE  Move2(x) <= Move2(y)
<1>1. /\ (x.high - x.low) * 10000 \in Nat /\ (y.high - y.low) * 10000 \in Nat
      /\ (x.high - x.low) * 10000 <= (y.high - y.low) * 10000
      /\ x.close \in Nat \ {0}
  BY DEF Bar
<1>2. /\ ((x.high - x.low) * 10000) \div x.close \in Nat
      /\ ((y.high - y.low) * 10000) \div x.close \in Nat
  BY <1>1, DivNat
<1>3. ((x.high - x.low) * 10000) \div x.close <= ((y.high - y.low) * 10000) \div x.close
  <2>1. (x.high - x.low) * 10000 \in Int /\ (y.high - y.low) * 10000 \in Int
    BY <1>1
  <2>2. QED
    BY <1>1, <2>1, DivMonotone
<1>4. QED
  BY <1>2, <1>3, SquareMonotone DEF Move2

\* The EWMA is the root of the last variance,
LEMMA EwmaIs ==
    ASSUME NEW bars \in Seq(Bar), Len(bars) >= 2
    PROVE  /\ Seed(bars) * Seed(bars) \in Nat
           /\ \E v : /\ Variances(v, Seed(bars) * Seed(bars), Moves(bars), Len(bars))
                     /\ compute_atr_ewma(bars) = _decimal_sqrt(v[Len(bars)])
<1> DEFINE s == Seed(bars) * Seed(bars)
           n == Len(bars)
           v == CHOOSE x : Variances(x, s, Moves(bars), n)
<1>1. bars # <<>> /\ n \in Nat
  BY EmptySeq
<1>2. s \in Nat
  <2>1. SeedBars \in Nat \ {0}
    BY DEF SeedBars
  <2>2. Seed(bars) \in Int
    BY <1>1, <2>1, FirstProperties, SimpleType DEF Seed
  <2>3. QED
    BY <2>2, SquareNat
<1>3. Variances(v, s, Moves(bars), n)
  <2>1. \E x : Variances(x, s, Moves(bars), n)
    BY <1>1, <1>2, MoveNat, VariancesExist
  <2>2. QED
    BY <2>1
<1>4. compute_atr_ewma(bars) = _decimal_sqrt(v[n])
  <2> DEFINE u == CHOOSE x : x = [k \in 0..Len(bars) |->
                     IF k = 0 THEN Seed(bars) * Seed(bars)
                     ELSE (EwmaLambda * x[k - 1] + (100 - EwmaLambda) * Move2(bars[k])) \div 100]
  <2>1. compute_atr_ewma(bars) = _decimal_sqrt(u[Len(bars)])
    <3>1. ~(Len(bars) < 2)
      BY <1>1
    <3>2. QED
      BY <3>1 DEF compute_atr_ewma, Seed, First
  <2>2. \A x : (x = [k \in 0..Len(bars) |->
                     IF k = 0 THEN Seed(bars) * Seed(bars)
                     ELSE (EwmaLambda * x[k - 1] + (100 - EwmaLambda) * Move2(bars[k])) \div 100])
                <=> Variances(x, s, Moves(bars), n)
    <3> TAKE x
    <3>1. \A k \in 0..Len(bars) : k # 0 => Moves(bars)[k] = Move2(bars[k])
      BY <1>1 DEF Moves
    <3>2. QED
      BY <3>1 DEF Variances
  <2>3. u = v
    BY <2>2
  <2>4. QED
    BY <2>1, <2>3
<1>5. QED
  BY <1>2, <1>3, <1>4

\* and wider bars, none of the narrower ones inverted, have no smaller a one.
LEMMA EwmaMonotone ==
    ASSUME NEW bars \in Seq(Bar), bars # <<>>, NEW b \in Seq(Bar), Wider(b, bars),
           \A k \in 1..Len(bars) : bars[k].low <= bars[k].high
    PROVE  compute_atr_ewma(bars) <= compute_atr_ewma(b)
<1> DEFINE n == Len(bars)
<1>1. n \in Nat /\ Len(b) = n /\ b # <<>>
  BY EmptySeq DEF Wider
<1>2. CASE n < 2
  BY <1>1, <1>2 DEF compute_atr_ewma
<1>3. CASE n >= 2
  <2>1. PICK v : /\ Variances(v, Seed(bars) * Seed(bars), Moves(bars), n)
                 /\ compute_atr_ewma(bars) = _decimal_sqrt(v[n])
    BY <1>3, EwmaIs
  <2>2. PICK w : /\ Variances(w, Seed(b) * Seed(b), Moves(b), n)
                 /\ compute_atr_ewma(b) = _decimal_sqrt(w[n])
    BY <1>1, <1>3, EwmaIs
  <2>3. Seed(bars) \in Nat /\ Seed(b) \in Int /\ Seed(bars) <= Seed(b)
    <3>1. /\ First(bars) \in Seq(Bar) /\ First(bars) # <<>>
          /\ First(b) \in Seq(Bar) /\ First(b) # <<>>
          /\ Len(First(b)) = Len(First(bars))
          /\ \A k \in 1..Len(First(bars)) :
                k \in 1..n /\ First(bars)[k] = bars[k] /\ First(b)[k] = b[k]
      BY <1>1, FirstProperties
    <3>2. SeedBars \in Nat \ {0}
      BY DEF SeedBars
    <3>3. Wider(First(b), First(bars))
      BY <1>1, <3>1 DEF Wider
    <3>4. \A k \in 1..Len(First(bars)) : First(bars)[k].low <= First(bars)[k].high
      BY <3>1
    <3>5. Seed(bars) \in Nat
      BY <3>1, <3>2, <3>4, SimpleNat DEF Seed
    <3>6. Seed(b) \in Int
      BY <3>1, <3>2, SimpleType DEF Seed
    <3>7. Seed(bars) <= Seed(b)
      BY <3>1, <3>2, <3>3, SimpleMonotone DEF Seed
    <3>8. QED
      BY <3>5, <3>6, <3>7
  <2>4. /\ Seed(bars) * Seed(bars) \in Nat /\ Seed(b) * Seed(b) \in Nat
        /\ Seed(bars) * Seed(bars) <= Seed(b) * Seed(b)
    BY <2>3, SquareNat, SquareMonotone
  <2>5. Moves(bars) \in [1..n -> Nat] /\ Moves(b) \in [1..n -> Nat]
    BY <1>1, MoveNat
  <2>6. ASSUME NEW k \in 1..n PROVE Moves(bars)[k] <= Moves(b)[k]
    <3>1. bars[k] \in Bar /\ b[k] \in Bar
      BY <1>1, ElementOfSeq
    <3>2. /\ bars[k].close = b[k].close /\ bars[k].low <= bars[k].high
          /\ b[k].high - b[k].low >= bars[k].high - bars[k].low
      BY DEF Wider
    <3>3. QED
      BY <1>1, <3>1, <3>2, MoveMonotone DEF Moves
  <2>7. v[n] \in Nat /\ w[n] \in Nat /\ v[n] <= w[n]
    BY <1>1, <2>1, <2>2, <2>4, <2>5, <2>6, VarianceMonotone
  <2>8. QED
    BY <2>1, <2>2, <2>7, RootMonotone
<1>4. QED
  BY <1>1, <1>2, <1>3

\* Whichever ATR the length of the series calls for is a number,
LEMMA ActualType ==
    ASSUME NEW bars \in Seq(Bar), bars # <<>>
    PROVE  compute_atr_actual(bars) \in Int
<1>1. compute_atr_simple(bars, AtrLookback) \in Int
  BY SimpleType, SizingAssumption
<1>2. compute_atr_ewma(bars) \in Int
  <2>1. CASE Len(bars) < 2
    BY <2>1 DEF compute_atr_ewma
  <2>2. CASE ~(Len(bars) < 2)
    <3>1. Len(bars) >= 2 /\ Len(bars) \in Nat
      BY <2>2, EmptySeq
    <3>2. Seed(bars) * Seed(bars) \in Nat
      BY <3>1, EwmaIs
    <3>3. PICK v : /\ Variances(v, Seed(bars) * Seed(bars), Moves(bars), Len(bars))
                   /\ compute_atr_ewma(bars) = _decimal_sqrt(v[Len(bars)])
      BY <3>1, EwmaIs
    <3>4. /\ Moves(bars) \in [1..Len(bars) -> Nat]
          /\ \A k \in 1..Len(bars) : Moves(bars)[k] <= Moves(bars)[k]
      BY MoveNat
    <3>5. v[Len(bars)] \in Nat
      BY <3>1, <3>2, <3>3, <3>4, VarianceMonotone
    <3>6. _decimal_sqrt(v[Len(bars)]) \in Nat
      BY <3>5, RootIs
    <3>7. QED
      BY <3>3, <3>6
  <2>3. QED
    BY <2>1, <2>2
<1>3. QED
  BY <1>1, <1>2 DEF compute_atr_actual

\* and is no smaller for wider bars.
LEMMA ActualMonotone ==
    ASSUME NEW bars \in Seq(Bar), bars # <<>>, NEW b \in Seq(Bar), Wider(b, bars),
           \A k \in 1..Len(bars) : bars[k].low <= bars[k].high
    PROVE  compute_atr_actual(bars) <= compute_atr_actual(b)
<1>1. Len(b) = Len(bars)
  BY DEF Wider
<1>2. compute_atr_simple(bars, AtrLookback) <= compute_atr_simple(b, AtrLookback)
  BY SimpleMonotone, SizingAssumption
<1>3. compute_atr_ewma(bars) <= compute_atr_ewma(b)
  BY EwmaMonotone
<1>4. QED
  BY <1>1, <1>2, <1>3 DEF compute_atr_actual

\* vol_scalar is a percentage of at most MaxVol.
LEMMA VolType ==
    ASSUME NEW bars \in Seq(Bar), bars # <<>>
    PROVE  vol_scalar(bars) \in Nat
<1>1. Larger(compute_atr_actual(bars), MinAtr) \in Nat \ {0}
  BY ActualType DEF Larger, MinAtr
<1>2. (TargetAtr * 100) \div Larger(compute_atr_actual(bars), MinAtr) \in Nat
  <2>1. TargetAtr * 100 \in Nat
    BY DEF TargetAtr
  <2>2. QED
    BY <1>1, <2>1, DivNat
<1>3. QED
  BY <1>2 DEF vol_scalar, Smaller, MaxVol

\* Wider bars with the same closes give no larger a volatility scalar; thinner
\* volumes that are not all zero give no larger, but a positive, volume.
LEMMA WorseBarsScalars ==
    ASSUME NEW bars \in Seq(Bar), bars # <<>>, NEW b \in Seq(Bar), Len(b) = Len(bars),
           \A k \in DOMAIN b :
              /\ b[k].close = bars[k].close
              /\ bars[k].low <= bars[k].high
              /\ b[k].high - b[k].low >= bars[k].high - bars[k].low
              /\ b[k].volume \in 1..bars[k].volume
    PROVE  /\ b # <<>>
           /\ vol_scalar(b) <= vol_scalar(bars)
           /\ adv(b) \in Nat \ {0} /\ adv(bars) \in Nat \ {0} /\ adv(b) <= adv(bars)
<1> DEFINE n == AtrLookback
           D == DOMAIN Window(bars, n)
<1>1. b # <<>> /\ DOMAIN b = 1..Len(bars) /\ n \in Nat \ {0}
  BY EmptySeq, SizingAssumption
<1>2. Wider(b, bars) /\ \A k \in 1..Len(bars) : bars[k].low <= bars[k].high
  BY <1>1 DEF Wider
<1>3. vol_scalar(b) <= vol_scalar(bars)
  <2> DEFINE x == Larger(compute_atr_actual(bars), MinAtr)
             y == Larger(compute_atr_actual(b), MinAtr)
  <2>1. /\ compute_atr_actual(bars) \in Int /\ compute_atr_actual(b) \in Int
        /\ compute_atr_actual(bars) <= compute_atr_actual(b)
    BY <1>1, <1>2, ActualType, ActualMonotone
  <2>2. x \in Nat \ {0} /\ y \in Nat \ {0} /\ x <= y
    BY <2>1 DEF Larger, MinAtr
  <2>3. TargetAtr * 100 \in Nat
    BY DEF TargetAtr
  <2>4. vol_scalar(bars) = Smaller((TargetAtr * 100) \div x, MaxVol)
    BY DEF vol_scalar
  <2>5. vol_scalar(b) = Smaller((TargetAtr * 100) \div y, MaxVol)
    BY DEF vol_scalar
  <2> HIDE DEF x, y
  <2>6. (TargetAtr * 100) \div y <= (TargetAtr * 100) \div x
    BY <2>2, <2>3, DivAntitone
  <2>7. (TargetAtr * 100) \div y \in Nat /\ (TargetAtr * 100) \div x \in Nat
    BY <2>2, <2>3, DivNat
  <2>8. QED
    BY <2>4, <2>5, <2>6, <2>7 DEF Smaller, MaxVol
<1> HIDE DEF n
<1>4. DOMAIN Window(b, n) = D /\ D = 1..Len(Window(bars, n))
  <2>1. /\ Len(Window(b, n)) = Len(Window(bars, n))
        /\ Window(b, n) \in Seq(Bar) /\ Window(bars, n) \in Seq(Bar)
    BY <1>1, WindowProperties
  <2>2. QED
    BY <2>1
<1>5. ASSUME NEW k \in D PROVE Volumes(b, n)[k] > 0 /\ Volumes(b, n)[k] <= Volumes(bars, n)[k]
  <2>1. Len(Window(b, n)) = Len(Window(bars, n)) /\ k \in 1..Len(Window(bars, n))
    BY <1>1, <1>4, WindowProperties
  <2>2. PICK l \in 1..Len(bars) : Window(bars, n)[k] = bars[l] /\ Window(b, n)[k] = b[l]
    BY <1>1, <2>1, WindowProperties
  <2>3. Volumes(bars, n)[k] = bars[l].volume /\ Volumes(b, n)[k] = b[l].volume
    BY <1>4, <2>2 DEF Volumes
  <2>4. bars[l].volume \in Nat /\ b[l].volume \in 1..bars[l].volume
    <3>1. bars[l] \in Bar
      BY ElementOfSeq
    <3>2. QED
      BY <1>1, <3>1 DEF Bar
  <2>5. QED
    BY <2>3, <2>4
<1>6. /\ IsFiniteSet(D) /\ D # {}
      /\ Volumes(bars, n) \in [D -> Int] /\ Volumes(b, n) \in [D -> Int]
      /\ Total(Volumes(bars, n)) \in Int /\ Total(Volumes(b, n)) \in Int
  BY <1>1, <1>4, WindowSums
<1> HIDE DEF D
<1>7. Total(Volumes(b, n)) > 0 /\ Total(Volumes(b, n)) <= Total(Volumes(bars, n))
  BY <1>5, <1>6, TotalMonotone, TotalPositive
<1>8. adv(b) = Total(Volumes(b, n)) /\ adv(bars) = Total(Volumes(bars, n))
  BY DEF adv, Volumes, n
<1>9. QED
  BY <1>1, <1>3, <1>6, <1>7, <1>8

\* Every argument of a call is of the type its validator accepts.
LEMMA InputTypes ==
    ASSUME NEW i \in Inputs
    PROVE  /\ i.cash \in Nat /\ i.equity \in Nat \ {0} /\ i.equity <= Peak /\ Peak \in Nat \ {0}
           /\ i.confidence \in Nat /\ i.reference \in Nat /\ i.bars \in Seq(Bar)
           /\ i.macro \in [cbr : Int, usd : Int, usdPrev : Int, imoex : Int, imoexPrev : Int]
<1>1. /\ i.cash \in Cash /\ i.equity \in Equities /\ i.confidence \in Confidences
      /\ i.reference \in Prices /\ i.bars \in Series /\ i.macro \in Snapshots
  BY DEF Inputs
<1>2. i.cash \in Nat /\ i.confidence \in Nat /\ i.reference \in Nat /\ i.equity \in 1..Peak /\ Peak \in Nat
  <2>1. /\ Cash \subseteq Nat /\ Equities \subseteq 1..Peak /\ Peak \in Nat
        /\ Confidences \subseteq 0..100 /\ Prices \subseteq Nat
    BY SizingAssumption
  <2>2. i.confidence \in 0..100
    BY <1>1, <2>1
  <2>3. i.confidence \in Nat
    BY <2>2
  <2>4. i.cash \in Nat /\ i.reference \in Nat
    BY <1>1, <2>1
  <2>5. i.equity \in 1..Peak
    BY <1>1, <2>1
  <2>6. QED
    BY <2>1, <2>3, <2>4, <2>5
<1>3. i.bars \in Seq(Bar)
  BY <1>1, SizingAssumption DEF Bar
<1>4. i.macro \in [cbr : Int, usd : Int, usdPrev : Int, imoex : Int, imoexPrev : Int]
  BY <1>1, SizingAssumption
<1>5. i.equity \in Nat \ {0} /\ i.equity <= Peak /\ Peak \in Nat \ {0}
  BY <1>2
<1>6. QED
  BY <1>2, <1>3, <1>4, <1>5

\* The price of an order is positive.
LEMMA PricePositive ==
    ASSUME NEW i \in Inputs
    PROVE  _reference_price(i) \in Nat \ {0}
<1>1. i.reference \in Nat /\ i.bars \in Seq(Bar)
  BY InputTypes
<1>2. CASE i.reference # None
  BY <1>1, <1>2 DEF _reference_price, None
<1>3. CASE i.reference = None /\ i.bars # <<>>
  <2>1. Len(i.bars) \in 1..Len(i.bars)
    BY <1>1, <1>3, EmptySeq
  <2>2. i.bars[Len(i.bars)] \in Bar
    BY <1>1, <2>1, ElementOfSeq
  <2>3. Last(i.bars).close \in Nat \ {0}
    BY <2>2 DEF Last, Bar
  <2>4. _reference_price(i) = Last(i.bars).close
    BY <1>3 DEF _reference_price
  <2>5. QED
    BY <2>3, <2>4
<1>4. CASE i.reference = None /\ i.bars = <<>>
  BY <1>4 DEF _reference_price
<1>5. QED
  BY <1>2, <1>3, <1>4

\* The liquidity scalar is a percentage and grows with a positive volume.
LEMMA LiquidityScalar ==
    ASSUME NEW v \in Int, NEW w \in Int, NEW cash \in Nat, NEW price \in Nat \ {0}
    PROVE  /\ _liquidity_scalar(v, cash, price) \in Nat
           /\ 0 < v /\ v <= w => _liquidity_scalar(v, cash, price) <= _liquidity_scalar(w, cash, price)
<1> DEFINE b == Of(Of(cash, RiskPct), MaxAdvPct)
           q(x) == (x * price * 100) \div b
           L(x) == IF x <= 0 \/ b <= 0 THEN MaxLiq ELSE Smaller(q(x), MaxLiq)
<1>1. b \in Nat
  <2>1. RiskPct \in Nat /\ MaxAdvPct \in Nat
    BY SizingAssumption DEF MaxAdvPct
  <2>2. Of(cash, RiskPct) \in Nat
    BY <2>1, OfNat
  <2>3. QED
    BY <2>1, <2>2, OfNat
<1>2. \A x \in Int : _liquidity_scalar(x, cash, price) = L(x)
  BY DEF _liquidity_scalar
<1> HIDE DEF b
<1>3. ASSUME NEW x \in Int, x > 0, b > 0
      PROVE  x * price * 100 \in Nat /\ q(x) \in Nat
  <2>1. x \in Nat
    BY <1>3
  <2>2. x * price * 100 \in Nat
    BY <2>1
  <2>3. QED
    BY <1>1, <1>3, <2>2, DivNat
<1>4. ASSUME NEW x \in Int PROVE L(x) \in Nat
  <2>1. CASE x <= 0 \/ b <= 0
    BY <2>1 DEF MaxLiq
  <2>2. CASE ~(x <= 0 \/ b <= 0)
    <3>1. q(x) \in Nat
      BY <1>1, <1>3, <2>2
    <3> HIDE DEF q
    <3>2. QED
      BY <2>2, <3>1 DEF Smaller, MaxLiq
  <2>3. QED
    BY <2>1, <2>2
<1>5. ASSUME 0 < v, v <= w PROVE L(v) <= L(w)
  <2>1. CASE b <= 0
    BY <2>1 DEF MaxLiq
  <2>2. CASE b > 0
    <3>1. w > 0 /\ v > 0
      BY <1>5
    <3>2. v * price * 100 <= w * price * 100
      <4>1. v * price <= w * price /\ v * price \in Int /\ w * price \in Int
        BY <1>5, ProductMonotone
      <4>2. QED
        BY <4>1
    <3>3. /\ q(v) \in Nat /\ q(w) \in Nat
          /\ v * price * 100 \in Int /\ w * price * 100 \in Int
      BY <1>3, <2>2, <3>1
    <3>4. q(v) <= q(w)
      BY <1>1, <2>2, <3>2, <3>3, DivMonotone
    <3>5. L(v) = Smaller(q(v), MaxLiq) /\ L(w) = Smaller(q(w), MaxLiq)
      BY <1>1, <2>2, <3>1
    <3> HIDE DEF q, L
    <3>6. QED
      BY <3>3, <3>4, <3>5 DEF Smaller, MaxLiq
  <2>3. QED
    BY <1>1, <2>1, <2>2
<1>6. QED
  BY <1>2, <1>4, <1>5

\* The drawdown curve is a percentage, and a deeper drawdown is not scaled up.
LEMMA DrawdownCurve ==
    ASSUME NEW d \in Nat, NEW e \in Nat, d <= e
    PROVE  /\ drawdown_reduction_curve(d) \in Nat
           /\ drawdown_reduction_curve(e) <= drawdown_reduction_curve(d)
  BY DEF drawdown_reduction_curve, DDFloor, DDKnee

LEMMA DrawdownType ==
    ASSUME NEW i \in Inputs
    PROVE  drawdown_pct(i) \in Nat
<1>1. Peak \in Nat \ {0} /\ (Peak - i.equity) * 100 \in Nat
  BY InputTypes
<1>2. QED
  BY <1>1, DivNat DEF drawdown_pct

\* The regime scalar is a percentage, and no macro figure that gets worse raises it.
LEMMA RegimeScalar ==
    ASSUME NEW m \in [cbr : Int, usd : Int, usdPrev : Int, imoex : Int, imoexPrev : Int]
    PROVE  regime_scalar(classify(m)) \in Nat
<1>1. classify(m) \in {"risk_off", "risk_on_reduced", "neutral"}
  BY DEF classify
<1>2. QED
  BY <1>1 DEF regime_scalar

LEMMA RegimeAntitone ==
    ASSUME NEW m \in [cbr : Int, usd : Int, usdPrev : Int, imoex : Int, imoexPrev : Int],
           NEW x \in [cbr : Int, usd : Int, usdPrev : Int, imoex : Int, imoexPrev : Int],
           x.usdPrev = m.usdPrev, x.imoexPrev = m.imoexPrev,
           x.cbr >= m.cbr, x.usd >= m.usd, x.imoex <= m.imoex
    PROVE  regime_scalar(classify(x)) <= regime_scalar(classify(m))
<1> DEFINE off(y) == y.cbr > 15 \/ (y.imoexPrev # 0 /\ (y.imoexPrev - y.imoex) * 100 > 20 * y.imoexPrev)
           reduced(y) == y.usdPrev # 0 /\ (y.usd - y.usdPrev) * 100 > 5 * y.usdPrev
<1>1. /\ m.cbr \in Int /\ m.usd \in Int /\ m.usdPrev \in Int /\ m.imoex \in Int /\ m.imoexPrev \in Int
      /\ x.cbr \in Int /\ x.usd \in Int /\ x.imoex \in Int
  OBVIOUS
<1>2. off(m) => off(x)
  BY <1>1
<1>3. reduced(m) => reduced(x)
  BY <1>1
<1>4. /\ classify(m) = IF off(m) THEN "risk_off" ELSE IF reduced(m) THEN "risk_on_reduced" ELSE "neutral"
      /\ classify(x) = IF off(x) THEN "risk_off" ELSE IF reduced(x) THEN "risk_on_reduced" ELSE "neutral"
  BY DEF classify
<1> HIDE DEF off, reduced
<1>5. /\ regime_scalar("risk_off") = 50 /\ regime_scalar("risk_on_reduced") = 75
      /\ regime_scalar("neutral") = 100
  BY DEF regime_scalar
<1>6. CASE off(x)
  BY <1>4, <1>5, <1>6
<1>7. CASE ~off(x) /\ reduced(x)
  BY <1>2, <1>4, <1>5, <1>7
<1>8. CASE ~off(x) /\ ~reduced(x)
  BY <1>2, <1>3, <1>4, <1>5, <1>8
<1>9. QED
  BY <1>6, <1>7, <1>8

-----------------------------------------------------------------------------
(* The size of an order.                                                     *)

Raw(i) ==
    Of(Of(Of(Of(Of(Of(i.cash, RiskPct), vol_scalar(i.bars)),
         _liquidity_scalar(adv(i.bars), i.cash, _reference_price(i))),
         drawdown_reduction_curve(drawdown_pct(i))),
         regime_scalar(classify(i.macro))), i.confidence)
Affordable(i) == _cap_against_cash(Raw(i), i.cash) \div _reference_price(i)

\* compute_position_size in terms of the two.
LEMMA SizeIs ==
    ASSUME NEW i \in Inputs
    PROVE  LET z == compute_position_size(i)
               q == _quantize_lots(Affordable(i))
           IN  /\ z.price = _reference_price(i)
               /\ i.bars = <<>> \/ i.cash <= 0 \/ q < MinLots => z.quantity = 0 /\ z.skip = TRUE
               /\ ~(i.bars = <<>> \/ i.cash <= 0 \/ q < MinLots) =>
                     z.quantity = q * LotSize /\ z.skip = FALSE
  BY DEF compute_position_size, Affordable, Raw

\* Every scalar of a call with bars is a percentage.
LEMMA ScalarTypes ==
    ASSUME NEW x \in Inputs, x.bars # <<>>
    PROVE  /\ Of(x.cash, RiskPct) \in Nat /\ vol_scalar(x.bars) \in Nat
           /\ _liquidity_scalar(adv(x.bars), x.cash, _reference_price(x)) \in Nat
           /\ drawdown_reduction_curve(drawdown_pct(x)) \in Nat
           /\ regime_scalar(classify(x.macro)) \in Nat /\ x.confidence \in Nat
<1>1. x.cash \in Nat /\ x.confidence \in Nat /\ x.bars \in Seq(Bar)
  BY InputTypes
<1>2. Of(x.cash, RiskPct) \in Nat
  <2>1. RiskPct \in Nat
    BY SizingAssumption
  <2>2. QED
    BY <1>1, <2>1, OfNat
<1>3. vol_scalar(x.bars) \in Nat
  BY <1>1, VolType
<1>4. _liquidity_scalar(adv(x.bars), x.cash, _reference_price(x)) \in Nat
  <2>1. adv(x.bars) \in Int
    BY <1>1, WindowSums, SizingAssumption DEF adv, Volumes
  <2>2. QED
    BY <1>1, <2>1, PricePositive, LiquidityScalar
<1>5. drawdown_reduction_curve(drawdown_pct(x)) \in Nat
  BY DrawdownType, DrawdownCurve
<1>6. regime_scalar(classify(x.macro)) \in Nat
  BY InputTypes, RegimeScalar
<1>7. QED
  BY <1>1, <1>2, <1>3, <1>4, <1>5, <1>6

\* The product of the scalars is a whole amount that no smaller scalar raises.
LEMMA RawMonotone ==
    ASSUME NEW i \in Inputs, NEW j \in Inputs, i.bars # <<>>, j.bars # <<>>, i.cash = j.cash,
           vol_scalar(j.bars) <= vol_scalar(i.bars),
           _liquidity_scalar(adv(j.bars), j.cash, _reference_price(j))
              <= _liquidity_scalar(adv(i.bars), i.cash, _reference_price(i)),
           drawdown_reduction_curve(drawdown_pct(j)) <= drawdown_reduction_curve(drawdown_pct(i)),
           regime_scalar(classify(j.macro)) <= regime_scalar(classify(i.macro)),
           j.confidence <= i.confidence
    PROVE  Raw(i) \in Nat /\ Raw(j) \in Nat /\ Raw(j) <= Raw(i)
<1> DEFINE V(x) == vol_scalar(x.bars)
           L(x) == _liquidity_scalar(adv(x.bars), x.cash, _reference_price(x))
           C(x) == drawdown_reduction_curve(drawdown_pct(x))
           R(x) == regime_scalar(classify(x.macro))
<1>1. ASSUME NEW x \in Inputs, x.bars # <<>>
      PROVE  /\ Of(x.cash, RiskPct) \in Nat /\ V(x) \in Nat /\ L(x) \in Nat
             /\ C(x) \in Nat /\ R(x) \in Nat /\ x.confidence \in Nat
  BY <1>1, ScalarTypes
<1> DEFINE b == Of(i.cash, RiskPct)
<1>2. /\ b \in Nat /\ V(i) \in Nat /\ L(i) \in Nat /\ C(i) \in Nat /\ R(i) \in Nat
      /\ V(j) \in Nat /\ L(j) \in Nat /\ C(j) \in Nat /\ R(j) \in Nat
      /\ i.confidence \in Nat /\ j.confidence \in Nat
  BY <1>1
<1>3. V(j) <= V(i) /\ L(j) <= L(i) /\ C(j) <= C(i) /\ R(j) <= R(i)
  OBVIOUS
<1>4. /\ Raw(i) = Of(Of(Of(Of(Of(b, V(i)), L(i)), C(i)), R(i)), i.confidence)
      /\ Raw(j) = Of(Of(Of(Of(Of(b, V(j)), L(j)), C(j)), R(j)), j.confidence)
  BY DEF Raw
<1> DEFINE v == V(j) l == L(j) c == C(j) r == R(j) s == j.confidence
           v2 == V(i) l2 == L(i) c2 == C(i) r2 == R(i) s2 == i.confidence
<1>5. /\ b \in Nat
      /\ v \in Nat /\ l \in Nat /\ c \in Nat /\ r \in Nat /\ s \in Nat
      /\ v2 \in Nat /\ l2 \in Nat /\ c2 \in Nat /\ r2 \in Nat /\ s2 \in Nat
      /\ v <= v2 /\ l <= l2 /\ c <= c2 /\ r <= r2 /\ s <= s2
  BY <1>2, <1>3
<1>6. /\ Raw(i) = Of(Of(Of(Of(Of(b, v2), l2), c2), r2), s2)
      /\ Raw(j) = Of(Of(Of(Of(Of(b, v), l), c), r), s)
  BY <1>4
<1> HIDE DEF b, v, l, c, r, s, v2, l2, c2, r2, s2
<1> DEFINE x1 == Of(b, v)  y1 == Of(b, v2)
           x2 == Of(x1, l) y2 == Of(y1, l2)
           x3 == Of(x2, c) y3 == Of(y2, c2)
           x4 == Of(x3, r) y4 == Of(y3, r2)
<1>7. Raw(j) = Of(x4, s) /\ Raw(i) = Of(y4, s2)
  BY <1>6
<1>8. x1 \in Nat /\ y1 \in Nat /\ x1 <= y1
  <2>1. b <= b
    BY <1>5
  <2>2. QED
    BY <1>5, <2>1, OfMonotone
<1> HIDE DEF x1, y1
<1>9. x2 \in Nat /\ y2 \in Nat /\ x2 <= y2
  BY <1>5, <1>8, OfMonotone
<1> HIDE DEF x2, y2
<1>10. x3 \in Nat /\ y3 \in Nat /\ x3 <= y3
  BY <1>5, <1>9, OfMonotone
<1> HIDE DEF x3, y3
<1>11. x4 \in Nat /\ y4 \in Nat /\ x4 <= y4
  BY <1>5, <1>10, OfMonotone
<1> HIDE DEF x4, y4
<1>12. QED
  BY <1>5, <1>7, <1>11, OfMonotone

LEMMA RawNat ==
    ASSUME NEW i \in Inputs, i.bars # <<>>
    PROVE  Raw(i) \in Nat
  BY ScalarTypes, OfNat DEF Raw

\* A call with no larger a product and the same cash and price orders no more.
LEMMA SizeMonotone ==
    ASSUME NEW i \in Inputs, NEW j \in Inputs, i.bars # <<>>, i.cash = j.cash,
           _reference_price(i) = _reference_price(j),
           Raw(i) \in Nat, Raw(j) \in Nat, Raw(j) <= Raw(i)
    PROVE  compute_position_size(j).quantity <= compute_position_size(i).quantity
<1> DEFINE p == _reference_price(i)
           c == Of(i.cash, MaxCashPct)
<1>1. p \in Nat \ {0} /\ LotSize \in Nat \ {0} /\ i.cash \in Nat
  BY PricePositive, SizingAssumption, InputTypes
<1>2. c \in Nat
  BY <1>1, OfNat DEF MaxCashPct
<1>3. /\ Affordable(i) = _cap_against_cash(Raw(i), i.cash) \div p
      /\ Affordable(j) = _cap_against_cash(Raw(j), i.cash) \div p
  BY DEF Affordable
<1>4. /\ _cap_against_cash(Raw(i), i.cash) = Smaller(Raw(i), c)
      /\ _cap_against_cash(Raw(j), i.cash) = Smaller(Raw(j), c)
  BY DEF _cap_against_cash
<1> HIDE DEF p, c
<1>5. /\ Smaller(Raw(i), c) \in Nat /\ Smaller(Raw(j), c) \in Nat
      /\ Smaller(Raw(j), c) <= Smaller(Raw(i), c)
  BY <1>2 DEF Smaller
<1>6. Affordable(i) \in Nat /\ Affordable(j) \in Nat /\ Affordable(j) <= Affordable(i)
  <2> DEFINE x == Smaller(Raw(i), c)
             y == Smaller(Raw(j), c)
  <2>1. x \in Nat /\ y \in Nat /\ y <= x /\ Affordable(i) = x \div p /\ Affordable(j) = y \div p
    BY <1>3, <1>4, <1>5
  <2> HIDE DEF x, y
  <2>2. x \div p \in Nat /\ y \div p \in Nat
    BY <1>1, <2>1, DivNat
  <2>3. y \div p <= x \div p
    BY <1>1, <2>1, DivMonotone
  <2>4. QED
    BY <2>1, <2>2, <2>3
<1> DEFINE m == _quantize_lots(Affordable(i))
           n == _quantize_lots(Affordable(j))
<1>7. m \in Nat /\ n \in Nat /\ n <= m
  <2>1. \A a \in Nat : _quantize_lots(a) = a \div LotSize
    <3>1. 0 \div LotSize = 0
      <4>1. /\ 0 \div LotSize \in Nat /\ (0 \div LotSize) * LotSize <= 0
        BY <1>1, DivNat, DivBounds
      <4>2. QED
        BY <1>1, <4>1
    <3>2. QED
      BY <3>1 DEF _quantize_lots
  <2>2. m = Affordable(i) \div LotSize /\ n = Affordable(j) \div LotSize
    BY <1>6, <2>1
  <2>3. Affordable(i) \div LotSize \in Nat /\ Affordable(j) \div LotSize \in Nat
    BY <1>1, <1>6, DivNat
  <2>4. Affordable(j) \div LotSize <= Affordable(i) \div LotSize
    <3>1. Affordable(i) \in Int /\ Affordable(j) \in Int
      BY <1>6
    <3>2. QED
      BY <1>1, <1>6, <3>1, DivMonotone
  <2>5. QED
    BY <2>2, <2>3, <2>4
<1>8. m * LotSize \in Nat /\ n * LotSize \in Nat /\ n * LotSize <= m * LotSize
  <2> HIDE DEF m, n
  <2> QED
    BY <1>1, <1>7, ProductMonotone
<1>9. /\ j.bars = <<>> \/ j.cash <= 0 \/ n < MinLots => compute_position_size(j).quantity = 0
      /\ ~(j.bars = <<>> \/ j.cash <= 0 \/ n < MinLots) => compute_position_size(j).quantity = n * LotSize
  BY SizeIs
<1>10. /\ i.bars = <<>> \/ i.cash <= 0 \/ m < MinLots => compute_position_size(i).quantity = 0
       /\ ~(i.bars = <<>> \/ i.cash <= 0 \/ m < MinLots) => compute_position_size(i).quantity = m * LotSize
  BY SizeIs
<1> HIDE DEF m, n
<1>11. CASE j.bars = <<>> \/ j.cash <= 0 \/ n < MinLots
  <2>1. compute_position_size(i).quantity \in Nat
    BY <1>8, <1>10
  <2>2. QED
    BY <1>9, <1>11, <2>1
<1>12. CASE ~(j.bars = <<>> \/ j.cash <= 0 \/ n < MinLots)
  <2>1. ~(i.bars = <<>> \/ i.cash <= 0 \/ m < MinLots)
    BY <1>7, <1>12 DEF MinLots
  <2>2. QED
    BY <1>8, <1>9, <1>10, <1>12, <2>1
<1>13. QED
  BY <1>11, <1>12

\* An order is at most a tenth of the cash, and is skipped when it is empty.
LEMMA SizeCapped ==
    ASSUME NEW i \in Inputs
    PROVE  LET z == compute_position_size(i)
           IN  z.quantity * z.price <= Of(i.cash, MaxCashPct) /\ (z.skip <=> z.quantity = 0)
<1> DEFINE p == _reference_price(i)
           c == Of(i.cash, MaxCashPct)
           a == Affordable(i)
           n == _quantize_lots(a)
           z == compute_position_size(i)
<1>1. p \in Nat \ {0} /\ LotSize \in Nat \ {0} /\ i.cash \in Nat
  BY PricePositive, SizingAssumption, InputTypes
<1>2. c \in Nat
  BY <1>1, OfNat DEF MaxCashPct
<1>3. /\ z.price = p
      /\ i.bars = <<>> \/ i.cash <= 0 \/ n < MinLots => z.quantity = 0 /\ z.skip = TRUE
      /\ ~(i.bars = <<>> \/ i.cash <= 0 \/ n < MinLots) => z.quantity = n * LotSize /\ z.skip = FALSE
  BY SizeIs
<1>4. a = _cap_against_cash(Raw(i), i.cash) \div p
  BY DEF Affordable
<1>5. n = IF a <= 0 THEN 0 ELSE a \div LotSize
  BY DEF _quantize_lots
<1> HIDE DEF p, c, a, n, z
<1>6. CASE i.bars = <<>> \/ i.cash <= 0 \/ n < MinLots
  <2>1. z.quantity * z.price = 0
    BY <1>1, <1>3, <1>6
  <2>2. QED
    BY <1>2, <1>3, <1>6, <2>1 DEF c, z
<1>7. CASE ~(i.bars = <<>> \/ i.cash <= 0 \/ n < MinLots)
  <2>1. Raw(i) \in Nat
    BY <1>7, RawNat
  <2>2. Smaller(Raw(i), c) \in Nat /\ Smaller(Raw(i), c) <= c
    BY <1>2, <2>1 DEF Smaller
  <2>3. a = Smaller(Raw(i), c) \div p
    BY <1>4 DEF _cap_against_cash, c
  <2>4. a \in Nat /\ a * p <= Smaller(Raw(i), c)
    BY <1>1, <2>2, <2>3, DivNat, DivBounds
  <2>5. a * p <= c
    BY <1>1, <1>2, <2>2, <2>4
  <2>6. n \in Nat /\ n * LotSize <= a
    <3>1. CASE a <= 0
      BY <1>1, <1>5, <2>4, <3>1
    <3>2. CASE ~(a <= 0)
      BY <1>1, <1>5, <2>4, <3>2, DivNat, DivBounds
    <3>3. QED
      BY <3>1, <3>2
  <2>7. n >= 1
    BY <1>7, <2>6 DEF MinLots
  <2>8. n * LotSize \in Nat /\ n * LotSize # 0
    BY <1>1, <2>6, <2>7
  <2>9. (n * LotSize) * p <= a * p
    BY <1>1, <2>4, <2>6, <2>8, ProductMonotone
  <2>10. (n * LotSize) * p \in Int /\ a * p \in Int
    BY <1>1, <2>4, <2>8
  <2>11. (n * LotSize) * p <= c
    BY <1>2, <2>5, <2>9, <2>10
  <2>12. z.quantity = n * LotSize /\ z.skip = FALSE /\ z.price = p
    BY <1>3, <1>7
  <2>13. z.quantity * z.price <= c
    BY <2>11, <2>12
  <2>14. z.skip <=> z.quantity = 0
    BY <2>8, <2>12
  <2>15. QED
    BY <2>13, <2>14 DEF c, z
<1>8. QED
  BY <1>6, <1>7

\* A call with one condition worse is still a call, and orders no more.
LEMMA WorseSizes ==
    ASSUME NEW i \in Inputs, NEW j \in Worse(i)
    PROVE  compute_position_size(j).quantity <= compute_position_size(i).quantity
<1> DEFINE V(x) == vol_scalar(x.bars)
           L(x) == _liquidity_scalar(adv(x.bars), x.cash, _reference_price(x))
           C(x) == drawdown_reduction_curve(drawdown_pct(x))
           R(x) == regime_scalar(classify(x.macro))
           Same(x) == /\ x \in Inputs /\ x.cash = i.cash
                      /\ _reference_price(x) = _reference_price(i)
                      /\ x.bars = <<>> <=> i.bars = <<>>
           NoBetter(x) == V(x) <= V(i) /\ L(x) <= L(i) /\ C(x) <= C(i) /\ R(x) <= R(i)
                          /\ x.confidence <= i.confidence
<1>1. ASSUME Same(j), i.bars # <<>> => NoBetter(j)
      PROVE  compute_position_size(j).quantity <= compute_position_size(i).quantity
  <2>1. CASE i.bars = <<>>
    <3>1. compute_position_size(i).quantity = 0 /\ compute_position_size(j).quantity = 0
      BY <1>1, <2>1, SizeIs
    <3>2. QED
      BY <3>1
  <2>2. CASE i.bars # <<>>
    <3>1. Raw(i) \in Nat /\ Raw(j) \in Nat /\ Raw(j) <= Raw(i)
      BY <1>1, <2>2, RawMonotone
    <3>2. QED
      BY <1>1, <2>2, <3>1, SizeMonotone
  <2>3. QED
    BY <2>1, <2>2
<1>2. i = [cash |-> i.cash, equity |-> i.equity, confidence |-> i.confidence,
           reference |-> i.reference, bars |-> i.bars, macro |-> i.macro]
  BY DEF Inputs
<1>3. /\ i.cash \in Cash /\ i.equity \in Equities /\ i.confidence \in Confidences
      /\ i.reference \in Prices /\ i.bars \in Series /\ i.macro \in Snapshots
  BY DEF Inputs
<1>4. i.bars # <<>> => V(i) <= V(i) /\ L(i) <= L(i) /\ C(i) <= C(i) /\ R(i) <= R(i)
                       /\ i.confidence <= i.confidence
  BY ScalarTypes
<1>5. ASSUME NEW e \in Equities, e < i.equity, j = [i EXCEPT !.equity = e]
      PROVE  Same(j) /\ (i.bars # <<>> => NoBetter(j))
  <2>1. /\ j \in Inputs /\ j.cash = i.cash /\ j.bars = i.bars /\ j.macro = i.macro
        /\ j.reference = i.reference /\ j.confidence = i.confidence /\ j.equity = e
    BY <1>5 DEF Inputs
  <2>2. _reference_price(j) = _reference_price(i)
    BY <2>1 DEF _reference_price
  <2>3. C(j) <= C(i)
    <3>1. /\ Peak \in Nat \ {0} /\ (Peak - i.equity) * 100 \in Int /\ (Peak - e) * 100 \in Int
          /\ (Peak - i.equity) * 100 <= (Peak - e) * 100
      <4>1. Peak \in Nat \ {0} /\ i.equity \in Nat
        BY InputTypes
      <4>2. e \in Nat
        BY <2>1, InputTypes
      <4>3. QED
        BY <1>5, <4>1, <4>2
    <3>2. drawdown_pct(i) <= drawdown_pct(j)
      BY <2>1, <3>1, DivMonotone DEF drawdown_pct
    <3>3. QED
      BY <2>1, <3>2, DrawdownType, DrawdownCurve
  <2>4. V(j) = V(i) /\ L(j) = L(i) /\ R(j) = R(i)
    BY <2>1, <2>2
  <2>5. QED
    BY <1>4, <2>1, <2>2, <2>3, <2>4
<1>6. ASSUME NEW c \in Confidences, c < i.confidence, j = [i EXCEPT !.confidence = c]
      PROVE  Same(j) /\ (i.bars # <<>> => NoBetter(j))
  <2>1. /\ j \in Inputs /\ j.cash = i.cash /\ j.bars = i.bars /\ j.macro = i.macro
        /\ j.reference = i.reference /\ j.confidence = c /\ j.equity = i.equity
    BY <1>6 DEF Inputs
  <2>2. _reference_price(j) = _reference_price(i)
    BY <2>1 DEF _reference_price
  <2>3. V(j) = V(i) /\ L(j) = L(i) /\ R(j) = R(i) /\ C(j) = C(i)
    BY <2>1, <2>2 DEF drawdown_pct
  <2>4. j.confidence <= i.confidence
    <3>1. i.confidence \in Nat
      BY InputTypes
    <3>2. j.confidence \in Nat
      BY <2>1, InputTypes
    <3>3. QED
      BY <1>6, <2>1, <3>1, <3>2
  <2>5. QED
    BY <1>4, <2>1, <2>2, <2>3, <2>4
<1>7. ASSUME NEW m \in Snapshots,
             m.usdPrev = i.macro.usdPrev, m.imoexPrev = i.macro.imoexPrev,
             m.cbr >= i.macro.cbr, m.usd >= i.macro.usd, m.imoex <= i.macro.imoex,
             j = [i EXCEPT !.macro = m]
      PROVE  Same(j) /\ (i.bars # <<>> => NoBetter(j))
  <2>1. /\ j \in Inputs /\ j.cash = i.cash /\ j.bars = i.bars /\ j.macro = m
        /\ j.reference = i.reference /\ j.confidence = i.confidence /\ j.equity = i.equity
    BY <1>7 DEF Inputs
  <2>2. _reference_price(j) = _reference_price(i)
    BY <2>1 DEF _reference_price
  <2>3. V(j) = V(i) /\ L(j) = L(i) /\ C(j) = C(i)
    BY <2>1, <2>2 DEF drawdown_pct
  <2>4. R(j) <= R(i)
    <3>1. /\ m \in [cbr : Int, usd : Int, usdPrev : Int, imoex : Int, imoexPrev : Int]
          /\ i.macro \in [cbr : Int, usd : Int, usdPrev : Int, imoex : Int, imoexPrev : Int]
      BY <2>1, InputTypes
    <3>2. regime_scalar(classify(m)) <= regime_scalar(classify(i.macro))
      BY <1>7, <3>1, RegimeAntitone
    <3>3. QED
      BY <2>1, <3>2
  <2>5. QED
    BY <1>4, <2>1, <2>2, <2>3, <2>4
<1>8. ASSUME NEW b \in WorseBars(i.bars), j = [i EXCEPT !.bars = b]
      PROVE  Same(j) /\ (i.bars # <<>> => NoBetter(j))
  <2>1. /\ b \in Series /\ Len(b) = Len(i.bars)
        /\ \A k \in DOMAIN b :
              /\ b[k].close = i.bars[k].close
              /\ i.bars[k].low <= i.bars[k].high
              /\ b[k].high - b[k].low >= i.bars[k].high - i.bars[k].low
              /\ b[k].volume \in 1..i.bars[k].volume
    BY <1>8 DEF WorseBars
  <2>2. /\ j \in Inputs /\ j.cash = i.cash /\ j.bars = b /\ j.macro = i.macro
        /\ j.reference = i.reference /\ j.confidence = i.confidence /\ j.equity = i.equity
    BY <1>8, <2>1 DEF Inputs
  <2>3. b \in Seq(Bar) /\ i.bars \in Seq(Bar) /\ i.cash \in Nat
    BY <2>2, InputTypes
  <2>4. b = <<>> <=> i.bars = <<>>
    BY <2>1, <2>3, EmptySeq
  <2>5. ASSUME i.bars # <<>> PROVE Last(b).close = Last(i.bars).close
    <3>1. Len(b) \in DOMAIN b
      BY <2>3, <2>4, <2>5, EmptySeq
    <3>2. QED
      BY <2>1, <3>1 DEF Last
  <2>6. _reference_price(j) = _reference_price(i)
    BY <2>2, <2>4, <2>5 DEF _reference_price
  <2>7. C(j) = C(i) /\ R(j) = R(i)
    BY <2>2 DEF drawdown_pct
  <2>8. ASSUME i.bars # <<>> PROVE V(j) <= V(i) /\ L(j) <= L(i)
    <3>1. /\ vol_scalar(b) <= vol_scalar(i.bars)
          /\ adv(b) \in Nat \ {0} /\ adv(i.bars) \in Nat \ {0} /\ adv(b) <= adv(i.bars)
      BY <2>1, <2>3, <2>8, WorseBarsScalars
    <3>2. _reference_price(i) \in Nat \ {0}
      BY PricePositive
    <3>3. adv(b) \in Int /\ adv(i.bars) \in Int /\ 0 < adv(b)
      BY <3>1
    <3>4. _liquidity_scalar(adv(b), i.cash, _reference_price(i))
             <= _liquidity_scalar(adv(i.bars), i.cash, _reference_price(i))
      BY <2>3, <3>1, <3>2, <3>3, LiquidityScalar
    <3>5. QED
      BY <2>2, <2>6, <3>1, <3>4
  <2>9. QED
    BY <1>4, <2>2, <2>4, <2>6, <2>7, <2>8
<1> HIDE DEF Same, NoBetter
<1>9. QED
  BY <1>1, <1>5, <1>6, <1>7, <1>8 DEF Worse

\* Until the hook takes it, the order is the one computed from the arguments.
SizedInv == pc = "sized" => input \in Inputs /\ spec = compute_position_size(input)

\* Every order of every account, signal, series and macro snapshot the
\* validators accept is at most a tenth of the cash, is skipped exactly when it
\* is empty, and is no smaller than the order of a call that differs in one
\* worse condition (compute_position_size).
THEOREM MoreRiskBuysNoMore == Spec => []WorseNeverSizesMore
<1>1. Init => SizedInv
  BY DEF Init, SizedInv
<1>2. SizedInv /\ [Next]_vars => SizedInv'
  BY DEF SizedInv, Next, vars, Hook, Read, ReadFails, OpenTmp, WriteTmp, Replace, WriteFails,
         Kill, Call
<1>3. SizedInv => WorseNeverSizesMore
  BY SizeCapped, WorseSizes DEF SizedInv, WorseNeverSizesMore
<1>4. QED
  BY <1>1, <1>2, <1>3, PTL DEF Spec

-----------------------------------------------------------------------------
(* The ingestion gate.                                                       *)

\* A finite, non-empty set of natural numbers has a largest and a least member.
LEMMA LargestExists ==
    ASSUME NEW S, IsFiniteSet(S), S \subseteq Nat, S # {}
    PROVE  \E m \in S : \A y \in S : y <= m
<1> DEFINE Good(T) == \E m \in T : \A y \in T : y <= m
           Bad == {T \in SUBSET S : T # {} /\ ~Good(T)}
           Sizes == {Cardinality(T) : T \in Bad}
<1>1. \A T \in SUBSET S : IsFiniteSet(T) /\ Cardinality(T) \in Nat
  BY FS_Subset, FS_CardinalityType
<1>2. ASSUME Bad # {} PROVE FALSE
  <2>1. Sizes \subseteq Nat /\ Sizes # {}
    BY <1>1, <1>2
  <2>2. PICK n \in Sizes : \A m \in Sizes : n <= m
    <3> HIDE DEF Sizes
    <3> QED
      BY <2>1, NatMin
  <2>3. PICK T \in Bad : n = Cardinality(T)
    BY <2>2
  <2>4. T \in SUBSET S /\ T # {} /\ ~Good(T)
    BY <2>3
  <2>5. PICK x \in T : TRUE
    BY <2>4
  <2>6. Cardinality(T \ {x}) = Cardinality(T) - 1 /\ Cardinality(T) \in Nat /\ T \ {x} \in SUBSET S
    BY <1>1, <2>4, FS_RemoveElement
  <2>7. T \ {x} \notin Bad
    <3>1. Cardinality(T \ {x}) \notin Sizes
      <4> HIDE DEF Sizes
      <4> QED
        BY <2>2, <2>3, <2>6
    <3>2. QED
      BY <3>1
  <2>8. CASE T \ {x} = {}
    <3>1. T = {x} /\ x \in Nat
      BY <2>4, <2>5, <2>8
    <3>2. Good(T)
      BY <3>1
    <3>3. QED
      BY <2>4, <3>2
  <2>9. CASE T \ {x} # {}
    <3>1. PICK m \in T \ {x} : \A y \in T \ {x} : y <= m
      BY <2>6, <2>7, <2>9
    <3>2. \A y \in T : y \in Nat
      BY <2>4
    <3>3. Good(T)
      <4>1. CASE x <= m
        BY <3>1, <3>2, <4>1
      <4>2. CASE ~(x <= m)
        <5>1. \A y \in T : y <= x
          BY <3>1, <3>2, <4>2
        <5>2. QED
          BY <2>5, <5>1
      <4>3. QED
        BY <4>1, <4>2
    <3>4. QED
      BY <2>4, <3>3
  <2>10. QED
    BY <2>8, <2>9
<1>3. Good(S)
  BY <1>2
<1>4. QED
  BY <1>3

LEMMA MaxMin ==
    ASSUME NEW S, IsFiniteSet(S), S \subseteq Nat, S # {}
    PROVE  /\ Max(S) \in S /\ \A y \in S : y <= Max(S)
           /\ Min(S) \in S /\ \A y \in S : Min(S) <= y
<1>1. Max(S) \in S /\ \A y \in S : Max(S) >= y
  <2>1. \E m \in S : \A y \in S : m >= y
    <3>1. PICK m \in S : \A y \in S : y <= m
      BY LargestExists
    <3>2. \A y \in S : y \in Nat
      OBVIOUS
    <3>3. QED
      BY <3>1, <3>2
  <2>2. QED
    BY <2>1 DEF Max
<1>2. Min(S) \in S /\ \A y \in S : Min(S) <= y
  <2>1. \E m \in S : \A y \in S : m <= y
    BY NatMin
  <2>2. QED
    BY <2>1 DEF Min
<1>3. QED
  BY <1>1, <1>2

LEMMA MaxMinPair ==
    ASSUME NEW x \in Nat, NEW y \in Nat
    PROVE  /\ Max({x, y}) \in Nat /\ x <= Max({x, y}) /\ y <= Max({x, y})
           /\ Min({x, y}) \in Nat /\ Min({x, y}) <= x /\ Min({x, y}) <= y
<1> DEFINE S == {x, y}
<1>1. IsFiniteSet({x}) /\ {x, y} = {x} \cup {y}
  BY FS_Singleton
<1>2. IsFiniteSet(S) /\ S \subseteq Nat /\ S # {}
  <2>1. IsFiniteSet({x} \cup {y})
    BY <1>1, FS_AddElement
  <2>2. QED
    BY <1>1, <2>1
<1>3. x \in S /\ y \in S
  OBVIOUS
<1> HIDE DEF S
<1>4. /\ Max(S) \in S /\ \A z \in S : z <= Max(S)
      /\ Min(S) \in S /\ \A z \in S : Min(S) <= z
  BY <1>2, MaxMin
<1>5. QED
  BY <1>2, <1>3, <1>4 DEF S

\* The kinds the ingestion gate reports.
IngestionKinds ==
    {"NAN_PRICE", "RANGE_VIOLATION", "COVERAGE_LOW", "INSUFFICIENT_HISTORY", "STALE_DATA",
     "LARGE_GAP", "LOW_VOLUME"}

LEMMA Severities ==
    /\ _ISSUE_SEVERITY("NAN_PRICE") = 4 /\ _ISSUE_SEVERITY("RANGE_VIOLATION") = 3
    /\ _ISSUE_SEVERITY("COVERAGE_LOW") = 3 /\ _ISSUE_SEVERITY("INSUFFICIENT_HISTORY") = 3
    /\ _ISSUE_SEVERITY("STALE_DATA") = 3 /\ _ISSUE_SEVERITY("LARGE_GAP") = 2
    /\ _ISSUE_SEVERITY("LOW_VOLUME") = 1
  BY DEF _ISSUE_SEVERITY

\* A report whose worst severity is below HIGH has no issue that is HIGH or worse.
LEMMA NothingHigh ==
    ASSUME NEW kinds \in SUBSET IngestionKinds, worst_severity(kinds) < HIGH
    PROVE  kinds \subseteq {"LARGE_GAP", "LOW_VOLUME"}
<1> DEFINE S == { _ISSUE_SEVERITY(k) : k \in kinds } \cup {0}
<1>1. S \subseteq 0..4
  BY Severities DEF IngestionKinds
<1>2. IsFiniteSet(S) /\ S \subseteq Nat /\ S # {}
  <2>1. IsFiniteSet(0..4) /\ 0..4 \subseteq Nat
    <3>1. 0 \in Int /\ 4 \in Int /\ 0..4 \subseteq Nat
      OBVIOUS
    <3>2. IsFiniteSet(0..4)
      BY <3>1, FS_Interval, Zenon
    <3>3. QED
      BY <3>1, <3>2
  <2>2. 0 \in S
    OBVIOUS
  <2> HIDE DEF S
  <2>3. S \in SUBSET (0..4)
    BY <1>1
  <2>4. IsFiniteSet(S)
    BY <2>1, <2>3, FS_Subset
  <2>5. QED
    BY <2>1, <2>2, <2>3, <2>4
<1>3. worst_severity(kinds) = Max(S)
  BY DEF worst_severity
<1>4. \A k \in kinds : _ISSUE_SEVERITY(k) \in S
  OBVIOUS
<1> HIDE DEF S
<1>5. Max(S) \in S /\ \A y \in S : y <= Max(S)
  BY <1>2, MaxMin
<1>6. \A k \in kinds : _ISSUE_SEVERITY(k) < 3
  <2> TAKE k \in kinds
  <2> DEFINE v == _ISSUE_SEVERITY(k)
             m == Max(S)
  <2>1. v \in S /\ v <= m /\ m \in S
    BY <1>4, <1>5
  <2>2. m < 3
    BY <1>3 DEF HIGH
  <2> HIDE DEF v, m
  <2>3. v \in 0..4 /\ m \in 0..4
    BY <1>1, <2>1
  <2>4. v < 3
    BY <2>1, <2>2, <2>3
  <2>5. QED
    BY <2>4 DEF v
<1>7. ASSUME NEW k \in kinds PROVE k \in {"LARGE_GAP", "LOW_VOLUME"}
  <2>1. k \in IngestionKinds /\ _ISSUE_SEVERITY(k) < 3
    BY <1>6
  <2>2. /\ k # "NAN_PRICE" /\ k # "RANGE_VIOLATION" /\ k # "COVERAGE_LOW"
        /\ k # "INSUFFICIENT_HISTORY" /\ k # "STALE_DATA"
    BY <2>1, Severities
  <2>3. QED
    BY <2>1, <2>2 DEF IngestionKinds
<1>8. QED
  BY <1>7

\* What a series has to be for the gate to report nothing HIGH about it.
LEMMA GatePassed ==
    ASSUME NEW bars, worst_severity(check_ingestion(bars)) < HIGH
    PROVE  LET n == Cardinality(Keys(bars))
           IN  /\ \A k \in Keys(bars) : ~OutOfRange(bars[k])
               /\ ~(n > 0 /\ n * 100 < 95 * expected_trading_days(Min(DaysOf(bars)), Max(DaysOf(bars))))
               /\ ~(n < MinHistory)
               /\ ~(n > 0 /\ now - Max(DaysOf(bars)) > StaleMax)
<1> DEFINE kinds == check_ingestion(bars)
           n == Cardinality(Keys(bars))
<1>1. kinds \in SUBSET IngestionKinds
  BY DEF check_ingestion, IngestionKinds
<1>2. kinds \subseteq {"LARGE_GAP", "LOW_VOLUME"}
  <2> HIDE DEF kinds
  <2>1. worst_severity(kinds) < HIGH
    BY DEF kinds
  <2>2. QED
    BY <1>1, <2>1, NothingHigh
<1>3. ~\E k \in Keys(bars) : Infinite(bars[k])
  BY <1>2 DEF check_ingestion
<1>4. /\ (\E k \in Keys(bars) : OutOfRange(bars[k])) => "RANGE_VIOLATION" \in kinds
      /\ (n > 0 /\ n * 100 < 95 * expected_trading_days(Min(DaysOf(bars)), Max(DaysOf(bars))))
           => "COVERAGE_LOW" \in kinds
      /\ n < MinHistory => "INSUFFICIENT_HISTORY" \in kinds
      /\ (n > 0 /\ now - Max(DaysOf(bars)) > StaleMax) => "STALE_DATA" \in kinds
  BY <1>3 DEF check_ingestion
<1> HIDE DEF kinds
<1>5. QED
  BY <1>2, <1>4

\* A bar with a wick on both sides passes the row checks of validate.py.
LEMMA BarIsValid ==
    ASSUME NEW b \in Kinds, ~OutOfRange(b)
    PROVE  validate_bar(b) = {}
<1>1. /\ b.open \in Nat \ {0} /\ b.high \in Nat \ {0} /\ b.low \in Nat \ {0} /\ b.close \in Nat \ {0}
      /\ b.volume \in Nat
  BY QualityAssumption DEF Columns
<1>2. /\ Max({b.open, b.close}) \in Nat /\ b.open <= Max({b.open, b.close}) /\ b.close <= Max({b.open, b.close})
      /\ Min({b.open, b.close}) \in Nat /\ Min({b.open, b.close}) <= b.open /\ Min({b.open, b.close}) <= b.close
  BY <1>1, MaxMinPair
<1>3. ~(b.high < Max({b.open, b.close}) + 1) /\ ~(b.low > Min({b.open, b.close}) - 1)
  BY DEF OutOfRange, Epsilon
<1>4. b.high >= b.open /\ b.high >= b.close /\ b.low <= b.open /\ b.low <= b.close
  BY <1>1, <1>2, <1>3
<1>5. ~(b.high < b.low) /\ ~(b.volume < 0)
  BY <1>1, <1>4
<1>6. { x \in {"open", "close"} : b.low > b[x] } = {} /\ { x \in {"open", "close"} : b.high < b[x] } = {}
  BY <1>1, <1>4
<1>7. { x \in Columns : b[x] <= 0 } = {}
  BY <1>1 DEF Columns
<1>8. QED
  BY <1>5, <1>6, <1>7 DEF validate_bar

-----------------------------------------------------------------------------
RowsInv == rows \in [Days -> Kinds \cup {NoBar}] /\ copies \in SUBSET Held /\ now \in Int

\* What the coordinator gives the gate has one row of each day, whichever days the
\* requests answered twice.
LEMMA OneRowOfEachDay ==
    ASSUME RowsInv
    PROVE  LET bars == OnePerDay(Fetched(copies))
           IN  /\ DaysOf(bars) = Held
               /\ Cardinality(Keys(bars)) = Cardinality(Held)
               /\ \A d \in Held : \E k \in Keys(bars) : bars[k] = rows[d]
               /\ Fetched(copies) # << >> => Held # {}
<1> DEFINE F == Fetched(copies)
           K == { <<d, 1>> : d \in Held } \cup { <<d, 2>> : d \in copies }
           bars == OnePerDay(F)
           J == { <<d, 1>> : d \in Held }
<1>1. F = [k \in K |-> rows[DayOf(k)]] /\ DOMAIN F = K
  BY DEF Fetched
<1>2. /\ Keys(bars) = { k \in K : \A l \in K : DayOf(l) = DayOf(k) => k[2] <= l[2] }
      /\ \A k \in Keys(bars) : bars[k] = F[k]
  BY <1>1 DEF OnePerDay, Keys
<1>3. Keys(bars) = J
  <2>1. copies \subseteq Held
    BY DEF RowsInv
  <2> HIDE DEF bars, F
  <2>2. ASSUME NEW k \in Keys(bars) PROVE k \in J
    <3>1. CASE k \in J
      BY <3>1
    <3>2. CASE k \notin J
      <4>1. PICK d \in copies : k = <<d, 2>>
        BY <1>2, <3>2
      <4>2. <<d, 1>> \in K /\ DayOf(<<d, 1>>) = DayOf(k) /\ k[2] = 2 /\ <<d, 1>>[2] = 1
        BY <2>1, <4>1 DEF DayOf
      <4>3. k[2] <= <<d, 1>>[2]
        BY <1>2, <4>2
      <4>4. QED
        BY <4>2, <4>3
    <3>3. QED
      BY <3>1, <3>2
  <2>3. ASSUME NEW k \in J PROVE k \in Keys(bars)
    <3>1. k \in K /\ k[2] = 1
      OBVIOUS
    <3>2. \A l \in K : l[2] \in {1, 2}
      OBVIOUS
    <3>3. QED
      BY <1>2, <3>1, <3>2
  <2>4. QED
    BY <2>2, <2>3
<1> HIDE DEF K, F, bars
<1> DEFINE f == [d \in Held |-> <<d, 1>>]
<1>4. /\ \A d \in Held : f[d] \in J /\ DayOf(f[d]) = d
      /\ \A k \in J : DayOf(k) \in Held /\ f[DayOf(k)] = k
  BY DEF DayOf
<1>5. f \in [Held -> J]
  BY <1>4
<1>6. J \subseteq K
  BY DEF K
<1> HIDE DEF f, J
<1>7. DaysOf(bars) = Held
  BY <1>3, <1>4 DEF DaysOf
<1>8. Cardinality(J) = Cardinality(Held)
  <2>1. IsFiniteSet(Held)
    <3>1. Held \in SUBSET Days
      BY DEF Held
    <3>2. QED
      BY <3>1, QualityAssumption, FS_Subset
  <2>2. f \in Injection(Held, J)
    BY <1>4, <1>5 DEF Injection, IsInjective
  <2>3. f \in Surjection(Held, J)
    BY <1>4, <1>5 DEF Surjection
  <2>4. QED
    BY <2>1, <2>2, <2>3, FS_Surjection
<1>9. ASSUME NEW d \in Held PROVE \E k \in Keys(bars) : bars[k] = rows[d]
  <2>1. f[d] \in Keys(bars) /\ bars[f[d]] = F[f[d]] /\ f[d] \in K /\ DayOf(f[d]) = d
    BY <1>2, <1>3, <1>4, <1>6
  <2>2. F[f[d]] = rows[d]
    BY <1>1, <2>1
  <2>3. QED
    BY <2>1, <2>2
<1>10. F # << >> => Held # {}
  <2> SUFFICES ASSUME Held = {} PROVE F = << >>
    OBVIOUS
  <2>1. K = {}
    BY DEF K, RowsInv
  <2>2. QED
    BY <1>1, <2>1
<1>11. QED
  BY <1>3, <1>7, <1>8, <1>9, <1>10 DEF bars, F

\* A positive verdict is _validate's of the rows that are there.
VerdictInv == RowsInv /\ verdict \in BOOLEAN /\ (verdict => _validate(Fetched(copies)))

LEMMA VerdictInit == QualityInit => VerdictInv
<1> SUFFICES ASSUME QualityInit PROVE VerdictInv
  OBVIOUS
<1> QED
  BY QualityAssumption DEF QualityInit, VerdictInv, RowsInv

LEMMA VerdictStep == VerdictInv /\ [QualityNext]_qualityVars => VerdictInv'
<1> SUFFICES ASSUME VerdictInv, [QualityNext]_qualityVars PROVE VerdictInv'
  OBVIOUS
<1>1. rows' = rows /\ copies' = copies /\ now' = now
  BY DEF QualityNext, Validate, gate_then_upsert, gate_then_audit, Correct, qualityVars
<1>2. _validate(Fetched(copies))' = _validate(Fetched(copies))
  BY <1>1 DEF _validate, Fetched, Held, OnePerDay, check_ingestion, Keys, DaysOf, _max_calendar_gap
<1>3. verdict' \in {verdict, _validate(Fetched(copies))}
  BY DEF QualityNext, Validate, gate_then_upsert, gate_then_audit, Correct, qualityVars
<1>4. _validate(Fetched(copies)) \in BOOLEAN
  BY DEF _validate
<1>5. QED
  BY <1>1, <1>2, <1>3, <1>4 DEF VerdictInv, RowsInv, Held

\* Whatever rows the broker answers and however often, a series that
\* Coordinator._validate lets through has enough distinct days, covers 95 of 100
\* trading days, is fresh, and every bar of it passes validate.py's checks.
THEOREM TradedSeriesIsSound == QualitySpec => []AllowedSeriesIsSound
<1>1. QualitySpec => []VerdictInv
  BY VerdictInit, VerdictStep, PTL DEF QualitySpec
<1>2. VerdictInv => AllowedSeriesIsSound
  <2> SUFFICES ASSUME VerdictInv, verdict
               PROVE  /\ Cardinality(Held) >= MinHistory
                      /\ Cardinality(Held) * 100 >= 95 * expected_trading_days(Min(Held), Max(Held))
                      /\ now <= Max(Held) + StaleMax
                      /\ \A d \in Held : validate_bar(rows[d]) = {}
    BY DEF AllowedSeriesIsSound
  <2> DEFINE bars == OnePerDay(Fetched(copies))
             n == Cardinality(Held)
             expected == expected_trading_days(Min(Held), Max(Held))
  <2>1. RowsInv /\ Fetched(copies) # << >> /\ worst_severity(check_ingestion(bars)) < HIGH
    BY DEF VerdictInv, _validate
  <2>2. /\ DaysOf(bars) = Held /\ Cardinality(Keys(bars)) = n /\ Held # {}
        /\ \A d \in Held : \E k \in Keys(bars) : bars[k] = rows[d]
    BY <2>1, OneRowOfEachDay
  <2> HIDE DEF bars
  <2>3. /\ \A k \in Keys(bars) : ~OutOfRange(bars[k])
        /\ ~(n > 0 /\ n * 100 < 95 * expected)
        /\ ~(n < MinHistory) /\ ~(n > 0 /\ now - Max(Held) > StaleMax)
    BY <2>1, <2>2, GatePassed
  <2>4. IsFiniteSet(Held) /\ Held \subseteq Nat
    <3>1. Held \in SUBSET Days
      BY DEF Held
    <3>2. QED
      BY <3>1, QualityAssumption, FS_Subset
  <2>5. n \in Nat /\ n > 0
    BY <2>2, <2>4, FS_CardinalityType, FS_EmptySet
  <2>6. Max(Held) \in Nat /\ Min(Held) \in Nat
    BY <2>2, <2>4, MaxMin
  <2>7. expected \in Nat
    <3>1. IsFiniteSet(Min(Held)..Max(Held))
      BY <2>6, FS_Interval
    <3>2. IsFiniteSet({ d \in Min(Held)..Max(Held) : d % 7 < 5 })
      BY <3>1, FS_Subset
    <3>3. QED
      BY <3>2, FS_CardinalityType DEF expected_trading_days
  <2>8. \A d \in Held : validate_bar(rows[d]) = {}
    <3> TAKE d \in Held
    <3>1. ~OutOfRange(rows[d])
      BY <2>2, <2>3
    <3>2. rows[d] \in Kinds
      BY <2>1 DEF Held, RowsInv
    <3>3. QED
      BY <3>1, <3>2, BarIsValid
  <2>9. now \in Int /\ MinHistory \in Nat /\ StaleMax \in Nat
    BY <2>1, QualityAssumption DEF RowsInv
  <2> HIDE DEF n, expected
  <2>10. n >= MinHistory /\ n * 100 >= 95 * expected /\ now <= Max(Held) + StaleMax
    BY <2>3, <2>5, <2>6, <2>7, <2>9
  <2>11. QED
    BY <2>8, <2>10 DEF n, expected
<1>3. QED
  BY <1>1, <1>2, PTL
=============================================================================
