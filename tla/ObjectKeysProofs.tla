-------------------------- MODULE ObjectKeysProofs --------------------------
(***************************************************************************)
(* What the keys promise, for texts of any length.                         *)
(***************************************************************************)
EXTENDS ObjectKeys, SequenceTheorems, TLAPS

LEMMA TerminatedType ==
    ASSUME NEW p \in Text
    PROVE  Terminated(p) \in Text
BY CharAssumption DEF Terminated, Text

LEMMA PrefixShape ==
    ASSUME NEW p \in Text, NEW id \in UserId
    PROVE  LET n == Len(Terminated(p)) + 2
               f == UserKeyPrefix(p, id)
           IN  /\ n \in Nat
               /\ f \in Text
               /\ Len(f) = n + Len(id) + 1
               /\ \A i \in 1..Len(id) : f[n + i] = id[i]
               /\ f[n + Len(id) + 1] = Slash
<1> DEFINE t == Terminated(p)
           b == t \o <<Original, Slash>>
           c == b \o id
<1>1. t \in Text /\ id \in Text /\ <<Original, Slash>> \in Text /\ <<Slash>> \in Text
  BY TerminatedType, CharAssumption DEF UserId, Text
<1>2. b \in Text /\ Len(b) = Len(t) + 2
  BY <1>1 DEF Text
<1> HIDE DEF t, b
<1>3. /\ c \in Text /\ Len(c) = Len(b) + Len(id)
      /\ \A i \in 1..(Len(b) + Len(id)) :
            c[i] = IF i <= Len(b) THEN b[i] ELSE id[i - Len(b)]
  BY <1>1, <1>2, ConcatProperties DEF Text
<1>4. \A i \in 1..Len(id) : c[Len(b) + i] = id[i]
  <2>1. Len(b) \in Nat /\ Len(id) \in Nat
    BY <1>1, <1>2 DEF Text
  <2>2. ASSUME NEW i \in 1..Len(id)
        PROVE  c[Len(b) + i] = id[(Len(b) + i) - Len(b)] /\ (Len(b) + i) - Len(b) = i
    BY <1>3, <2>1
  <2>3. QED
    BY <2>2
<1> HIDE DEF c
<1>5. LET f == c \o <<Slash>>
      IN  /\ f \in Text
          /\ Len(f) = Len(c) + 1
          /\ \A i \in 1..Len(c) : f[i] = c[i]
          /\ f[Len(c) + 1] = Slash
  <2>1. Len(<<Slash>>) = 1 /\ <<Slash>>[1] = Slash /\ Len(c) \in Nat
    BY <1>3 DEF Text
  <2>2. \A i \in 1..Len(c) : i \in 1..(Len(c) + 1) /\ i <= Len(c)
    BY <2>1
  <2>3. Len(c) + 1 \in 1..(Len(c) + 1) /\ ~ Len(c) + 1 <= Len(c)
        /\ (Len(c) + 1) - Len(c) = 1
    BY <2>1
  <2>4. /\ c \o <<Slash>> \in Text /\ Len(c \o <<Slash>>) = Len(c) + 1
        /\ \A i \in 1..(Len(c) + 1) :
              (c \o <<Slash>>)[i] = IF i <= Len(c) THEN c[i] ELSE <<Slash>>[i - Len(c)]
    BY <1>1, <1>3, <2>1, ConcatProperties DEF Text
  <2>5. QED
    BY <2>1, <2>2, <2>3, <2>4
<1>6. UserKeyPrefix(p, id) = c \o <<Slash>>
  BY DEF UserKeyPrefix, t, b, c
<1>7. Len(t) \in Nat /\ Len(id) \in Nat /\ Len(b) \in Nat
  BY <1>1, <1>2 DEF Text
<1>8. \A i \in 1..Len(id) : Len(b) + i \in 1..Len(c)
  BY <1>3, <1>7
<1>9. QED
  BY <1>2, <1>3, <1>4, <1>5, <1>6, <1>7, <1>8 DEF t

(* A key is in the folder of one user: whoever the server signs it for, no *)
(* other user of the brand passes the ownership check with it, ids that    *)
(* are prefixes of one another included.                                   *)
THEOREM OwnersDisjoint ==
    ASSUME NEW p \in Text, NEW u \in UserId, NEW v \in UserId, NEW key \in Text,
           KeyOwned(p, u, key), KeyOwned(p, v, key)
    PROVE  u = v
<1> DEFINE n == Len(Terminated(p)) + 2
<1>1. ASSUME NEW w \in UserId, KeyOwned(p, w, key)
      PROVE  /\ n \in Nat /\ Len(w) \in Nat
             /\ \A i \in 1..Len(w) : key[n + i] = w[i] /\ w[i] # Slash
             /\ key[n + Len(w) + 1] = Slash
  <2>1. n \in Nat /\ w \in Text /\ Len(w) \in Nat
    BY PrefixShape DEF UserId, Text
  <2>2. LET f == UserKeyPrefix(p, w)
        IN  /\ Len(f) = n + Len(w) + 1
            /\ \A i \in 1..Len(w) : f[n + i] = w[i]
            /\ f[n + Len(w) + 1] = Slash
            /\ \A i \in 1..Len(f) : key[i] = f[i]
    BY <1>1, PrefixShape DEF KeyOwned, StartsWith
  <2>3. \A i \in 1..Len(w) : n + i \in 1..(n + Len(w) + 1)
    BY <2>1
  <2>4. n + Len(w) + 1 \in 1..(n + Len(w) + 1)
    BY <2>1
  <2>5. \A i \in 1..Len(w) : w[i] # Slash
    BY DEF UserId
  <2>6. QED
    BY <2>1, <2>2, <2>3, <2>4, <2>5
<1>2. ASSUME NEW w \in UserId, NEW x \in UserId, KeyOwned(p, w, key), KeyOwned(p, x, key)
      PROVE  ~ Len(w) < Len(x)
  <2>1. SUFFICES ASSUME Len(w) < Len(x) PROVE FALSE
    OBVIOUS
  <2> HIDE DEF n
  <2>2. Len(w) + 1 \in 1..Len(x) /\ n + (Len(w) + 1) = n + Len(w) + 1
    BY <1>1, <1>2, <2>1
  <2>3. key[n + (Len(w) + 1)] # Slash
    BY <1>1, <1>2, <2>2
  <2>4. QED
    BY <1>1, <1>2, <2>2, <2>3
<1>3. Len(u) = Len(v)
  BY <1>1, <1>2
<1>4. \A i \in 1..Len(u) : u[i] = v[i]
  BY <1>1, <1>3
<1>5. u \in Text /\ v \in Text
  BY DEF UserId
<1>6. QED
  BY <1>3, <1>4, <1>5, SeqEqual DEF Text

------------------------------------------------------------------------------
------------------------------------------------------------------------------
LEMMA ClampedLength ==
    ASSUME NEW name \in Text, NEW budget \in Nat
    PROVE  Clamped(name, budget) \in Text /\ Len(Clamped(name, budget)) <= budget
<1>1. Len(name) \in Nat
  BY DEF Text
<1>2. CASE Len(name) <= budget
  BY <1>2 DEF Clamped
<1>3. CASE Len(name) > budget /\ Extensions(name, budget) = {}
  <2>1. SubSeq(name, 1, budget) \in Text /\ Len(SubSeq(name, 1, budget)) = budget
    BY <1>1, <1>3, SubSeqProperties DEF Text
  <2>2. QED
    BY <1>1, <1>3, <2>1 DEF Clamped
<1>4. CASE Len(name) > budget /\ Extensions(name, budget) # {}
  <2> DEFINE d == CHOOSE e \in Extensions(name, budget) : TRUE
             head == SubSeq(name, 1, budget - (Len(name) - d + 1))
             tail == SubSeq(name, d, Len(name))
  <2>1. d \in 2..(Len(name) - 1) /\ Len(name) - d + 1 < budget
    BY <1>4 DEF Extensions
  <2>2. Clamped(name, budget) = head \o tail
    <3>1. ~ Len(name) <= budget
      BY <1>1, <1>4
    <3>2. QED
      BY <1>4, <3>1, Zenon DEF Clamped
  <2> HIDE DEF d
  <2>3. head \in Text /\ Len(head) = budget - (Len(name) - d + 1)
    BY <1>1, <1>4, <2>1, SubSeqProperties DEF Text
  <2>4. tail \in Text /\ Len(tail) = Len(name) - d + 1
    BY <1>1, <1>4, <2>1, SubSeqProperties DEF Text
  <2> HIDE DEF head, tail
  <2>5. Len(head \o tail) = budget /\ head \o tail \in Text
    BY <1>1, <2>1, <2>3, <2>4 DEF Text
  <2>6. QED
    BY <2>2, <2>5
<1>5. QED
  BY <1>1, <1>2, <1>3, <1>4

(* Every key buildS3Key makes passes the ownership check of its user, and  *)
(* fits the 255 characters of the partner's column unless the folder and   *)
(* the date alone leave fewer than the eight the name is always given.     *)
THEOREM BuiltKeyFits ==
    ASSUME NEW p \in Text, NEW id \in UserId, NEW date \in Text, NEW name \in Text
    PROVE  LET key   == BuiltKey(p, id, date, name)
               fixed == Len(UserKeyPrefix(p, id)) + Len(date)
           IN  /\ key \in Text
               /\ KeyOwned(p, id, key)
               /\ fixed <= MaxKeyLength - MinFilenameLength => Len(key) <= MaxKeyLength
<1> DEFINE f == UserKeyPrefix(p, id)
           g == f \o date
           c == Clamped(name, NameBudget(Len(g)))
<1>1. f \in Text
  BY PrefixShape
<1> HIDE DEF f
<1>2. g \in Text /\ Len(g) = Len(f) + Len(date) /\ \A i \in 1..Len(f) : g[i] = f[i]
  BY <1>1 DEF Text
<1>3. Len(f) \in Nat /\ Len(date) \in Nat /\ Len(g) \in Nat
  BY <1>1, <1>2 DEF Text
<1> HIDE DEF g
<1>4. NameBudget(Len(g)) \in Nat
  BY <1>3 DEF NameBudget, MaxKeyLength, MinFilenameLength
<1>5. c \in Text /\ Len(c) <= NameBudget(Len(g))
  BY <1>4, ClampedLength
<1> HIDE DEF c
<1>6. g \o c \in Text /\ Len(g \o c) = Len(g) + Len(c)
      /\ \A i \in 1..Len(g) : (g \o c)[i] = g[i]
  <2>1. Len(c) \in Nat
    BY <1>5 DEF Text
  <2>2. \A i \in 1..Len(g) : i \in 1..(Len(g) + Len(c)) /\ i <= Len(g)
    BY <1>3, <2>1
  <2>3. QED
    BY <1>2, <1>5, <2>2, ConcatProperties DEF Text
<1>7. BuiltKey(p, id, date, name) = g \o c
  BY DEF BuiltKey, c, g, f
<1>8. StartsWith(g \o c, f)
  <2>1. Len(f) <= Len(g \o c) /\ \A i \in 1..Len(f) : i \in 1..Len(g)
    BY <1>2, <1>3, <1>5, <1>6 DEF Text
  <2>2. QED
    BY <1>2, <1>6, <2>1 DEF StartsWith
<1>9. Len(f) + Len(date) <= MaxKeyLength - MinFilenameLength
         => Len(g \o c) <= MaxKeyLength
  <2>1. Len(c) \in Nat
    BY <1>5 DEF Text
  <2>2. QED
    BY <1>2, <1>3, <1>5, <1>6, <2>1 DEF NameBudget, MaxKeyLength, MinFilenameLength
<1>10. QED
  BY <1>6, <1>7, <1>8, <1>9 DEF KeyOwned, f

=============================================================================
