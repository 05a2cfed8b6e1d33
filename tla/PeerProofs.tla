------------------------------ MODULE PeerProofs ------------------------------
(* Proofs about the peers of a node: those that register with it when it is a  *)
(* seed, those it discovers and knows from the registry, and those it connects *)
(* to.  The components are those MCNodeState model-checks.                     *)
EXTENDS Integers, Sequences, FiniteSets, TLAPS

(* What is used of finite sets and natural numbers.  It follows from           *)
(* FiniteSetTheorems, which slow the provers down wherever they are in scope:  *)
(* the lemmas take these facts as a hypothesis, and the module ends with the   *)
(* proof that they hold.                                                       *)
Onto(f, S, T) == f \in [S -> T] /\ \A t \in T : \E s \in S : f[s] = t
OneToOne(f, S, T) == Onto(f, S, T) /\ \A x, y \in S : f[x] = f[y] => x = y
CardinalityFact == \A S : IsFiniteSet(S) => Cardinality(S) \in Nat
EmptySetFact ==
    /\ IsFiniteSet({}) /\ Cardinality({}) = 0
    /\ \A S : IsFiniteSet(S) => (Cardinality(S) = 0 <=> S = {})
IntervalFact ==
    \A a, b \in Int : IsFiniteSet(a .. b) /\ Cardinality(a .. b) = IF a > b THEN 0 ELSE b - a + 1
SubsetFact ==
    \A S : IsFiniteSet(S) => \A T \in SUBSET S :
        IsFiniteSet(T) /\ Cardinality(T) <= Cardinality(S) /\ (Cardinality(S) = Cardinality(T) => S = T)
AddFact ==
    \A S, x : IsFiniteSet(S) =>
        /\ IsFiniteSet(S \cup {x})
        /\ Cardinality(S \cup {x}) = IF x \in S THEN Cardinality(S) ELSE Cardinality(S) + 1
RemoveFact ==
    \A S, x : IsFiniteSet(S) =>
        /\ IsFiniteSet(S \ {x})
        /\ Cardinality(S \ {x}) = IF x \in S THEN Cardinality(S) - 1 ELSE Cardinality(S)
BijectionFact ==
    \A S, T, f : IsFiniteSet(S) /\ OneToOne(f, S, T) => IsFiniteSet(T) /\ Cardinality(T) = Cardinality(S)
SetFacts ==
    /\ CardinalityFact /\ EmptySetFact /\ IntervalFact
    /\ SubsetFact /\ AddFact /\ RemoveFact /\ BijectionFact

LEMMA CardinalityIsNat == ASSUME SetFacts, NEW S, IsFiniteSet(S) PROVE Cardinality(S) \in Nat
BY DEF SetFacts, CardinalityFact
LEMMA EmptySetIsFinite ==
  ASSUME SetFacts
  PROVE  /\ IsFiniteSet({}) /\ Cardinality({}) = 0
         /\ \A S : IsFiniteSet(S) => (Cardinality(S) = 0 <=> S = {})
BY DEF SetFacts, EmptySetFact
LEMMA IntervalIsFinite ==
  ASSUME SetFacts, NEW a \in Int, NEW b \in Int
  PROVE  IsFiniteSet(a .. b) /\ Cardinality(a .. b) = IF a > b THEN 0 ELSE b - a + 1
BY DEF SetFacts, IntervalFact
LEMMA SubsetIsFinite ==
  ASSUME SetFacts, NEW S, IsFiniteSet(S), NEW T \in SUBSET S
  PROVE  IsFiniteSet(T) /\ Cardinality(T) <= Cardinality(S) /\ (Cardinality(S) = Cardinality(T) => S = T)
BY DEF SetFacts, SubsetFact
LEMMA AddingOne ==
  ASSUME SetFacts, NEW S, NEW x, IsFiniteSet(S)
  PROVE  /\ IsFiniteSet(S \cup {x})
         /\ Cardinality(S \cup {x}) = IF x \in S THEN Cardinality(S) ELSE Cardinality(S) + 1
BY DEF SetFacts, AddFact
LEMMA RemovingOne ==
  ASSUME SetFacts, NEW S, NEW x, IsFiniteSet(S)
  PROVE  /\ IsFiniteSet(S \ {x})
         /\ Cardinality(S \ {x}) = IF x \in S THEN Cardinality(S) - 1 ELSE Cardinality(S)
BY DEF SetFacts, RemoveFact
LEMMA BijectionKeepsCount ==
  ASSUME SetFacts, NEW S, NEW T, NEW f, IsFiniteSet(S), OneToOne(f, S, T)
  PROVE  IsFiniteSet(T) /\ Cardinality(T) = Cardinality(S)
BY DEF SetFacts, BijectionFact


-----------------------------------------------------------------------------
(* The peer store of a seed node (go/p2p/discovery/peerstore).                 *)
CONSTANTS Namespaces, PeerIds, PeerRegistrationTTL, maxPeers, maxNsPeers, maxPeerNs, MaxTime
VARIABLES now, registrations, expirations, peerNamespaces, backup, toRestore, rejected

INSTANCE SeedStore

(* A list of the registrations S, each once, in the order of their expiry e.   *)
Pairs == Namespaces \X PeerIds
ByExpiry(s, S, e) ==
  /\ s \in Seq(Pairs) /\ S = {s[i] : i \in DOMAIN s}
  /\ \A i, j \in DOMAIN s : i < j => s[i] # s[j] /\ e[s[i]] <= e[s[j]]

(* A new registration expires last, and goes to the back.                      *)
LEMMA AppendKeepsOrder ==
  ASSUME NEW s, NEW S, NEW e, NEW f, NEW r \in Pairs, ByExpiry(s, S, e), r \notin S,
         \A x \in S : f[x] = e[x] /\ f[x] <= f[r]
  PROVE  ByExpiry(Append(s, r), S \cup {r}, f)
<1> DEFINE t == Append(s, r)
           n == Len(s)
<1>1. s \in Seq(Pairs) /\ n \in Nat /\ DOMAIN s = 1..n /\ S = {s[i] : i \in DOMAIN s}
  BY DEF ByExpiry
<1>2. t \in Seq(Pairs) /\ DOMAIN t = 1..(n + 1) /\ t[n + 1] = r /\ \A i \in 1..n : t[i] = s[i]
  BY <1>1
<1> HIDE DEF t, n
<1>3. S \cup {r} = {t[i] : i \in DOMAIN t}
  <2>1. ASSUME NEW x \in S \cup {r} PROVE \E i \in DOMAIN t : x = t[i]
    <3>1. CASE x = r
      BY <1>1, <1>2, <3>1
    <3>2. CASE x # r
      <4>1. PICK i \in 1..n : x = s[i]
        BY <1>1, <2>1, <3>2
      <4>. QED
        BY <1>1, <1>2, <4>1
    <3>. QED
      BY <3>1, <3>2
  <2>2. ASSUME NEW i \in DOMAIN t PROVE t[i] \in S \cup {r}
    <3>1. i \in 1..n \/ i = n + 1
      BY <1>1, <1>2, <2>2
    <3>2. CASE i \in 1..n
      BY <1>1, <1>2, <3>2
    <3>. QED
      BY <1>2, <3>1, <3>2
  <2>. QED
    BY <2>1, <2>2, Zenon
<1>4. ASSUME NEW i \in DOMAIN t, NEW j \in DOMAIN t, i < j PROVE t[i] # t[j] /\ f[t[i]] <= f[t[j]]
  <2>1. i \in 1..n /\ (j \in 1..n \/ j = n + 1)
    BY <1>1, <1>2, <1>4
  <2>2. t[i] = s[i] /\ s[i] \in S
    BY <1>1, <1>2, <2>1
  <2>3. CASE j = n + 1
    <3>1. t[j] = r
      BY <1>2, <2>3
    <3>. QED
      BY <2>2, <3>1, Zenon
  <2>4. CASE j \in 1..n
    <3>1. t[j] = s[j] /\ s[j] \in S
      BY <1>1, <1>2, <2>4
    <3>2. s[i] # s[j] /\ e[s[i]] <= e[s[j]]
      BY <1>1, <1>4, <2>1, <2>4 DEF ByExpiry
    <3>3. f[s[i]] = e[s[i]] /\ f[s[j]] = e[s[j]]
      BY <2>2, <3>1, Zenon
    <3>. QED
      BY <2>2, <3>1, <3>2, <3>3, Zenon
  <2>. QED
    BY <2>1, <2>3, <2>4
<1>. QED
  BY <1>2, <1>3, <1>4, Zenon DEF ByExpiry, t

(* t lists what is left, T, when some of the entries of s are taken out: its   *)
(* i-th entry was at place g[i].                                               *)
Shortened(s, t, m, g, T) ==
  /\ t \in Seq(Pairs) /\ DOMAIN t = 1..m
  /\ \A i \in 1..m : g[i] \in DOMAIN s /\ t[i] = s[g[i]] /\ t[i] \in T
  /\ \A i, j \in 1..m : i < j => g[i] < g[j]
  /\ \A x \in T : \E i \in 1..m : t[i] = x
LEMMA ShortenedKeepsOrder ==
  ASSUME NEW s, NEW S, NEW e, NEW f, NEW t, NEW m, NEW g, NEW T,
         ByExpiry(s, S, e), Shortened(s, t, m, g, T), \A x \in T : f[x] = e[x]
  PROVE  ByExpiry(t, T, f)
<1>0. DOMAIN t = 1..m /\ t \in Seq(Pairs)
  BY DEF Shortened
<1>1. T = {t[i] : i \in DOMAIN t}
  BY Zenon DEF Shortened
<1>2. ASSUME NEW i \in DOMAIN t, NEW j \in DOMAIN t, i < j PROVE t[i] # t[j] /\ f[t[i]] <= f[t[j]]
  <2>1. i \in 1..m /\ j \in 1..m
    BY <1>0
  <2>2. g[i] \in DOMAIN s /\ g[j] \in DOMAIN s /\ g[i] < g[j]
    BY <1>2, <2>1, Zenon DEF Shortened
  <2>3. s[g[i]] # s[g[j]] /\ e[s[g[i]]] <= e[s[g[j]]]
    BY <2>2, Zenon DEF ByExpiry
  <2>4. t[i] = s[g[i]] /\ t[j] = s[g[j]] /\ t[i] \in T /\ t[j] \in T
    BY <2>1, Zenon DEF Shortened
  <2>5. f[t[i]] = e[t[i]] /\ f[t[j]] = e[t[j]]
    BY <2>4, Zenon
  <2>. QED
    BY <2>3, <2>4, <2>5, Zenon
<1>. QED
  BY <1>0, <1>1, <1>2, Zenon DEF ByExpiry

(* list.Remove.                                                                *)
LEMMA UnlinkKeepsOrder ==
  ASSUME NEW s, NEW S, NEW e, NEW f, NEW r \in S, ByExpiry(s, S, e), \A x \in S \ {r} : f[x] = e[x]
  PROVE  ByExpiry(Unlinked(s, r), S \ {r}, f)
<1> DEFINE n == Len(s)
           pos == CHOOSE i \in DOMAIN s : s[i] = r
           t == Unlinked(s, r)
           g == [i \in 1..(n - 1) |-> IF i < pos THEN i ELSE i + 1]
<1>1. s \in Seq(Pairs) /\ n \in Nat /\ DOMAIN s = 1..n /\ S = {s[i] : i \in DOMAIN s}
  BY DEF ByExpiry
<1>2. \E i \in DOMAIN s : s[i] = r
  BY <1>1
<1>3. pos \in 1..n /\ s[pos] = r
  BY <1>1, <1>2
<1>4. t = [i \in 1..(n - 1) |-> IF i < pos THEN s[i] ELSE s[i + 1]]
  BY DEF Unlinked
<1>5. \A i \in 1..n : s[i] \in Pairs
  BY <1>1
<1> HIDE DEF pos, t, n
<1>6. n - 1 \in Nat /\ \A i \in 1..(n - 1) : g[i] \in 1..n /\ g[i] # pos
  BY <1>1, <1>3
<1>7. \A i, j \in 1..(n - 1) : i < j => g[i] < g[j]
  BY <1>1, <1>3
<1>8. \A i \in 1..(n - 1) : t[i] = s[g[i]]
  BY <1>4
<1>9. t \in Seq(Pairs) /\ DOMAIN t = 1..(n - 1)
  <2>1. \A i \in 1..(n - 1) : t[i] \in Pairs
    BY <1>5, <1>6, <1>8
  <2>2. t \in [1..(n - 1) -> Pairs]
    BY <1>4, <2>1
  <2>. QED
    BY <1>6, <2>2
<1>10. \A j \in 1..n : j # pos => \E i \in 1..(n - 1) : g[i] = j
  <2>1. ASSUME NEW j \in 1..n, j < pos PROVE \E i \in 1..(n - 1) : g[i] = j
    <3>1. j \in 1..(n - 1)
      BY <1>1, <1>3, <2>1
    <3>. QED
      BY <2>1, <3>1
  <2>2. ASSUME NEW j \in 1..n, j > pos PROVE \E i \in 1..(n - 1) : g[i] = j
    <3>1. j - 1 \in 1..(n - 1) /\ ~(j - 1 < pos) /\ (j - 1) + 1 = j
      BY <1>1, <1>3, <2>2
    <3>. QED
      BY <3>1
  <2>3. \A j \in 1..n : j # pos => j < pos \/ j > pos
    BY <1>1, <1>3
  <2>. QED
    BY <2>1, <2>2, <2>3, Zenon
<1> HIDE DEF g
<1>11. ASSUME NEW i \in 1..n, i # pos PROVE s[i] # r
  <2>1. i < pos \/ pos < i
    BY <1>1, <1>3, <1>11
  <2>. QED
    BY <1>1, <1>3, <2>1 DEF ByExpiry
<1>12. \A i \in 1..(n - 1) : g[i] \in DOMAIN s /\ t[i] = s[g[i]] /\ t[i] \in S \ {r}
  BY <1>1, <1>6, <1>8, <1>11
<1>13. ASSUME NEW x \in S \ {r} PROVE \E i \in 1..(n - 1) : t[i] = x
  <2>1. PICK j \in 1..n : x = s[j]
    BY <1>1, <1>13
  <2>2. j # pos
    BY <1>3, <1>13, <2>1
  <2>3. PICK i \in 1..(n - 1) : g[i] = j
    BY <1>10, <2>2
  <2>. QED
    BY <1>8, <2>1, <2>3
<1> DEFINE T == S \ {r}
<1>14. Shortened(s, t, n - 1, g, T)
  BY <1>7, <1>9, <1>12, <1>13, Zenon DEF Shortened
<1>15. \A x \in T : f[x] = e[x]
  OBVIOUS
<1> HIDE DEF T
<1>16. ByExpiry(t, T, f)
  BY <1>14, <1>15, ShortenedKeepsOrder
<1>. QED
  BY <1>16 DEF t, T

(* cleanup walks from the front.                                               *)
LEMMA SuffixKeepsOrder ==
  ASSUME NEW s, NEW S, NEW e, NEW f, ByExpiry(s, S, e), NEW k \in 0..Len(s),
         \A x \in S \ {s[i] : i \in 1..k} : f[x] = e[x]
  PROVE  ByExpiry(SubSeq(s, k + 1, Len(s)), S \ {s[i] : i \in 1..k}, f)
<1> DEFINE n == Len(s)
           t == SubSeq(s, k + 1, n)
           R == {s[i] : i \in 1..k}
           g == [i \in 1..(n - k) |-> k + i]
<1>1. s \in Seq(Pairs) /\ n \in Nat /\ DOMAIN s = 1..n /\ S = {s[i] : i \in DOMAIN s} /\ k \in 0..n
  BY DEF ByExpiry
<1>2. t \in Seq(Pairs) /\ Len(t) = n - k /\ \A i \in 1..(n - k) : t[i] = s[k + i]
  BY <1>1, SMTT(40)
<1>3. DOMAIN t = 1..(n - k)
  BY <1>2
<1> HIDE DEF t, n
<1>4. n - k \in Nat /\ \A i \in 1..(n - k) : g[i] \in (k + 1)..n /\ g[i] \in 1..n /\ t[i] = s[g[i]]
  BY <1>1, <1>2
<1>5. \A i, j \in 1..(n - k) : i < j => g[i] < g[j]
  BY <1>1
<1>6. \A j \in (k + 1)..n : j - k \in 1..(n - k) /\ g[j - k] = j
  BY <1>1
<1> HIDE DEF g
<1>7. ASSUME NEW j \in (k + 1)..n PROVE s[j] \in S \ R
  <2>1. ASSUME NEW i \in 1..k PROVE s[i] # s[j]
    <3>1. i \in DOMAIN s /\ j \in DOMAIN s /\ i < j
      BY <1>1
    <3>. QED
      BY <3>1, Zenon DEF ByExpiry
  <2>2. j \in DOMAIN s
    BY <1>1
  <2>. QED
    BY <1>1, <2>1, <2>2
<1>8. ASSUME NEW x \in S \ R PROVE \E i \in 1..(n - k) : t[i] = x
  <2>1. PICK j \in 1..n : x = s[j]
    BY <1>1, <1>8
  <2>2. j \in (k + 1)..n
    BY <1>1, <1>8, <2>1
  <2>. QED
    BY <1>4, <1>6, <2>1, <2>2
<1>9. \A i \in 1..(n - k) : g[i] \in DOMAIN s /\ t[i] = s[g[i]] /\ t[i] \in S \ R
  BY <1>1, <1>4, <1>7, Zenon
<1>10. Shortened(s, t, n - k, g, S \ R)
  BY <1>2, <1>3, <1>5, <1>8, <1>9, Zenon DEF Shortened
<1>11. \A x \in S \ R : f[x] = e[x]
  OBVIOUS
<1> HIDE DEF R
<1>12. ByExpiry(t, S \ R, f)
  BY <1>10, <1>11, ShortenedKeepsOrder
<1>. QED
  BY <1>12 DEF t, n, R

(* What a table g of registrations holds, and until when.                      *)
RegIn(g) == {r \in Pairs : r[1] \in DOMAIN g /\ r[2] \in DOMAIN g[r[1]]}
ExpIn(g) == [r \in RegIn(g) |-> g[r[1]][r[2]]]
Table(g, t) ==
  /\ DOMAIN g \subseteq Namespaces
  /\ \A ns \in DOMAIN g :
       /\ DOMAIN g[ns] \subseteq PeerIds
       /\ \A p \in DOMAIN g[ns] : g[ns][p] \in Nat /\ g[ns][p] <= t

(* The inductive invariant: nothing expires later than a registration made     *)
(* now, and the list has the registrations in the order of their expiry.       *)
SeedTyped ==
  /\ now \in Nat /\ toRestore \subseteq Pairs
  /\ DOMAIN backup \subseteq Namespaces /\ \A ns \in DOMAIN backup : backup[ns] \subseteq PeerIds
SeedInv ==
  /\ SeedTyped
  /\ Table(registrations, now + PeerRegistrationTTL)
  /\ ByExpiry(expirations, RegIn(registrations), ExpIn(registrations))

LEMMA RegistrationsAre ==
  ASSUME Table(registrations, now + PeerRegistrationTTL)
  PROVE  Registered = RegIn(registrations)
  BY DEF Registered, RegIn, PeersIn, Pairs, Table

LEMMA SeedInvSuffices == SeedInv => CleanupFindsExpired
<1> SUFFICES ASSUME SeedInv PROVE CleanupFindsExpired
  OBVIOUS
<1> DEFINE S == RegIn(registrations)
           e == ExpIn(registrations)
<1>1. Registered = S /\ ByExpiry(expirations, S, e)
  BY RegistrationsAre DEF SeedInv
<1>2. \A r \in S : e[r] = Expiry(r)
  BY DEF ExpIn, Expiry
<1> HIDE DEF S, e
<1>3. S = {expirations[i] : i \in DOMAIN expirations}
  BY <1>1, Zenon DEF ByExpiry
<1>4. ASSUME NEW i \in DOMAIN expirations, NEW j \in DOMAIN expirations, i < j
      PROVE  expirations[i] # expirations[j] /\ Expiry(expirations[i]) <= Expiry(expirations[j])
  <2>1. expirations[i] \in S /\ expirations[j] \in S
    BY <1>3
  <2>2. expirations[i] # expirations[j] /\ e[expirations[i]] <= e[expirations[j]]
    BY <1>1, <1>4, Zenon DEF ByExpiry
  <2>3. e[expirations[i]] = Expiry(expirations[i]) /\ e[expirations[j]] = Expiry(expirations[j])
    BY <1>2, <2>1, Zenon
  <2>. QED
    BY <2>2, <2>3, Zenon
<1>. QED
  BY <1>1, <1>3, <1>4, Zenon DEF CleanupFindsExpired

(* The map of the namespace is created if there is none.                       *)
LEMMA NamespaceIs ==
  ASSUME NEW ns \in Namespaces
  PROVE  /\ ns \in DOMAIN registrations => NamespaceMap(ns) = registrations[ns]
         /\ ns \notin DOMAIN registrations => DOMAIN NamespaceMap(ns) = {}
         /\ DOMAIN NamespaceMap(ns) = PeersIn(ns)
  BY DEF NamespaceMap, NoEntries, PeersIn

(* A refused registration changes none.                                        *)
LEMMA RefusedLeavesTable ==
  ASSUME NEW ns \in Namespaces, NEW t, Table(registrations, t), NEW h,
         h = Having(registrations, ns, NamespaceMap(ns))
  PROVE  Table(h, t) /\ RegIn(h) = RegIn(registrations) /\ ExpIn(h) = ExpIn(registrations)
<1> DEFINE g == registrations
           m == NamespaceMap(ns)
<1>1. DOMAIN h = DOMAIN g \cup {ns} /\ h[ns] = m /\ \A y \in DOMAIN g : y # ns => h[y] = g[y]
  BY DEF Having
<1>2. (ns \in DOMAIN g => m = g[ns]) /\ (ns \notin DOMAIN g => DOMAIN m = {})
  BY NamespaceIs, Zenon
<1> HIDE DEF m, g
<1>3. \A y \in DOMAIN g : h[y] = g[y]
  BY <1>1, <1>2, Zenon
<1>4. Table(h, t)
  BY <1>1, <1>2, <1>3 DEF Table, g
<1>5. RegIn(h) = RegIn(g)
  BY <1>1, <1>2, <1>3 DEF RegIn
<1>6. \A r \in RegIn(g) : h[r[1]][r[2]] = g[r[1]][r[2]]
  BY <1>3 DEF RegIn
<1>7. ExpIn(h) = ExpIn(g)
  BY <1>5, <1>6 DEF ExpIn
<1>. QED
  BY <1>4, <1>5, <1>7 DEF g

(* An accepted one expires at v, the others when they did.                     *)
LEMMA AcceptedIsAdded ==
  ASSUME NEW ns \in Namespaces, NEW p \in PeerIds, NEW t, Table(registrations, t), NEW v \in Nat, v <= t,
         NEW h, h = Having(registrations, ns, Having(NamespaceMap(ns), p, v))
  PROVE  /\ Table(h, t) /\ RegIn(h) = RegIn(registrations) \cup {<<ns, p>>}
         /\ ExpIn(h)[<<ns, p>>] = v
         /\ \A r \in RegIn(registrations) : r # <<ns, p>> => ExpIn(h)[r] = ExpIn(registrations)[r]
<1> DEFINE g == registrations
           m == NamespaceMap(ns)
           k == Having(m, p, v)
<1>1. DOMAIN h = DOMAIN g \cup {ns} /\ h[ns] = k /\ \A y \in DOMAIN g : y # ns => h[y] = g[y]
  BY DEF Having
<1>2. (ns \in DOMAIN g => m = g[ns]) /\ (ns \notin DOMAIN g => DOMAIN m = {})
  BY NamespaceIs, Zenon
<1>3. DOMAIN k = DOMAIN m \cup {p} /\ k[p] = v /\ \A q \in DOMAIN m : q # p => k[q] = m[q]
  BY DEF Having
<1> HIDE DEF m, g, k
<1>4. Table(h, t)
  <2>1. DOMAIN g \subseteq Namespaces /\ \A x \in DOMAIN g : DOMAIN g[x] \subseteq PeerIds /\ \A q \in DOMAIN g[x] : g[x][q] \in Nat /\ g[x][q] <= t
    BY Zenon DEF Table, g
  <2>2. ASSUME NEW q \in DOMAIN k PROVE q \in PeerIds /\ k[q] \in Nat /\ k[q] <= t
    <3>1. CASE q = p
      BY <1>3, <3>1
    <3>2. CASE q # p
      BY <1>2, <1>3, <2>1, <2>2, <3>2
    <3>. QED
      BY <3>1, <3>2
  <2>3. DOMAIN k \subseteq PeerIds
    BY <2>2
  <2>4. ASSUME NEW x \in DOMAIN h PROVE DOMAIN h[x] \subseteq PeerIds /\ \A q \in DOMAIN h[x] : h[x][q] \in Nat /\ h[x][q] <= t
    <3>1. CASE x = ns
      BY <1>1, <2>2, <2>3, <3>1, Zenon
    <3>2. CASE x # ns
      <4>1. x \in DOMAIN g /\ h[x] = g[x]
        BY <1>1, <2>4, <3>2
      <4>. QED
        BY <2>1, <4>1, Zenon
    <3>. QED
      BY <3>1, <3>2
  <2>5. DOMAIN h \subseteq Namespaces
    BY <1>1, <2>1
  <2>. QED
    BY <2>4, <2>5, Zenon DEF Table
<1>5. ASSUME NEW r \in Pairs PROVE r \in RegIn(h) <=> r \in RegIn(g) \/ r = <<ns, p>>
  <2>1. r = <<r[1], r[2]>>
    BY DEF Pairs
  <2>2. CASE r[1] = ns
    BY <1>1, <1>2, <1>3, <2>1, <2>2 DEF RegIn
  <2>3. CASE r[1] # ns
    BY <1>1, <2>1, <2>3 DEF RegIn
  <2>. QED
    BY <2>2, <2>3
<1>6. <<ns, p>> \in Pairs
  BY DEF Pairs
<1>7. RegIn(h) = RegIn(g) \cup {<<ns, p>>}
  <2>1. RegIn(h) \subseteq Pairs /\ RegIn(g) \subseteq Pairs
    BY Zenon DEF RegIn
  <2>. QED
    BY <1>5, <1>6, <2>1
<1>8. ExpIn(h)[<<ns, p>>] = v
  BY <1>1, <1>3, <1>7 DEF ExpIn
<1>9. ASSUME NEW r \in RegIn(g), r # <<ns, p>> PROVE ExpIn(h)[r] = ExpIn(g)[r]
  <2>1. r = <<r[1], r[2]>> /\ r[1] \in DOMAIN g /\ r[2] \in DOMAIN g[r[1]]
    BY DEF RegIn, Pairs
  <2>2. h[r[1]][r[2]] = g[r[1]][r[2]]
    <3>1. CASE r[1] = ns
      BY <1>1, <1>2, <1>3, <1>9, <2>1, <3>1
    <3>2. CASE r[1] # ns
      BY <1>1, <2>1, <3>2
    <3>. QED
      BY <3>1, <3>2
  <2>3. r \in RegIn(h)
    BY <1>7
  <2>. QED
    BY <2>2, <2>3 DEF ExpIn
<1>. QED
  BY <1>4, <1>7, <1>8, <1>9 DEF g

(* What is removed, or found to have expired, is gone from the table.          *)
LEMMA DroppedAreGone ==
  ASSUME NEW t, Table(registrations, t), NEW R, NEW h, h = Dropped(R)
  PROVE  /\ Table(h, t) /\ RegIn(h) = RegIn(registrations) \ R
         /\ \A r \in RegIn(registrations) \ R : ExpIn(h)[r] = ExpIn(registrations)[r]
<1> DEFINE g == registrations
           left(x) == {p \in PeersIn(x) : <<x, p>> \notin R}
           D == {x \in DOMAIN g : left(x) # {} \/ PeersIn(x) = {}}
<1>1. h = [x \in D |-> [p \in left(x) |-> g[x][p]]]
  BY Zenon DEF Dropped
<1>2. \A x \in DOMAIN g : PeersIn(x) = DOMAIN g[x]
  BY DEF PeersIn
<1>3. DOMAIN h = D /\ \A x \in D : DOMAIN h[x] = left(x) /\ \A p \in left(x) : h[x][p] = g[x][p]
  BY <1>1, Zenon
<1>4. \A x \in DOMAIN g : left(x) \subseteq DOMAIN g[x]
  BY <1>2
<1>5. \A x \in DOMAIN g : \A p : p \in left(x) => x \in D
  OBVIOUS
<1>6. D \subseteq DOMAIN g
  OBVIOUS
<1>7. \A x \in DOMAIN g : \A p : p \in left(x) <=> p \in DOMAIN g[x] /\ <<x, p>> \notin R
  BY <1>2
<1> HIDE DEF D, left, g
<1>8. Table(h, t)
  <2>1. DOMAIN g \subseteq Namespaces /\ \A x \in DOMAIN g : DOMAIN g[x] \subseteq PeerIds /\ \A q \in DOMAIN g[x] : g[x][q] \in Nat /\ g[x][q] <= t
    BY Zenon DEF Table, g
  <2>2. ASSUME NEW x \in DOMAIN h PROVE DOMAIN h[x] \subseteq PeerIds /\ \A q \in DOMAIN h[x] : h[x][q] \in Nat /\ h[x][q] <= t
    <3>1. x \in DOMAIN g /\ DOMAIN h[x] \subseteq DOMAIN g[x] /\ \A q \in DOMAIN h[x] : h[x][q] = g[x][q]
      BY <1>3, <1>4, <1>6, <2>2
    <3>. QED
      BY <2>1, <3>1
  <2>. QED
    BY <1>3, <1>6, <2>1, <2>2 DEF Table
<1>9. ASSUME NEW r \in Pairs PROVE r \in RegIn(h) <=> r \in RegIn(g) \ R
  <2>1. r = <<r[1], r[2]>>
    BY DEF Pairs
  <2>2. r \in RegIn(h) <=> r[1] \in D /\ r[2] \in left(r[1])
    BY <1>3 DEF RegIn
  <2>3. r[1] \in D /\ r[2] \in left(r[1]) <=> r[1] \in DOMAIN g /\ r[2] \in left(r[1])
    BY <1>5, <1>6
  <2>4. r[1] \in DOMAIN g /\ r[2] \in left(r[1]) <=> r \in RegIn(g) /\ r \notin R
    BY <1>7, <2>1 DEF RegIn
  <2>. QED
    BY <2>2, <2>3, <2>4
<1>10. RegIn(h) = RegIn(g) \ R
  <2>1. RegIn(h) \subseteq Pairs /\ RegIn(g) \subseteq Pairs
    BY Zenon DEF RegIn
  <2>. QED
    BY <1>9, <2>1
<1>11. ASSUME NEW r \in RegIn(g) \ R PROVE ExpIn(h)[r] = ExpIn(g)[r]
  <2>1. r \in RegIn(h)
    BY <1>10
  <2>2. h[r[1]][r[2]] = g[r[1]][r[2]]
    BY <1>3, <2>1 DEF RegIn
  <2>. QED
    BY <2>1, <2>2 DEF ExpIn
<1>. QED
  BY <1>8, <1>10, <1>11 DEF g

Ordered(g, exps) == Table(g, now + PeerRegistrationTTL) /\ ByExpiry(exps, RegIn(g), ExpIn(g))

(* Store.Add, for a peer that advertises itself or is restored.                *)
LEMMA AddKeepsOrder ==
  ASSUME PeerRegistrationTTL \in Nat, SeedInv, NEW ns \in Namespaces, NEW p \in PeerIds, RegisterPeer(ns, p)
  PROVE  Ordered(registrations', expirations')
<1> DEFINE g == registrations
           h == registrations'
           r == <<ns, p>>
           v == now + PeerRegistrationTTL
           m == NamespaceMap(ns)
           S == RegIn(g)
<1>1. r \in Pairs /\ v \in Nat /\ v <= v
  BY DEF SeedInv, SeedTyped, Pairs
<1>2. Table(g, v) /\ ByExpiry(expirations, S, ExpIn(g))
  BY DEF SeedInv
<1>3. r \in S <=> p \in PeersIn(ns)
  BY <1>1 DEF RegIn, PeersIn
<1>4. \A x \in S : ExpIn(g)[x] <= v
  BY <1>2 DEF ExpIn, RegIn, Table
<1>5. CASE ~Accepted(ns, p)
  <2>1. h = Having(g, ns, m) /\ expirations' = expirations
    BY <1>5, Zenon DEF RegisterPeer, Accepted
  <2>2. Table(h, v) /\ RegIn(h) = S /\ ExpIn(h) = ExpIn(g)
    BY <1>2, <2>1, RefusedLeavesTable, Zenon
  <2>. QED
    BY <1>2, <2>1, <2>2, Zenon DEF Ordered
<1>6. CASE Accepted(ns, p)
  <2>1. h = Having(g, ns, Having(m, p, v))
    BY <1>6, Zenon DEF RegisterPeer
  <2>2. /\ Table(h, v) /\ RegIn(h) = S \cup {r} /\ ExpIn(h)[r] = v
        /\ \A x \in S : x # r => ExpIn(h)[x] = ExpIn(g)[x]
    <3> HIDE DEF v, h, m
    <3>. QED
      BY <1>1, <1>2, <2>1, AcceptedIsAdded DEF m
  <2>3. CASE p \in PeersIn(ns)
    <3> DEFINE T == S \ {r}
               u == Unlinked(expirations, r)
    <3>1. expirations' = Append(u, r)
      BY <2>3, Zenon DEF RegisterPeer, MoveToBack
    <3>2. r \in S /\ r \notin T /\ T \cup {r} = S \cup {r}
      BY <1>3, <2>3
    <3>3. ByExpiry(u, T, ExpIn(g))
      BY <1>2, <3>2, UnlinkKeepsOrder, Zenon
    <3>4. \A x \in T : ExpIn(h)[x] = ExpIn(g)[x] /\ ExpIn(h)[x] <= ExpIn(h)[r]
      BY <1>4, <2>2
    <3> HIDE DEF T, u, r, h, g
    <3>5. ByExpiry(Append(u, r), T \cup {r}, ExpIn(h))
      BY <1>1, <3>2, <3>3, <3>4, AppendKeepsOrder
    <3>6. ByExpiry(expirations', RegIn(h), ExpIn(h))
      BY <2>2, <3>1, <3>2, <3>5, Zenon
    <3>. QED
      BY <2>2, <3>6, Zenon DEF Ordered, h
  <2>4. CASE p \notin PeersIn(ns)
    <3>1. expirations' = Append(expirations, r)
      BY <1>6, <2>4, Zenon DEF RegisterPeer
    <3>2. r \notin S
      BY <1>3, <2>4
    <3>3. \A x \in S : ExpIn(h)[x] = ExpIn(g)[x] /\ ExpIn(h)[x] <= ExpIn(h)[r]
      BY <1>4, <2>2, <3>2
    <3> HIDE DEF r, h, g, S
    <3>4. ByExpiry(Append(expirations, r), S \cup {r}, ExpIn(h))
      BY <1>1, <1>2, <3>2, <3>3, AppendKeepsOrder
    <3>5. ByExpiry(expirations', RegIn(h), ExpIn(h))
      BY <2>2, <3>1, <3>4, Zenon
    <3>. QED
      BY <2>2, <3>5, Zenon DEF Ordered, h
  <2>. QED
    BY <2>3, <2>4
<1>. QED
  BY <1>5, <1>6

LEMMA SeedStart == PeerRegistrationTTL \in Nat /\ InitSeed => SeedInv
<1> SUFFICES ASSUME PeerRegistrationTTL \in Nat, InitSeed PROVE SeedInv
  OBVIOUS
<1>1. registrations = <<>> /\ expirations = <<>> /\ DOMAIN registrations = {} /\ DOMAIN backup = {}
  BY DEF InitSeed, NoEntries
<1>2. SeedTyped /\ Table(registrations, now + PeerRegistrationTTL) /\ RegIn(registrations) = {}
  BY <1>1 DEF SeedTyped, Table, RegIn, InitSeed
<1>3. expirations \in Seq(Pairs) /\ DOMAIN expirations = {}
  BY <1>1
<1>4. ByExpiry(expirations, {}, ExpIn(registrations))
  BY <1>3 DEF ByExpiry
<1>. QED
  BY <1>2, <1>4 DEF SeedInv

LEMMA SeedStep ==
  ASSUME PeerRegistrationTTL \in Nat, SeedInv, [NextSeed]_ssvars
  PROVE  SeedInv'
<1>0. SeedTyped /\ Ordered(registrations, expirations) /\ now \in Nat
  BY DEF SeedInv, SeedTyped, Ordered
<1>a. ASSUME now' = now, SeedTyped', Ordered(registrations', expirations') PROVE SeedInv'
  BY <1>a DEF SeedInv, Ordered
<1>b. ASSUME UNCHANGED <<registrations, expirations>>, now' = now, SeedTyped' PROVE SeedInv'
  <2>1. Ordered(registrations', expirations')
    BY <1>0, <1>b
  <2>. QED
    BY <1>a, <1>b, <2>1
<1>c. ASSUME UNCHANGED <<now, backup, toRestore>> PROVE SeedTyped'
  BY <1>0, <1>c DEF SeedTyped
<1>1. CASE SeedTick
  <2>1. now' = now + 1 /\ UNCHANGED <<registrations, expirations, backup, toRestore>>
    BY <1>1 DEF SeedTick
  <2>2. SeedTyped'
    BY <1>0, <2>1 DEF SeedTyped
  <2>3. now + PeerRegistrationTTL \in Nat /\ now' + PeerRegistrationTTL = now + PeerRegistrationTTL + 1
    BY <1>0, <2>1
  <2>4. Table(registrations, now + PeerRegistrationTTL + 1)
    BY <1>0, <2>3 DEF Ordered, Table
  <2>. QED
    BY <1>0, <2>1, <2>2, <2>3, <2>4 DEF SeedInv, Ordered
<1>2. CASE cleanup
  <2>1. PICK k \in 0..Len(expirations) :
          /\ registrations' = Dropped({expirations[i] : i \in 1..k})
          /\ expirations' = SubSeq(expirations, k + 1, Len(expirations))
    BY <1>2, Zenon DEF cleanup
  <2>2. UNCHANGED <<now, backup, toRestore>>
    BY <1>2 DEF cleanup
  <2> DEFINE R == {expirations[i] : i \in 1..k}
             h == registrations'
             S == RegIn(registrations)
  <2>3. Table(registrations, now + PeerRegistrationTTL) /\ ByExpiry(expirations, S, ExpIn(registrations))
    BY <1>0, Zenon DEF Ordered
  <2>4. /\ Table(h, now + PeerRegistrationTTL) /\ RegIn(h) = S \ R
        /\ \A r \in S \ R : ExpIn(h)[r] = ExpIn(registrations)[r]
    <3>1. h = Dropped(R)
      BY <2>1
    <3> HIDE DEF R, h
    <3>. QED
      BY <2>3, <3>1, DroppedAreGone
  <2>5. ByExpiry(SubSeq(expirations, k + 1, Len(expirations)), S \ R, ExpIn(h))
    BY <2>3, <2>4, SuffixKeepsOrder, Zenon
  <2>6. Ordered(registrations', expirations')
    BY <2>1, <2>4, <2>5, Zenon DEF Ordered
  <2>. QED
    BY <1>a, <1>c, <2>2, <2>6
<1>3. CASE BackupPeers
  <2>1. UNCHANGED <<now, registrations, expirations, toRestore>>
    BY <1>3 DEF BackupPeers
  <2>2. DOMAIN backup' \subseteq DOMAIN registrations /\ \A ns \in DOMAIN backup' : backup'[ns] = PeersIn(ns)
    BY <1>3 DEF BackupPeers
  <2>3. DOMAIN registrations \subseteq Namespaces /\ \A ns \in DOMAIN registrations : PeersIn(ns) \subseteq PeerIds
    BY <1>0 DEF Ordered, Table, PeersIn
  <2>4. SeedTyped'
    BY <1>0, <2>1, <2>2, <2>3 DEF SeedTyped
  <2>. QED
    BY <1>b, <2>1, <2>4
<1>4. CASE RestartSeed
  <2>1. /\ registrations' = <<>> /\ expirations' = <<>> /\ UNCHANGED <<now, backup>>
        /\ toRestore' = UNION {SavedIn(ns) : ns \in DOMAIN backup}
    BY <1>4 DEF RestartSeed, NoEntries
  <2>2. toRestore' \subseteq Pairs
    BY <1>0, <2>1 DEF SeedTyped, SavedIn, Pairs
  <2>3. SeedTyped'
    BY <1>0, <2>1, <2>2 DEF SeedTyped
  <2>4. DOMAIN registrations' = {}
    BY <2>1
  <2>5. Table(registrations', now + PeerRegistrationTTL) /\ RegIn(registrations') = {}
    BY <2>4 DEF Table, RegIn
  <2>6. expirations' \in Seq(Pairs) /\ DOMAIN expirations' = {}
    BY <2>1
  <2>7. ByExpiry(expirations', {}, ExpIn(registrations'))
    BY <2>6 DEF ByExpiry
  <2>. QED
    BY <1>a, <2>1, <2>3, <2>5, <2>7, ZenonT(30) DEF Ordered
<1>5. CASE RestorePeer
  <2>1. PICK r \in toRestore :
          /\ RegisterPeer(r[1], r[2]) /\ UNCHANGED <<now, backup>>
          /\ toRestore' = IF Accepted(r[1], r[2]) THEN toRestore \ {r} ELSE {}
    BY <1>5, Zenon DEF RestorePeer
  <2>2. r[1] \in Namespaces /\ r[2] \in PeerIds /\ toRestore' \subseteq toRestore
    BY <1>0, <2>1 DEF SeedTyped, Pairs
  <2>3. SeedTyped'
    BY <1>0, <2>1, <2>2 DEF SeedTyped
  <2>4. Ordered(registrations', expirations')
    BY <2>1, <2>2, AddKeepsOrder, Zenon
  <2>. QED
    BY <1>a, <2>1, <2>3, <2>4
<1>6. ASSUME NEW ns \in Namespaces, NEW p \in PeerIds, handleAdvertise(ns, p) PROVE SeedInv'
  <2>1. RegisterPeer(ns, p) /\ UNCHANGED <<now, backup, toRestore>>
    BY <1>6 DEF handleAdvertise
  <2>2. Ordered(registrations', expirations')
    BY <2>1, AddKeepsOrder, Zenon
  <2>. QED
    BY <1>a, <1>c, <2>1, <2>2
<1>7. ASSUME NEW ns \in Namespaces, NEW p \in PeerIds, UnregisterPeer(ns, p) PROVE SeedInv'
  <2> DEFINE r == <<ns, p>>
             h == registrations'
             S == RegIn(registrations)
  <2>1. /\ p \in PeersIn(ns) /\ registrations' = Dropped({r}) /\ expirations' = Unlinked(expirations, r)
        /\ UNCHANGED <<now, backup, toRestore>>
    BY <1>7 DEF UnregisterPeer
  <2>2. Table(registrations, now + PeerRegistrationTTL) /\ ByExpiry(expirations, S, ExpIn(registrations))
    BY <1>0, Zenon DEF Ordered
  <2>3. r \in S
    BY <2>1 DEF RegIn, PeersIn, Pairs
  <2>4. /\ Table(h, now + PeerRegistrationTTL) /\ RegIn(h) = S \ {r}
        /\ \A x \in S \ {r} : ExpIn(h)[x] = ExpIn(registrations)[x]
    BY <2>1, <2>2, DroppedAreGone, Zenon
  <2>5. ByExpiry(Unlinked(expirations, r), S \ {r}, ExpIn(h))
    BY <2>2, <2>3, <2>4, UnlinkKeepsOrder, Zenon
  <2>6. Ordered(registrations', expirations')
    BY <2>1, <2>4, <2>5, Zenon DEF Ordered
  <2>. QED
    BY <1>a, <1>c, <2>1, <2>6
<1>8. CASE UNCHANGED ssvars
  BY <1>b, <1>c, <1>8 DEF ssvars
<1>. QED
  BY <1>1, <1>2, <1>3, <1>4, <1>5, <1>6, <1>7, <1>8 DEF NextSeed

(* THEOREM.  cleanup of the seed's peer store finds every expired registration *)
(* although it stops at the first one that is not: Store.Add, Remove, cleanup, *)
(* Backup and Restore keep the list in the order of expiry, each registration  *)
(* once.                                                                       *)
THEOREM CleanupFindsAll == ASSUME PeerRegistrationTTL \in Nat PROVE SeedSpec => []CleanupFindsExpired
<1>. QED
  BY SeedStart, SeedStep, SeedInvSuffices, PTL DEF SeedSpec

-----------------------------------------------------------------------------
(* Discovery through seed nodes (go/p2p/discovery).                             *)
CONSTANTS Limits, retentionPeriod, discoveryBackOff, maliciousSeedBackOff, MaxRestarts
VARIABLES advertising, advCh, loop, ongoing, cancelled, restarts, nextDiscovery, cache, malice

INSTANCE Discovery

(* While a seed counts as malicious for a namespace, the cache of the          *)
(* namespace is an empty one that serves every limit for just as long.         *)
SilentInv ==
    /\ now \in Nat /\ malice \in [Namespaces -> Int] /\ DOMAIN cache = Namespaces
    /\ \A n \in Namespaces :
        malice[n] > now => cache[n].peers = 0 /\ cache[n].limit = 0 /\ cache[n].expires = malice[n]

(* It holds at first, and every step keeps it.                                 *)
LEMMA SilentInit == InitDiscovery => SilentInv
  BY DEF InitDiscovery, NoCache, SilentInv

LEMMA SilentStep ==
  ASSUME maliciousSeedBackOff \in Nat, SilentInv, [NextDiscovery]_(dvars)
  PROVE  SilentInv'
<1>1. CASE Tick
  BY <1>1 DEF Tick, SilentInv
<1>2. ASSUME NEW n \in Namespaces, NEW l \in Limits, fetchPeers(n, l)
      PROVE  SilentInv'
  <2>1. malice[n] <= now
    BY <1>2 DEF fetchPeers, Serves, SilentInv
  <2>2. CASE UNCHANGED <<now, malice>> /\ \E c : cache' = [cache EXCEPT ![n] = c]
    BY <2>1, <2>2 DEF SilentInv
  <2>3. CASE /\ cache' = [cache EXCEPT ![n] = NoPeers(l)]
             /\ malice' = [malice EXCEPT ![n] = now + maliciousSeedBackOff]
             /\ UNCHANGED now
    BY <2>3 DEF SilentInv, NoPeers
  <2>4. CASE UNCHANGED <<now, malice, cache>>
    BY <2>4 DEF SilentInv
  <2>. QED
    BY <1>2, <2>2, <2>3, <2>4 DEF fetchPeers
<1>3. CASE UNCHANGED <<now, malice, cache>>
  BY <1>3 DEF SilentInv
<1>. QED
  BY <1>1, <1>2, <1>3 DEF NextDiscovery, FetchPeers, Advertise, fetchvars, dvars

(* THEOREM.  A seed that sent too many peers is not asked about the namespace  *)
(* again before the back-off has passed (fetchPeers), whatever the limits of   *)
(* the callers, the retention period and the back-offs are.                    *)
THEOREM SeedsStaySilent ==
  ASSUME maliciousSeedBackOff \in Nat
  PROVE  DiscoverySpec => []SilentAfterMalice
<1>1. SilentInv => SilentAfterMalice
  BY DEF SilentInv, SilentAfterMalice
<1>. QED
  BY <1>1, SilentInit, SilentStep, PTL DEF DiscoverySpec

(* A change is advertised or the advertiser has still to be woken for it.      *)
LEMMA AdvertisesStep ==
  ASSUME AdvertisesAll, [NextDiscovery]_(dvars)
  PROVE  AdvertisesAll'
  BY DEF AdvertisesAll, NextDiscovery, Advertise, FetchPeers, Start, Select, Update, StopAdvertiser, startAdvertising,
         stopAdvertising, Woken, AdvertiserEnds, advvars, dvars

(* THEOREM.  The advertiser runs for exactly the namespaces it should, or a    *)
(* wake-up is waiting for it: startAdvertising and stopAdvertising lose no     *)
(* change although the channel holds a single one.                             *)
THEOREM NoChangeMissed == DiscoverySpec => []AdvertisesAll
<1>1. InitDiscovery => AdvertisesAll
  BY DEF InitDiscovery, AdvertisesAll
<1>. QED
  BY <1>1, AdvertisesStep, PTL DEF DiscoverySpec


------------------------------------------------------------------------------
(* The peers known from the registry (go/p2p/peermgmt/registry.go).            *)
CONSTANTS Protocols, Addresses, MaxChanges
VARIABLES registered, nodeListCh, nodeCh, peers, protocolPeers, handled, found, sent, tags, tagged, changes

INSTANCE PeerRegistry WITH applied <- handled

(* Handling nodes, one or a whole list, keeps the indices in agreement with    *)
(* the descriptors.                                                            *)
LEMMA HandledNodes ==
  ASSUME NEW index, NEW addrs, NEW descs, NEW nodes, handleNodes(index, addrs, descs, nodes),
         DOMAIN addrs = DOMAIN descs, \A p \in DOMAIN descs : addrs[p] = descs[p].addr,
         \A r \in Protocols : index[r] = {p \in DOMAIN descs : r \in descs[p].protocols},
         UNCHANGED <<tags, tagged>>, tagged = tags
  PROVE  IndexFollows'
<1>1. /\ DOMAIN peers' = DOMAIN nodes \cup DOMAIN addrs
      /\ \A p \in DOMAIN peers' : peers'[p] = IF p \in DOMAIN nodes THEN nodes[p].addr ELSE addrs[p]
  BY DEF handleNodes, Over
<1>2. /\ DOMAIN handled' = DOMAIN nodes \cup DOMAIN descs
      /\ \A p \in DOMAIN handled' : handled'[p] = IF p \in DOMAIN nodes THEN nodes[p] ELSE descs[p]
  BY DEF handleNodes, Over
<1>3. \A r \in Protocols : protocolPeers'[r] = {p \in DOMAIN handled' : r \in handled'[p].protocols}
  BY <1>2 DEF handleNodes, Replaced
<1>. QED
  BY <1>1, <1>2, <1>3 DEF IndexFollows

(* THEOREM.  Whatever registrations and node lists arrive, in whatever order,  *)
(* and whoever searches and tags meanwhile, the indices of handleNodes and     *)
(* clearNodes agree with the descriptors handled last, for any number of peers *)
(* and protocols.                                                              *)
THEOREM IndexAlwaysFollows == RegistrySpec => []IndexFollows
<1>1. InitRegistry => IndexFollows
  BY DEF InitRegistry, IndexFollows, Empty
<1>2. IndexFollows /\ [NextRegistry]_(prvars) => IndexFollows'
  <2> SUFFICES ASSUME IndexFollows, [NextRegistry]_(prvars) PROVE IndexFollows'
    OBVIOUS
  <2>1. CASE WatchList
    <3>1. handleNodes([r \in Protocols |-> {}], Empty, Empty, Head(nodeListCh)) /\ UNCHANGED <<tags, tagged>>
      BY <2>1 DEF WatchList, searchvars
    <3>2. DOMAIN Empty = {} /\ tagged = tags
      BY DEF Empty, IndexFollows
    <3>. QED
      BY <3>1, <3>2, HandledNodes
  <2>2. CASE WatchNode
    <3>1. handleNodes(protocolPeers, peers, handled, One(Head(nodeCh)[1], Head(nodeCh)[2])) /\ UNCHANGED <<tags, tagged>>
      BY <2>2 DEF WatchNode, searchvars
    <3>. QED
      BY <3>1, HandledNodes DEF IndexFollows
  <2>3. ASSUME NEW S \in SUBSET PeerIds, SetPeerImportance(S) PROVE IndexFollows'
    BY <2>3 DEF SetPeerImportance, dirvars, IndexFollows
  <2>4. CASE UNCHANGED <<dirvars, tags, tagged>>
    BY <2>4 DEF dirvars, IndexFollows
  <2>. QED
    BY <2>1, <2>2, <2>3, <2>4 DEF NextRegistry, Register, NewEpoch, findPeers, SendPeer, searchvars, prvars, dirvars
<1>. QED
  BY <1>1, <1>2, PTL DEF RegistrySpec


-----------------------------------------------------------------------------
(* The connector (go/p2p/peermgmt/connector.go).                            *)
CONSTANTS Calls, Blocked, MaxDrops
VARIABLES linked, backoffs, attempts, call, job, drops

INSTANCE PeerConnector WITH connected <- linked, ongoing <- attempts

Busy(c) == Jobs(c, {"check", "join", "dial"})

\* The tickets of attempts that succeeded.
Good(t) == {i \in DOMAIN t : t[i]}

\* One more attempt is about to start.
DialDue(k) == IF k.pc = "dial" THEN 1 ELSE 0

\* A connectMany call k with the attempts J under way.  A ticket it has not
\* taken, an attempt, or the dial it is about to make stands for each of the
\* connections it still wants; every peer is in one place.
CallOK(k, J) ==
  /\ k.pc \in {"receive", "ticket", "dial", "wait", "returned"} /\ k.ctx \in BOOLEAN
  /\ k.peers \in SUBSET PeerIds /\ k.won \in SUBSET PeerIds /\ J \in SUBSET PeerIds
  /\ k.left \in 0..maxPeers /\ k.tickets \in Seq(BOOLEAN)
  /\ k.won \intersect J = {} /\ k.won \intersect k.peers = {} /\ J \intersect k.peers = {}
  /\ k.pc \in {"ticket", "dial"} => k.info \in PeerIds \ (k.won \union J \union k.peers)
  /\ Len(k.tickets) + Cardinality(J) + DialDue(k) = k.left
  /\ Cardinality(k.won) = (maxPeers - k.left) + Cardinality(Good(k.tickets))
  /\ k.pc \in {"wait", "returned"} /\ k.ctx => k.peers = {} \/ k.left = 0

Parts == {"pc", "peers", "info", "left", "tickets", "won", "ctx"}

ConnInv ==
  /\ job \in [Calls -> [PeerIds -> {"idle", "check", "join", "dial"}]]
  /\ DOMAIN call = Calls
  /\ \A c \in Calls : DOMAIN call[c] = Parts /\ CallOK(call[c], Busy(c))

LEMMA GoodCount ==
  ASSUME SetFacts, NEW t \in Seq(BOOLEAN)
  PROVE  IsFiniteSet(Good(t)) /\ Cardinality(Good(t)) \in Nat /\ Cardinality(Good(t)) <= Len(t)
<1>1. Good(t) \in SUBSET (1..Len(t)) /\ Len(t) \in Nat
  BY DEF Good
<1> DEFINE n == Len(t)
<1>a. n \in Int /\ n >= 0 /\ 1 \in Int
  BY <1>1
<1> HIDE DEF n
<1>b. IsFiniteSet(1..n) /\ Cardinality(1..n) = IF 1 > n THEN 0 ELSE n - 1 + 1
  BY <1>a, IntervalIsFinite
<1>c. Cardinality(1..n) = n
  BY <1>a, <1>b
<1>2. IsFiniteSet(1..Len(t)) /\ Cardinality(1..Len(t)) = Len(t)
  BY <1>b, <1>c DEF n
<1>3. IsFiniteSet(Good(t)) /\ Cardinality(Good(t)) <= Cardinality(1..Len(t))
  BY <1>1, <1>2, SubsetIsFinite
<1> QED BY <1>2, <1>3, CardinalityIsNat

LEMMA GoodAppended ==
  ASSUME SetFacts, NEW t \in Seq(BOOLEAN), NEW ok \in BOOLEAN
  PROVE  Cardinality(Good(Append(t, ok))) = Cardinality(Good(t)) + (IF ok THEN 1 ELSE 0)
<1> DEFINE u == Append(t, ok)
           n == Len(t)
<1>1. /\ n \in Nat /\ DOMAIN t = 1..n /\ DOMAIN u = 1..(n + 1) /\ u[n + 1] = ok
      /\ \A i \in 1..n : u[i] = t[i]
  OBVIOUS
<1> HIDE DEF u, n
<1>2. IsFiniteSet(Good(t)) /\ Cardinality(Good(t)) \in Nat
  BY GoodCount
<1>3. CASE ok
  <2>a. \A i : i \in Good(u) <=> (i \in 1..n /\ t[i]) \/ i = n + 1
    <3>1. \A i : i \in 1..(n + 1) <=> (i \in 1..n \/ i = n + 1)
      BY <1>1
    <3> QED BY <1>1, <1>3, <3>1, Zenon DEF Good
  <2>b. n + 1 \notin 1..n /\ \A i : i \in Good(t) <=> (i \in 1..n /\ t[i])
    BY <1>1 DEF Good
  <2>1. Good(u) = Good(t) \union {n + 1} /\ n + 1 \notin Good(t)
    BY <2>a, <2>b
  <2>2. Cardinality(Good(t) \union {n + 1}) = Cardinality(Good(t)) + 1
    BY <1>2, <2>1, AddingOne, ZenonT(30)
  <2> QED BY <1>3, <2>1, <2>2, ZenonT(30) DEF u
<1>4. CASE ~ok
  <2>1. Good(u) = Good(t)
    BY <1>1, <1>4 DEF Good
  <2> QED BY <1>2, <1>4, <2>1 DEF u
<1> QED BY <1>3, <1>4

LEMMA GoodTail ==
  ASSUME SetFacts, NEW t \in Seq(BOOLEAN), t # <<>>
  PROVE  /\ Tail(t) \in Seq(BOOLEAN) /\ Len(Tail(t)) = Len(t) - 1 /\ Len(t) \in Nat \ {0}
         /\ Head(t) \in BOOLEAN
         /\ Cardinality(Good(t)) = Cardinality(Good(Tail(t))) + (IF Head(t) THEN 1 ELSE 0)
<1> DEFINE u == Tail(t)
           n == Len(t)
           G == Good(t) \ {1}
           f == [i \in Good(u) |-> i + 1]
<1>1. /\ n \in Nat \ {0} /\ DOMAIN t = 1..n /\ u \in Seq(BOOLEAN) /\ DOMAIN u = 1..(n - 1)
      /\ Len(u) = n - 1 /\ Head(t) = t[1] /\ t[1] \in BOOLEAN
  OBVIOUS
<1>2. \A i \in 1..(n - 1) : u[i] = t[i + 1]
  BY <1>1
<1> HIDE DEF u, n
<1>3. \A i : i \in Good(u) <=> (i \in 1..(n - 1) /\ t[i + 1])
  BY <1>1, <1>2 DEF Good
<1>4. \A j : j \in G <=> (j \in 2..n /\ t[j])
  BY <1>1 DEF Good
<1>5. IsFiniteSet(Good(t)) /\ IsFiniteSet(Good(u)) /\ Cardinality(Good(t)) \in Nat
      /\ Cardinality(Good(u)) \in Nat
  BY <1>1, GoodCount
<1>6. OneToOne(f, Good(u), G)
  <2>1. f \in [Good(u) -> G]
    BY <1>1, <1>3, <1>4
  <2>2. \A a, b \in Good(u) : f[a] = f[b] => a = b
    BY <1>1, <1>3
  <2>3. ASSUME NEW j \in G PROVE \E i \in Good(u) : f[i] = j
    <3>1. j \in 2..n /\ t[j]
      BY <1>4
    <3>2. j - 1 \in 1..(n - 1) /\ (j - 1) + 1 = j
      BY <1>1, <3>1
    <3>3. j - 1 \in Good(u)
      BY <1>3, <3>1, <3>2
    <3> QED BY <3>2, <3>3
  <2> HIDE DEF f
  <2> QED BY <2>1, <2>2, <2>3 DEF OneToOne, Onto
<1>7. Cardinality(G) = Cardinality(Good(u))
  <2> HIDE DEF f, G
  <2> QED BY <1>5, <1>6, BijectionKeepsCount
<1>8. Cardinality(G) = IF 1 \in Good(t) THEN Cardinality(Good(t)) - 1 ELSE Cardinality(Good(t))
  BY <1>5, RemovingOne, ZenonT(30)
<1> HIDE DEF G, f
<1>9. 1 \in Good(t) <=> Head(t)
  <2>1. 1 \in 1..n
    BY <1>1
  <2> QED BY <1>1, <2>1, Zenon DEF Good
<1>10. Cardinality(Good(t)) = Cardinality(Good(u)) + (IF Head(t) THEN 1 ELSE 0)
  <2>1. 1 \in Good(t) => Cardinality(Good(t)) = Cardinality(Good(u)) + 1
    BY <1>5, <1>7, <1>8
  <2>2. 1 \notin Good(t) => Cardinality(Good(t)) = Cardinality(Good(u)) + 0
    BY <1>5, <1>7, <1>8
  <2> QED BY <1>9, <2>1, <2>2, Zenon
<1> QED BY <1>1, <1>10, ZenonT(30) DEF u, n

\* Two records that differ only in the parts F.
Like(k, w, F) == DOMAIN w = Parts /\ \A f \in Parts \ F : w[f] = k[f]

LEMMA BusySets ==
  ASSUME SetFacts, IsFiniteSet(PeerIds), NEW k, NEW J, CallOK(k, J)
  PROVE  /\ IsFiniteSet(J) /\ Cardinality(J) \in Nat /\ IsFiniteSet(k.won) /\ Cardinality(k.won) \in Nat
         /\ k.left \in Nat /\ Len(k.tickets) \in Nat /\ Cardinality(Good(k.tickets)) \in Nat
         /\ Cardinality(Good(k.tickets)) <= Len(k.tickets) /\ DialDue(k) \in Nat
         /\ Len(k.tickets) + Cardinality(J) + DialDue(k) = k.left
<1>1. J \in SUBSET PeerIds /\ k.won \in SUBSET PeerIds /\ k.tickets \in Seq(BOOLEAN)
      /\ k.left \in 0..maxPeers
  BY DEF CallOK
<1>2. IsFiniteSet(J) /\ IsFiniteSet(k.won)
  BY <1>1, SubsetIsFinite
<1>3. Cardinality(J) \in Nat /\ Cardinality(k.won) \in Nat
  BY <1>2, CardinalityIsNat
<1>4. Cardinality(Good(k.tickets)) \in Nat /\ Cardinality(Good(k.tickets)) <= Len(k.tickets)
  BY <1>1, GoodCount
<1>5. DialDue(k) \in Nat /\ Len(k.tickets) + Cardinality(J) + DialDue(k) = k.left
  BY DEF CallOK, DialDue
<1> QED BY <1>1, <1>2, <1>3, <1>4, <1>5

\* The sum of the tickets, the attempts and the one that is due stays the same.
LEMMA OneMoves == \A t, j, d, l \in Nat : t + j + d = l => (t + 1) + (j - 1) + d = l
  OBVIOUS

\* An attempt at p ends with the result ok.
Ended(k, p, ok) == [k EXCEPT !.tickets = Append(@, ok), !.won = IF ok THEN @ \union {p} ELSE @]

LEMMA AttemptEnds ==
  ASSUME SetFacts, IsFiniteSet(PeerIds), maxPeers \in Nat, NEW k, NEW J, DOMAIN k = Parts, CallOK(k, J),
         NEW p \in J, NEW ok \in BOOLEAN
  PROVE  DOMAIN Ended(k, p, ok) = Parts /\ CallOK(Ended(k, p, ok), J \ {p})
<1> DEFINE w == Ended(k, p, ok)
<1>1. /\ Like(k, w, {"tickets", "won"}) /\ w.tickets = Append(k.tickets, ok)
      /\ w.won = IF ok THEN k.won \union {p} ELSE k.won
  BY ZenonT(30) DEF Ended, Like, Parts
<1> HIDE DEF w
<1>2. /\ w.pc = k.pc /\ w.ctx = k.ctx /\ w.peers = k.peers /\ w.left = k.left /\ w.info = k.info
      /\ DOMAIN w = Parts
  BY <1>1, Zenon DEF Like, Parts
<1>3. /\ IsFiniteSet(J) /\ Cardinality(J) \in Nat /\ IsFiniteSet(k.won) /\ Cardinality(k.won) \in Nat
      /\ k.left \in Nat /\ Len(k.tickets) \in Nat /\ Cardinality(Good(k.tickets)) \in Nat
      /\ DialDue(k) \in Nat /\ Len(k.tickets) + Cardinality(J) + DialDue(k) = k.left
  BY BusySets, Zenon
<1>4. k.tickets \in Seq(BOOLEAN) /\ p \in PeerIds /\ p \notin k.won /\ p \notin k.peers
  BY DEF CallOK
<1>5. w.tickets \in Seq(BOOLEAN) /\ Len(w.tickets) = Len(k.tickets) + 1
  BY <1>1, <1>4
<1>6. Cardinality(Good(w.tickets)) = Cardinality(Good(k.tickets)) + (IF ok THEN 1 ELSE 0)
  BY <1>1, <1>4, GoodAppended
<1>7. Cardinality(J \ {p}) = Cardinality(J) - 1
  BY <1>3, RemovingOne, ZenonT(30)
<1>8. /\ w.won \in SUBSET PeerIds /\ w.won \intersect (J \ {p}) = {} /\ w.won \intersect k.peers = {}
      /\ k.pc \in {"ticket", "dial"} => k.info \notin w.won
      /\ Cardinality(w.won) = Cardinality(k.won) + (IF ok THEN 1 ELSE 0)
  <2>1. CASE ok
    <3>1. w.won = k.won \union {p}
      BY <1>1, <2>1
    <3>2. Cardinality(k.won \union {p}) = Cardinality(k.won) + 1
      BY <1>3, <1>4, AddingOne, ZenonT(30)
    <3> QED BY <1>4, <2>1, <3>1, <3>2, Zenon DEF CallOK
  <2>2. CASE ~ok
    <3>1. w.won = k.won
      BY <1>1, <2>2
    <3>2. Cardinality(w.won) = Cardinality(k.won) + (IF ok THEN 1 ELSE 0)
      BY <1>3, <2>2, <3>1
    <3> QED BY <1>4, <3>1, <3>2, Zenon DEF CallOK
  <2> QED BY <2>1, <2>2, Zenon
<1>9. Len(w.tickets) + Cardinality(J \ {p}) + DialDue(w) = w.left
  <2>1. DialDue(w) = DialDue(k)
    BY <1>2, Zenon DEF DialDue
  <2>2. (Len(k.tickets) + 1) + (Cardinality(J) - 1) + DialDue(k) = k.left
    BY <1>3, OneMoves, SMTT(40)
  <2>3. Len(w.tickets) = Len(k.tickets) + 1
    BY <1>5
  <2> QED BY <1>2, <1>7, <2>1, <2>2, <2>3, Zenon
<1>10. Cardinality(w.won) = (maxPeers - w.left) + Cardinality(Good(w.tickets))
  <2>1. Cardinality(k.won) = (maxPeers - k.left) + Cardinality(Good(k.tickets))
    BY DEF CallOK
  <2>2. PICK d \in {0, 1} : d = IF ok THEN 1 ELSE 0
    OBVIOUS
  <2>3. /\ Cardinality(w.won) = Cardinality(k.won) + d
        /\ Cardinality(Good(w.tickets)) = Cardinality(Good(k.tickets)) + d
    BY <1>6, <1>8, <2>2, ZenonT(40)
  <2> QED BY <1>2, <1>3, <2>1, <2>3
<1>11. CallOK(w, J \ {p})
  BY <1>2, <1>5, <1>8, <1>9, <1>10 DEF CallOK
<1> QED BY <1>2, <1>11 DEF w

\* The call takes the next peer.
LEMMA PeerTaken ==
  ASSUME NEW k, NEW J, DOMAIN k = Parts, CallOK(k, J), k.pc = "receive", NEW p \in k.peers,
         NEW w, w = [k EXCEPT !.pc = "ticket", !.info = p, !.peers = @ \ {p}]
  PROVE  DOMAIN w = Parts /\ CallOK(w, J)
<1>1. Like(k, w, {"pc", "info", "peers"}) /\ w.pc = "ticket" /\ w.info = p /\ w.peers = k.peers \ {p}
  BY ZenonT(30) DEF Like, Parts
<1>2. /\ DOMAIN w = Parts /\ w.ctx = k.ctx /\ w.left = k.left /\ w.tickets = k.tickets /\ w.won = k.won
  BY <1>1 DEF Like, Parts
<1>3. p \in PeerIds \ (k.won \union J \union (k.peers \ {p}))
  BY DEF CallOK
<1>4. DialDue(w) = DialDue(k)
  BY <1>1 DEF DialDue
<1> QED BY <1>1, <1>2, <1>3, <1>4 DEF CallOK

\* A ticket of a failed attempt allows another, one of a success is one less.
LEMMA TicketTaken ==
  ASSUME SetFacts, IsFiniteSet(PeerIds), maxPeers \in Nat, NEW k, NEW J, DOMAIN k = Parts, CallOK(k, J),
         k.pc = "ticket", k.tickets # <<>>
  PROVE  DOMAIN Ticket(k) = Parts /\ CallOK(Ticket(k), J)
<1> DEFINE w == Ticket(k)
<1>1. /\ IsFiniteSet(J) /\ Cardinality(J) \in Nat /\ IsFiniteSet(k.won) /\ Cardinality(k.won) \in Nat
      /\ k.left \in Nat /\ Len(k.tickets) \in Nat /\ Cardinality(Good(k.tickets)) \in Nat
      /\ DialDue(k) \in Nat /\ Len(k.tickets) + Cardinality(J) + DialDue(k) = k.left
  BY BusySets, Zenon
<1>2. k.tickets \in Seq(BOOLEAN) /\ k.left \in 0..maxPeers
  BY DEF CallOK
<1>3. /\ Tail(k.tickets) \in Seq(BOOLEAN) /\ Len(Tail(k.tickets)) = Len(k.tickets) - 1
      /\ Len(k.tickets) >= 1
  <2>1. /\ Tail(k.tickets) \in Seq(BOOLEAN) /\ Len(Tail(k.tickets)) = Len(k.tickets) - 1
        /\ Len(k.tickets) \in Nat \ {0}
    BY <1>2, GoodTail, Zenon
  <2> QED BY <2>1
<1>8. Head(k.tickets) \in BOOLEAN
  BY <1>2, GoodTail, Zenon
<1>9. Cardinality(Good(k.tickets))
        = Cardinality(Good(Tail(k.tickets))) + (IF Head(k.tickets) THEN 1 ELSE 0)
  BY <1>2, GoodTail, ZenonT(30)
<1>4. Cardinality(Good(Tail(k.tickets))) \in Nat
  BY <1>3, GoodCount, Zenon
<1>5. /\ Len(k.tickets) + Cardinality(J) + 0 = k.left
      /\ Cardinality(k.won) = (maxPeers - k.left) + Cardinality(Good(k.tickets))
  BY <1>1 DEF CallOK, DialDue
<1>6. CASE ~Head(k.tickets)
  <2>1. w = [k EXCEPT !.tickets = Tail(@), !.pc = "dial"]
    BY <1>6, ZenonT(30) DEF Ticket
  <2>2. Like(k, w, {"tickets", "pc"}) /\ w.tickets = Tail(k.tickets) /\ w.pc = "dial"
    BY <2>1, ZenonT(30) DEF Like, Parts
  <2> HIDE DEF w
  <2>3. /\ DOMAIN w = Parts /\ w.ctx = k.ctx /\ w.left = k.left /\ w.peers = k.peers /\ w.won = k.won
        /\ w.info = k.info
    BY <2>2, Zenon DEF Like, Parts
  <2>4. Len(w.tickets) + Cardinality(J) + DialDue(w) = w.left
    <3>1. DialDue(w) = 1
      BY <2>2 DEF DialDue
    <3> QED BY <1>1, <1>3, <1>5, <2>2, <2>3, <3>1, SMTT(40)
  <2>5. Cardinality(Good(k.tickets)) = Cardinality(Good(w.tickets)) + 0
    BY <1>9, <1>6, <2>2, ZenonT(40)
  <2>6. Cardinality(w.won) = (maxPeers - w.left) + Cardinality(Good(w.tickets))
    BY <1>1, <1>4, <1>5, <2>2, <2>3, <2>5
  <2>7. CallOK(w, J)
    BY <1>3, <2>2, <2>3, <2>4, <2>6, Zenon DEF CallOK
  <2> QED BY <2>3, <2>7 DEF w
<1>7. CASE Head(k.tickets)
  <2>1. w = [k EXCEPT !.tickets = Tail(@), !.left = @ - 1, !.pc = IF k.left = 1 THEN "wait" ELSE "ticket"]
    BY <1>7, ZenonT(30) DEF Ticket
  <2>2. /\ Like(k, w, {"tickets", "pc", "left"}) /\ w.tickets = Tail(k.tickets) /\ w.left = k.left - 1
        /\ w.pc = IF k.left = 1 THEN "wait" ELSE "ticket"
    BY <2>1, ZenonT(30) DEF Like, Parts
  <2> HIDE DEF w
  <2>3. /\ DOMAIN w = Parts /\ w.ctx = k.ctx /\ w.peers = k.peers /\ w.won = k.won
        /\ w.info = k.info
    BY <2>2 DEF Like, Parts
  <2>4. Len(w.tickets) + Cardinality(J) + DialDue(w) = w.left
    <3>1. DialDue(w) = 0
      BY <2>2, Zenon DEF DialDue
    <3>2. w.left = k.left - 1 /\ Len(w.tickets) = Len(k.tickets) - 1
      BY <1>3, <2>2
    <3>3. (Len(k.tickets) - 1) + Cardinality(J) + 0 = k.left - 1
      <4> DEFINE t == Len(k.tickets)
                 j == Cardinality(J)
                 l == k.left
      <4>1. t \in Nat /\ j \in Nat /\ l \in Nat /\ t + j + 0 = l
        BY <1>1, <1>5, ZenonT(40)
      <4> HIDE DEF t, j, l
      <4>2. (t - 1) + j + 0 = l - 1
        BY <4>1
      <4> QED BY <4>2, ZenonT(40) DEF t, j, l
    <3> QED BY <3>1, <3>2, <3>3, Zenon
  <2>5. Cardinality(Good(k.tickets)) = Cardinality(Good(w.tickets)) + 1
    BY <1>9, <1>7, <2>2, Zenon
  <2>6. Cardinality(w.won) = (maxPeers - w.left) + Cardinality(Good(w.tickets))
    <3>1. w.left = k.left - 1 /\ w.won = k.won /\ Cardinality(Good(w.tickets)) \in Nat
      BY <1>4, <2>2, <2>3, Zenon
    <3>2. Cardinality(k.won) = (maxPeers - k.left) + (Cardinality(Good(w.tickets)) + 1)
      BY <1>5, <2>5
    <3>3. (maxPeers - k.left) + (Cardinality(Good(w.tickets)) + 1)
            = (maxPeers - (k.left - 1)) + Cardinality(Good(w.tickets))
      <4> DEFINE l == k.left
                 y == Cardinality(Good(w.tickets))
      <4>1. maxPeers \in Nat /\ l \in Nat /\ y \in Nat
        BY <1>1, <3>1, ZenonT(40)
      <4> HIDE DEF l, y
      <4>2. (maxPeers - l) + (y + 1) = (maxPeers - (l - 1)) + y
        BY <4>1
      <4> QED BY <4>2, ZenonT(40) DEF l, y
    <3> QED BY <3>1, <3>2, <3>3, Zenon
  <2>7. w.left \in 0..maxPeers /\ (w.pc = "wait" => w.left = 0) /\ w.pc \in {"wait", "ticket"}
    <3>1. k.left >= 1
      BY <1>1, <1>3, <1>5, SMTT(40)
    <3> QED BY <1>2, <2>2, <3>1
  <2>8. CallOK(w, J)
    BY <1>3, <2>2, <2>3, <2>4, <2>6, <2>7, Zenon DEF CallOK
  <2> QED BY <2>3, <2>8 DEF w
<1> QED BY <1>8, <1>6, <1>7, ZenonT(30)

\* A call whose context is cancelled, or which goes on to wait.
LEMMA CallStops ==
  ASSUME NEW k, NEW J, DOMAIN k = Parts, CallOK(k, J), k.pc # "returned", NEW w,
         w = [k EXCEPT !.ctx = FALSE]
  PROVE  DOMAIN w = Parts /\ CallOK(w, J)
<1>1. Like(k, w, {"ctx"}) /\ w.ctx = FALSE
  BY DEF Like, Parts
<1>2. /\ DOMAIN w = Parts /\ w.pc = k.pc /\ w.left = k.left /\ w.tickets = k.tickets /\ w.won = k.won
      /\ w.info = k.info /\ w.peers = k.peers
  BY <1>1 DEF Like, Parts
<1>3. DialDue(w) = DialDue(k)
  BY <1>2 DEF DialDue
<1> QED BY <1>1, <1>2, <1>3 DEF CallOK

LEMMA CallMoves ==
  ASSUME NEW k, NEW J, DOMAIN k = Parts, CallOK(k, J), NEW at, NEW w, w = [k EXCEPT !.pc = at],
         \/ k.pc \in {"receive", "ticket"} /\ at = "wait" /\ (k.ctx => k.peers = {})
         \/ k.pc = "wait" /\ at = "returned"
  PROVE  DOMAIN w = Parts /\ CallOK(w, J)
<1>1. Like(k, w, {"pc"}) /\ w.pc = at
  BY DEF Like, Parts
<1>2. /\ DOMAIN w = Parts /\ w.left = k.left /\ w.tickets = k.tickets /\ w.won = k.won
      /\ w.info = k.info /\ w.peers = k.peers /\ w.ctx = k.ctx
  BY <1>1 DEF Like, Parts
<1>3. DialDue(w) = DialDue(k)
  BY <1>1 DEF DialDue
<1> QED BY <1>1, <1>2, <1>3 DEF CallOK

\* The attempt that was due starts.
LEMMA AttemptStarts ==
  ASSUME SetFacts, IsFiniteSet(PeerIds), NEW k, NEW J, DOMAIN k = Parts, CallOK(k, J), k.pc = "dial",
         NEW w, w = [k EXCEPT !.pc = "receive"]
  PROVE  DOMAIN w = Parts /\ CallOK(w, J \union {k.info}) /\ k.info \in PeerIds
<1>1. Like(k, w, {"pc"}) /\ w.pc = "receive"
  BY DEF Like, Parts
<1>2. /\ DOMAIN w = Parts /\ w.left = k.left /\ w.tickets = k.tickets /\ w.won = k.won
      /\ w.info = k.info /\ w.peers = k.peers /\ w.ctx = k.ctx
  BY <1>1 DEF Like, Parts
<1>3. DialDue(w) = 0 /\ DialDue(k) = 1
  BY <1>1 DEF DialDue
<1>4. k.info \in PeerIds \ (k.won \union J \union k.peers)
  BY DEF CallOK
<1>5. /\ IsFiniteSet(J) /\ Cardinality(J) \in Nat /\ Len(k.tickets) \in Nat
      /\ Len(k.tickets) + Cardinality(J) + DialDue(k) = k.left
  BY BusySets
<1>6. Cardinality(J \union {k.info}) = Cardinality(J) + 1
  BY <1>4, <1>5, AddingOne, ZenonT(30)
<1>7. Len(w.tickets) + Cardinality(J \union {k.info}) + DialDue(w) = w.left
  BY <1>2, <1>3, <1>5, <1>6
<1>8. CallOK(w, J \union {k.info})
  BY <1>1, <1>2, <1>4, <1>7 DEF CallOK
<1> QED BY <1>2, <1>4, <1>8

----------------------------------------------------------------------------
\* The invariant for one call, over the jobs jb and the calls cl.
Attempts(jb, c) == {p \in PeerIds : jb[c][p] \in {"check", "join", "dial"}}
JobStates == {"idle", "check", "join", "dial"}
Holds(cl, jb) ==
  /\ jb \in [Calls -> [PeerIds -> JobStates]]
  /\ DOMAIN cl = Calls
  /\ \A c \in Calls : DOMAIN cl[c] = Parts /\ CallOK(cl[c], Attempts(jb, c))

LEMMA HoldsIs == (ConnInv <=> Holds(call, job)) /\ (ConnInv' <=> Holds(call', job'))
<1>1. \A c : Busy(c) = Attempts(job, c)
  BY DEF Busy, Attempts, Jobs
<1>2. \A c : (Busy(c))' = Attempts(job', c)
  BY Zenon DEF Busy, Attempts, Jobs
<1> QED BY <1>1, <1>2, Zenon DEF ConnInv, Holds, JobStates

\* One call changes and no attempt starts or ends.
LEMMA OnlyCall ==
  ASSUME NEW cl, NEW cm, NEW jb, Holds(cl, jb), NEW c \in Calls, NEW w,
         cm = [cl EXCEPT ![c] = w],
         DOMAIN w = Parts, CallOK(w, Attempts(jb, c))
  PROVE  Holds(cm, jb)
<1>1. DOMAIN cm = Calls /\ \A d \in Calls : cm[d] = IF d = c THEN w ELSE cl[d]
  BY DEF Holds
<1>2. ASSUME NEW d \in Calls PROVE DOMAIN cm[d] = Parts /\ CallOK(cm[d], Attempts(jb, d))
  <2>1. CASE d = c
    BY <1>1, <2>1, Zenon
  <2>2. CASE d # c
    BY <1>1, <2>2 DEF Holds
  <2> QED BY <2>1, <2>2
<1> QED BY <1>1, <1>2, Zenon DEF Holds

LEMMA ReceiveHolds == ASSUME ConnInv, NEW c \in Calls, ReceivePeer(c) PROVE ConnInv'
<1> DEFINE k == call[c]
<1>1. Holds(call, job) /\ job' = job
  BY HoldsIs, ZenonT(30) DEF ReceivePeer
<1>2. DOMAIN k = Parts /\ CallOK(k, Attempts(job, c)) /\ k.pc = "receive"
  BY <1>1, ZenonT(30) DEF Holds, ReceivePeer
<1>3. CASE \E p \in k.peers : call' = [call EXCEPT ![c] = [k EXCEPT !.pc = "ticket", !.info = p, !.peers = @ \ {p}]]
  <2>1. PICK p \in k.peers : call' = [call EXCEPT ![c] = [k EXCEPT !.pc = "ticket", !.info = p, !.peers = @ \ {p}]]
    BY <1>3, ZenonT(30)
  <2>2. PICK w : w = [k EXCEPT !.pc = "ticket", !.info = p, !.peers = @ \ {p}]
    OBVIOUS
  <2>3. DOMAIN w = Parts /\ CallOK(w, Attempts(job, c))
    BY <1>2, <2>2, PeerTaken, ZenonT(30)
  <2>4. call' = [call EXCEPT ![c] = w]
    BY <2>1, <2>2, Zenon
  <2>5. Holds(call', job)
    BY <1>1, <2>3, <2>4, OnlyCall, ZenonT(30)
  <2> QED BY <1>1, <2>5, HoldsIs
<1>4. CASE k.peers = {} /\ call' = [call EXCEPT ![c] = [k EXCEPT !.pc = "wait"]]
  <2>1. PICK w : w = [k EXCEPT !.pc = "wait"]
    BY ZenonT(30)
  <2>2. DOMAIN w = Parts /\ CallOK(w, Attempts(job, c))
    BY <1>2, <1>4, <2>1, CallMoves
  <2>3. call' = [call EXCEPT ![c] = w]
    BY <1>4, <2>1, Zenon
  <2>4. Holds(call', job)
    BY <1>1, <2>2, <2>3, OnlyCall, ZenonT(30)
  <2> QED BY <1>1, <2>4, HoldsIs
<1> QED BY <1>3, <1>4, ZenonT(30) DEF ReceivePeer

LEMMA TicketHolds ==
  ASSUME SetFacts, IsFiniteSet(PeerIds), maxPeers \in Nat, ConnInv, NEW c \in Calls, TakeTicket(c)
  PROVE  ConnInv'
<1>1. Holds(call, job) /\ job' = job
  BY HoldsIs, Zenon DEF TakeTicket
<1>2. DOMAIN call[c] = Parts /\ CallOK(call[c], Attempts(job, c)) /\ call[c].pc = "ticket" /\ call[c].tickets # <<>>
  BY <1>1 DEF Holds, TakeTicket
<1>3. PICK w : w = Ticket(call[c])
  BY Zenon
<1>4. DOMAIN w = Parts /\ CallOK(w, Attempts(job, c))
  BY <1>2, <1>3, TicketTaken
<1>5. call' = [call EXCEPT ![c] = w]
  BY <1>3, Zenon DEF TakeTicket
<1>6. Holds(call', job)
  BY <1>1, <1>4, <1>5, OnlyCall, ZenonT(30)
<1> QED BY <1>1, <1>6, HoldsIs, Zenon

LEMMA QuietHolds ==
  ASSUME ConnInv, NEW c \in Calls, ReturnCall(c) \/ Cancel(c) \/ SeeCancel(c)
  PROVE  ConnInv'
<1>1. Holds(call, job) /\ job' = job
  BY HoldsIs DEF ReturnCall, Cancel, SeeCancel
<1>2. DOMAIN call[c] = Parts /\ CallOK(call[c], Attempts(job, c)) /\ DOMAIN call = Calls
  BY <1>1 DEF Holds
<1>3. \E w : call' = [call EXCEPT ![c] = w] /\ DOMAIN w = Parts /\ CallOK(w, Attempts(job, c))
  <2>1. CASE ReturnCall(c)
    <3>1. PICK w : w = [call[c] EXCEPT !.pc = "returned"]
      BY ZenonT(30)
    <3>2. call' = [call EXCEPT ![c] = w] /\ call[c].pc = "wait"
      BY <1>2, <2>1, <3>1, Zenon DEF ReturnCall
    <3>3. DOMAIN w = Parts /\ CallOK(w, Attempts(job, c))
      BY <1>2, <3>1, <3>2, CallMoves
    <3> QED BY <3>2, <3>3, ZenonT(30)
  <2>2. CASE Cancel(c)
    <3>1. PICK w : w = [call[c] EXCEPT !.ctx = FALSE]
      BY ZenonT(30)
    <3>2. call' = [call EXCEPT ![c] = w] /\ call[c].pc # "returned"
      BY <1>2, <2>2, <3>1, Zenon DEF Cancel
    <3>3. DOMAIN w = Parts /\ CallOK(w, Attempts(job, c))
      BY <1>2, <3>1, <3>2, CallStops
    <3> QED BY <3>2, <3>3, ZenonT(30)
  <2>3. CASE SeeCancel(c)
    <3>1. PICK w : w = [call[c] EXCEPT !.pc = "wait"]
      BY ZenonT(30)
    <3>2. call' = [call EXCEPT ![c] = w] /\ call[c].pc \in {"receive", "ticket"} /\ ~call[c].ctx
      BY <1>2, <2>3, <3>1, Zenon DEF SeeCancel
    <3>3. DOMAIN w = Parts /\ CallOK(w, Attempts(job, c))
      BY <1>2, <3>1, <3>2, CallMoves
    <3> QED BY <3>2, <3>3, ZenonT(30)
  <2> QED BY <2>1, <2>2, <2>3
<1>4. PICK w : call' = [call EXCEPT ![c] = w] /\ DOMAIN w = Parts /\ CallOK(w, Attempts(job, c))
  BY <1>3, ZenonT(30)
<1>5. Holds(call', job)
  BY <1>1, <1>4, OnlyCall, ZenonT(30)
<1> QED BY <1>1, <1>5, HoldsIs

LEMMA ConnectOneHolds ==
  ASSUME SetFacts, IsFiniteSet(PeerIds), ConnInv, NEW c \in Calls, ConnectOne(c)
  PROVE  ConnInv'
<1>1. Holds(call, job)
  BY HoldsIs
<1>2. /\ DOMAIN call[c] = Parts /\ CallOK(call[c], Attempts(job, c)) /\ call[c].pc = "dial"
      /\ DOMAIN call = Calls
  BY <1>1 DEF Holds, ConnectOne
<1>3. PICK w : w = [call[c] EXCEPT !.pc = "receive"]
  BY ZenonT(30)
<1>4. PICK p : p = call[c].info
  OBVIOUS
<1>5. DOMAIN w = Parts /\ CallOK(w, Attempts(job, c) \union {p}) /\ p \in PeerIds
  BY <1>2, <1>3, <1>4, AttemptStarts
<1>6. call' = [call EXCEPT ![c] = w]
  BY <1>2, <1>3, Zenon DEF ConnectOne
<1>7. PICK s \in {"check", "join"} : job' = [job EXCEPT ![c][p] = s]
  BY <1>4, Zenon DEF ConnectOne
<1>8. job \in [Calls -> [PeerIds -> JobStates]]
  BY <1>1 DEF Holds
<1>9. /\ job' \in [Calls -> [PeerIds -> JobStates]]
      /\ \A d \in Calls : d # c => job'[d] = job[d]
      /\ \A q \in PeerIds : job'[c][q] = IF q = p THEN s ELSE job[c][q]
  BY <1>5, <1>7, <1>8, Zenon DEF JobStates
<1>10. /\ Attempts(job', c) = Attempts(job, c) \union {p}
       /\ \A d \in Calls : d # c => Attempts(job', d) = Attempts(job, d)
  BY <1>5, <1>9 DEF Attempts
<1>11. DOMAIN call' = Calls /\ \A d \in Calls : call'[d] = IF d = c THEN w ELSE call[d]
  BY <1>2, <1>6
<1>12. ASSUME NEW d \in Calls PROVE DOMAIN call'[d] = Parts /\ CallOK(call'[d], Attempts(job', d))
  <2>1. CASE d = c
    BY <1>5, <1>10, <1>11, <2>1, ZenonT(40)
  <2>2. CASE d # c
    BY <1>1, <1>10, <1>11, <2>2, Zenon DEF Holds
  <2> QED BY <2>1, <2>2
<1>13. Holds(call', job')
  BY <1>9, <1>11, <1>12, Zenon DEF Holds
<1> QED BY <1>13, HoldsIs

\* An attempt ends for the call that made it and for every one that joined it.
LEMMA FinishHolds ==
  ASSUME SetFacts, IsFiniteSet(PeerIds), maxPeers \in Nat, ConnInv, NEW c \in Calls, NEW p \in PeerIds,
         NEW ok \in BOOLEAN, job[c][p] \in {"check", "dial"}, Finish(c, p, ok)
  PROVE  ConnInv'
<1>1. Holds(call, job)
  BY HoldsIs, Zenon
<1>2. PICK W : W = Waiting(c, p)
  BY Zenon
<1>3. \A d \in W : d \in Calls /\ p \in Attempts(job, d)
  BY <1>2 DEF Waiting, Attempts
<1>4. job \in [Calls -> [PeerIds -> JobStates]]
  BY <1>1 DEF Holds
<1>5. job' = [d \in Calls |-> [job[d] EXCEPT ![p] = IF d \in W THEN "idle" ELSE @]]
  BY <1>2, Zenon DEF Finish, Idle
<1>6. /\ job' \in [Calls -> [PeerIds -> JobStates]]
      /\ \A d \in Calls, q \in PeerIds : job'[d][q] = IF d \in W /\ q = p THEN "idle" ELSE job[d][q]
  BY <1>4, <1>5, Zenon DEF JobStates
<1>7. /\ \A d \in W : Attempts(job', d) = Attempts(job, d) \ {p}
      /\ \A d \in Calls \ W : Attempts(job', d) = Attempts(job, d)
  BY <1>3, <1>6 DEF Attempts
<1>8. call' = [d \in Calls |-> IF d \in W THEN Ended(call[d], p, ok) ELSE call[d]]
  BY <1>2, Zenon DEF Finish, Ended
<1>9. DOMAIN call' = Calls /\ \A d \in Calls : call'[d] = IF d \in W THEN Ended(call[d], p, ok) ELSE call[d]
  BY <1>8, Zenon
<1>10. ASSUME NEW d \in Calls PROVE DOMAIN call'[d] = Parts /\ CallOK(call'[d], Attempts(job', d))
  <2>0. DOMAIN call[d] = Parts /\ CallOK(call[d], Attempts(job, d))
    BY <1>1, Zenon DEF Holds
  <2>1. CASE d \in W
    <3>1. /\ DOMAIN Ended(call[d], p, ok) = Parts
          /\ CallOK(Ended(call[d], p, ok), Attempts(job, d) \ {p})
      BY <1>3, <2>0, <2>1, AttemptEnds, Zenon
    <3> QED BY <1>7, <1>9, <2>1, <3>1, Zenon
  <2>2. CASE d \notin W
    BY <1>7, <1>9, <2>0, <2>2, Zenon
  <2> QED BY <2>1, <2>2, Zenon
<1>11. Holds(call', job')
  BY <1>6, <1>9, <1>10, Zenon DEF Holds
<1> QED BY <1>11, HoldsIs, Zenon

LEMMA ConnectHolds ==
  ASSUME SetFacts, IsFiniteSet(PeerIds), maxPeers \in Nat, ConnInv, NEW c \in Calls, NEW p \in PeerIds,
         Connect(c, p) \/ Dialled(c, p)
  PROVE  ConnInv'
<1>1. CASE \E ok \in BOOLEAN : Finish(c, p, ok)
  BY <1>1, FinishHolds, ZenonT(30) DEF Connect, Dialled
<1>2. CASE job[c][p] = "check" /\ job' = [job EXCEPT ![c][p] = "dial"] /\ call' = call
  <2>1. Holds(call, job)
    BY HoldsIs
  <2>2. job \in [Calls -> [PeerIds -> JobStates]]
    BY <2>1 DEF Holds
  <2>3. /\ job' \in [Calls -> [PeerIds -> JobStates]]
        /\ \A d \in Calls, q \in PeerIds : job'[d][q] = IF d = c /\ q = p THEN "dial" ELSE job[d][q]
    BY <1>2, <2>2 DEF JobStates
  <2>4. \A d \in Calls : Attempts(job', d) = Attempts(job, d)
    BY <1>2, <2>3 DEF Attempts
  <2>5. Holds(call', job')
    BY <1>2, <2>1, <2>3, <2>4, ZenonT(30) DEF Holds
  <2> QED BY <2>5, HoldsIs
<1> QED BY <1>1, <1>2, ZenonT(30) DEF Connect, Dialled

LEMMA CallsStart ==
  ASSUME SetFacts, IsFiniteSet(PeerIds), maxPeers \in Nat, InitConnector
  PROVE  ConnInv
<1>1. job \in [Calls -> [PeerIds -> JobStates]] /\ \A c \in Calls : Attempts(job, c) = {}
  BY DEF InitConnector, Idle, JobStates, Attempts
<1>2. DOMAIN call = Calls
  BY DEF InitConnector
<1>3. ASSUME NEW c \in Calls PROVE DOMAIN call[c] = Parts /\ CallOK(call[c], {})
  <2>1. PICK ps \in SUBSET PeerIds : call[c] = NewCall(ps)
    BY DEF InitConnector
  <2>2. PICK k : k = NewCall(ps)
    BY Zenon
  <2>3. /\ DOMAIN k = Parts /\ k.pc = "receive" /\ k.peers = ps /\ k.left = maxPeers /\ k.won = {} /\ k.ctx = TRUE
        /\ k.tickets = [i \in 1..maxPeers |-> FALSE]
    BY <2>2 DEF NewCall, Parts
  <2>4. k.tickets \in Seq(BOOLEAN) /\ Len(k.tickets) = maxPeers
    BY <2>3
  <2>5. Good(k.tickets) = {}
    BY <2>3, Zenon DEF Good
  <2>6. DialDue(k) = 0 /\ Cardinality({}) = 0
    BY <2>3, EmptySetIsFinite, Zenon DEF DialDue
  <2>7. Len(k.tickets) + Cardinality({}) + DialDue(k) = k.left
    BY <2>3, <2>4, <2>6
  <2>8. Cardinality(k.won) = (maxPeers - k.left) + Cardinality(Good(k.tickets))
    <3>1. Cardinality(k.won) = 0 /\ Cardinality(Good(k.tickets)) = 0 /\ k.left = maxPeers
      BY <2>3, <2>5, <2>6, ZenonT(40)
    <3> QED BY <3>1
  <2>9. k.left \in 0..maxPeers
    BY <2>3
  <2>10. CallOK(k, {})
    BY <2>3, <2>4, <2>7, <2>8, <2>9, ZenonT(30) DEF CallOK
  <2> QED BY <2>1, <2>2, <2>3, <2>10
<1>4. Holds(call, job)
  BY <1>1, <1>2, <1>3, ZenonT(30) DEF Holds
<1> QED BY <1>4, HoldsIs

LEMMA EnoughConnections ==
  ASSUME SetFacts, IsFiniteSet(PeerIds), maxPeers \in Nat, ConnInv
  PROVE  ConnectsEnough
<1> SUFFICES ASSUME NEW c \in Calls
             PROVE  /\ Cardinality(call[c].won) + Cardinality(Busy(c)) <= maxPeers
                    /\ call[c].pc = "returned" /\ call[c].ctx /\ Cardinality(call[c].won) < maxPeers
                         => call[c].peers = {}
  BY Zenon DEF ConnectsEnough, Busy
<1>1. PICK k : k = call[c]
  OBVIOUS
<1>2. PICK J : J = Busy(c)
  OBVIOUS
<1>3. CallOK(k, J)
  BY <1>1, <1>2, Zenon DEF ConnInv
<1>4. /\ Cardinality(J) \in Nat /\ Cardinality(k.won) \in Nat /\ k.left \in Nat /\ Len(k.tickets) \in Nat
      /\ Cardinality(Good(k.tickets)) \in Nat /\ Cardinality(Good(k.tickets)) <= Len(k.tickets)
      /\ DialDue(k) \in Nat /\ Len(k.tickets) + Cardinality(J) + DialDue(k) = k.left
  BY <1>3, BusySets, Zenon
<1>5. Cardinality(k.won) = (maxPeers - k.left) + Cardinality(Good(k.tickets))
  BY <1>3, Zenon DEF CallOK
<1>6. Cardinality(k.won) + Cardinality(J) <= maxPeers
  BY <1>4, <1>5, SMTT(40)
<1>7. k.left = 0 => Cardinality(k.won) >= maxPeers
  BY <1>4, <1>5
<1>8. k.pc = "returned" /\ k.ctx /\ Cardinality(k.won) < maxPeers => k.peers = {}
  <2>1. k.pc = "returned" /\ k.ctx => k.peers = {} \/ k.left = 0
    BY <1>3, Zenon DEF CallOK
  <2>2. k.left = 0 => ~(Cardinality(k.won) < maxPeers)
    BY <1>4, <1>7
  <2> QED BY <2>1, <2>2, Zenon
<1> QED BY <1>1, <1>2, <1>6, <1>8, ZenonT(40)

LEMMA ConnectsJustEnoughIf ==
  ASSUME SetFacts, IsFiniteSet(PeerIds), maxPeers \in Nat
  PROVE  ConnectorSpec => []ConnectsEnough
<1>1. InitConnector => ConnInv
  BY CallsStart
<1>2. ConnInv /\ [NextConnector]_(cvars) => ConnInv'
  <2> SUFFICES ASSUME ConnInv, [NextConnector]_(cvars) PROVE ConnInv'
    OBVIOUS
  <2>1. ASSUME call' = call, job' = job PROVE ConnInv'
    BY <2>1, HoldsIs, Zenon
  <2>2. ASSUME NEW c \in Calls, Steps(c) \/ Cancel(c) PROVE ConnInv'
    BY <2>2, ReceiveHolds, TicketHolds, ConnectOneHolds, QuietHolds, ConnectHolds, Zenon DEF Steps
  <2>3. ASSUME NEW p \in PeerIds, Disconnect(p) \/ BackoffPasses(p) PROVE ConnInv'
    BY <2>1, <2>3 DEF Disconnect, BackoffPasses
  <2>4. CASE UNCHANGED cvars
    BY <2>1, <2>4 DEF cvars
  <2> QED BY <2>2, <2>3, <2>4 DEF NextConnector
<1>3. ConnInv => ConnectsEnough
  BY EnoughConnections
<1> QED BY <1>1, <1>2, <1>3, PTL DEF ConnectorSpec

-----------------------------------------------------------------------------
(* The facts hold, and with them the theorems of the parts above.               *)
INSTANCE FiniteSetTheorems

LEMMA SetFactsHold == SetFacts
<1>1. CardinalityFact
  BY FS_CardinalityType, ZenonT(40) DEF CardinalityFact
<1>2. EmptySetFact
  BY FS_EmptySet, ZenonT(40) DEF EmptySetFact
<1>3. IntervalFact
  BY FS_Interval, ZenonT(40) DEF IntervalFact
<1>4. SubsetFact
  BY FS_Subset, ZenonT(40) DEF SubsetFact
<1>5. AddFact
  BY FS_AddElement, ZenonT(40) DEF AddFact
<1>6. RemoveFact
  BY FS_RemoveElement, ZenonT(40) DEF RemoveFact
<1>7. BijectionFact
  <2>1. ASSUME NEW S, NEW T, NEW f, OneToOne(f, S, T) PROVE f \in Bijection(S, T)
    BY <2>1 DEF OneToOne, Onto, Bijection, Injection, IsInjective, Surjection
  <2> QED BY <2>1, FS_Bijection, ZenonT(40) DEF BijectionFact, ExistsBijection
<1> QED BY <1>1, <1>2, <1>3, <1>4, <1>5, <1>6, <1>7, Zenon DEF SetFacts

\* THEOREM.  Whatever the calls, the peers offered to them and the failures, a
\* connectMany call never holds and tries for more connections than it wants,
\* and returns with fewer only if it was cancelled or has tried every peer:
\* each connection still wanted is matched by one ticket, attempt or due dial.
THEOREM ConnectsJustEnough ==
  ASSUME IsFiniteSet(PeerIds), maxPeers \in Nat
  PROVE  ConnectorSpec => []ConnectsEnough
BY SetFactsHold, ConnectsJustEnoughIf
=============================================================================
