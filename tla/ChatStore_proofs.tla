-------------------------- MODULE ChatStore_proofs --------------------------
(* Theorems about ChatStore, for every set of chats and of handlers and every bound. *)
EXTENDS ChatStore, FiniteSetTheorems, TLAPS

-----------------------------------------------------------------------------
\* The members of a finite set of numbers in their order.

Before(I, i) == {j \in I : j < i}

LEMMA BeforeFinite ==
  ASSUME NEW I \in SUBSET Nat, IsFiniteSet(I), NEW i \in I
  PROVE  /\ IsFiniteSet(Before(I, i)) /\ Cardinality(Before(I, i)) \in Nat
         /\ Cardinality(Before(I, i)) < Cardinality(I)
<1>1. Before(I, i) \in SUBSET (I \ {i})
  BY DEF Before
<1>2. /\ IsFiniteSet(I \ {i}) /\ Cardinality(I \ {i}) = Cardinality(I) - 1
      /\ Cardinality(I) \in Nat
  BY FS_RemoveElement, FS_CardinalityType
<1>3. /\ IsFiniteSet(Before(I, i))
      /\ Cardinality(Before(I, i)) <= Cardinality(I \ {i})
  BY <1>1, <1>2, FS_Subset
<1>4. Cardinality(Before(I, i)) \in Nat
  BY <1>3, FS_CardinalityType
<1>. QED BY <1>2, <1>3, <1>4

LEMMA BeforeGrows ==
  ASSUME NEW I \in SUBSET Nat, IsFiniteSet(I), NEW i \in I, NEW j \in I, i < j
  PROVE  Cardinality(Before(I, i)) < Cardinality(Before(I, j))
<1>1. Before(I, i) \in SUBSET (Before(I, j) \ {i}) /\ i \in Before(I, j)
  <2>1. i \in Nat /\ j \in Nat
    OBVIOUS
  <2>2. ASSUME NEW m \in I, m < i PROVE m < j /\ m # i
    <3>1. m \in Nat
      OBVIOUS
    <3>. QED BY <2>1, <2>2, <3>1
  <2>. QED BY <2>2 DEF Before
<1>2. IsFiniteSet(Before(I, j)) /\ Cardinality(Before(I, j)) \in Nat
  BY BeforeFinite
<1>3. /\ IsFiniteSet(Before(I, j) \ {i})
      /\ Cardinality(Before(I, j) \ {i}) = Cardinality(Before(I, j)) - 1
  BY <1>1, <1>2, FS_RemoveElement
<1>4. Cardinality(Before(I, i)) <= Cardinality(Before(I, j) \ {i})
  BY <1>1, <1>3, FS_Subset
<1>5. Cardinality(Before(I, i)) \in Nat
  BY BeforeFinite
<1>. QED BY <1>2, <1>3, <1>4, <1>5

\* Each rank below the cardinality is some member's.
LEMMA RanksTaken ==
  ASSUME NEW I \in SUBSET Nat, IsFiniteSet(I), NEW k \in 1..Cardinality(I)
  PROVE  \E i \in I : Cardinality(Before(I, i)) = k - 1
<1>. DEFINE n == Cardinality(I)
            rank == [i \in I |-> Cardinality(Before(I, i))]
<1>1. n \in Nat
  BY FS_CardinalityType
<1>2. IsFiniteSet(0..(n - 1)) /\ Cardinality(0..(n - 1)) = n
  <2>1. 0 \in Int /\ n - 1 \in Int
    BY <1>1
  <2>2. /\ IsFiniteSet(0..(n - 1))
        /\ Cardinality(0..(n - 1)) = IF 0 > n - 1 THEN 0 ELSE (n - 1) - 0 + 1
    BY <2>1, FS_Interval
  <2>. QED BY <1>1, <2>2
<1>3. rank \in [I -> 0..(n - 1)]
  <2>1. ASSUME NEW i \in I PROVE Cardinality(Before(I, i)) \in 0..(n - 1)
    BY <1>1, BeforeFinite
  <2>. QED BY <2>1
<1>4. ASSUME NEW i \in I, NEW j \in I, rank[i] = rank[j] PROVE i = j
  <2>1. ~(i < j) /\ ~(j < i)
    <3>1. rank[i] \in Nat /\ rank[j] \in Nat
      BY BeforeFinite
    <3>2. (i < j => rank[i] < rank[j]) /\ (j < i => rank[j] < rank[i])
      BY BeforeGrows
    <3>. QED BY <1>4, <3>1, <3>2
  <2>. QED BY <2>1
<1>5. rank \in Injection(I, 0..(n - 1))
  BY <1>3, <1>4 DEF Injection, IsInjective
<1>6. rank \in Surjection(I, 0..(n - 1))
  BY <1>2, <1>5, FS_Injection
<1>7. k - 1 \in 0..(n - 1)
  BY <1>1
<1>. QED BY <1>6, <1>7 DEF Surjection

LEMMA NthRank ==
  ASSUME NEW I \in SUBSET Nat, IsFiniteSet(I), NEW k \in 1..Cardinality(I)
  PROVE  Nth(I, k) \in I /\ Cardinality(Before(I, Nth(I, k))) = k - 1
BY RanksTaken DEF Nth, Before

LEMMA NthAscends ==
  ASSUME NEW I \in SUBSET Nat, IsFiniteSet(I),
         NEW k \in 1..Cardinality(I), NEW l \in 1..Cardinality(I), k < l
  PROVE  Nth(I, k) < Nth(I, l)
<1>1. Cardinality(I) \in Nat
  BY FS_CardinalityType
<1>2. /\ Nth(I, k) \in I /\ Cardinality(Before(I, Nth(I, k))) = k - 1
      /\ Nth(I, l) \in I /\ Cardinality(Before(I, Nth(I, l))) = l - 1
  BY NthRank
<1>3. \A i, j \in I : i < j => Cardinality(Before(I, i)) < Cardinality(Before(I, j))
  BY BeforeGrows
<1>4. Nth(I, k) # Nth(I, l) /\ ~(Nth(I, l) < Nth(I, k))
  <2>1. ~(l - 1 < k - 1) /\ l - 1 # k - 1
    BY <1>1
  <2>. QED BY <1>2, <1>3, <2>1
<1>5. Nth(I, k) \in Nat /\ Nth(I, l) \in Nat
  BY <1>2
<1>. QED BY <1>4, <1>5

LEMMA NthReaches ==
  ASSUME NEW I \in SUBSET Nat, IsFiniteSet(I), NEW i \in I
  PROVE  \E k \in 1..Cardinality(I) : Nth(I, k) = i
<1>. DEFINE k == Cardinality(Before(I, i)) + 1
<1>1. k \in 1..Cardinality(I) /\ Cardinality(I) \in Nat
  BY BeforeFinite, FS_CardinalityType
<1>2. Nth(I, k) \in I /\ Cardinality(Before(I, Nth(I, k))) = k - 1
  BY <1>1, NthRank
<1>3. ~(i < Nth(I, k)) /\ ~(Nth(I, k) < i)
  <2>1. Cardinality(Before(I, i)) \in Nat
    BY BeforeFinite
  <2>2. \A l, m \in I : l < m => Cardinality(Before(I, l)) < Cardinality(Before(I, m))
    BY BeforeGrows
  <2>3. ~(Cardinality(Before(I, i)) < k - 1) /\ ~(k - 1 < Cardinality(Before(I, i)))
    BY <2>1
  <2>. QED BY <1>2, <2>2, <2>3
<1>4. Nth(I, k) \in Nat /\ i \in Nat
  BY <1>2
<1>. QED BY <1>1, <1>3, <1>4

\* A numbering that ascends through a set of numbers is Nth.
LEMMA NthUnique ==
  ASSUME NEW I \in SUBSET Nat, NEW n \in Nat, NEW f \in [1..n -> I],
         \A k, l \in 1..n : k < l => f[k] < f[l],
         \A i \in I : \E k \in 1..n : f[k] = i
  PROVE  IsFiniteSet(I) /\ Cardinality(I) = n /\ \A k \in 1..n : Nth(I, k) = f[k]
<1>1. \A k, l \in 1..n : f[k] = f[l] => k = l
  <2>1. \A k \in 1..n : f[k] \in Nat
    OBVIOUS
  <2>2. \A k, l \in 1..n : k # l => k < l \/ l < k
    OBVIOUS
  <2>. QED BY <2>1, <2>2
<1>2. f \in Injection(1..n, I) /\ f \in Surjection(1..n, I)
  BY <1>1 DEF Injection, IsInjective, Surjection
<1>3. IsFiniteSet(1..n) /\ Cardinality(1..n) = n
  BY FS_Interval
<1>4. IsFiniteSet(I) /\ Cardinality(I) = n
  BY <1>2, <1>3, FS_Surjection
<1>5. ASSUME NEW k \in 1..n PROVE Cardinality(Before(I, f[k])) = k - 1
  <2>. DEFINE g == [l \in 1..(k - 1) |-> f[l]]
  <2>1. g \in [1..(k - 1) -> Before(I, f[k])]
    BY DEF Before
  <2>2. \A j \in Before(I, f[k]) : \E l \in 1..(k - 1) : g[l] = j
    <3>1. TAKE j \in Before(I, f[k])
    <3>2. j \in I /\ j < f[k]
      BY DEF Before
    <3>3. PICK l \in 1..n : f[l] = j
      BY <3>2
    <3>4. l < k
      <4>1. f[l] \in Nat /\ f[k] \in Nat
        OBVIOUS
      <4>2. ~(l = k) /\ ~(k < l)
        BY <3>2, <3>3, <4>1
      <4>. QED BY <4>2
    <3>. QED BY <3>3, <3>4
  <2>3. g \in Injection(1..(k - 1), Before(I, f[k])) /\ g \in Surjection(1..(k - 1), Before(I, f[k]))
    <3>1. \A l, m \in 1..(k - 1) : g[l] = g[m] => l = m
      BY <1>1
    <3>. QED BY <2>1, <2>2, <3>1 DEF Injection, IsInjective, Surjection
  <2>4. IsFiniteSet(1..(k - 1)) /\ Cardinality(1..(k - 1)) = k - 1
    <3>1. 1 \in Int /\ k - 1 \in Int /\ k - 1 >= 0
      OBVIOUS
    <3>2. /\ IsFiniteSet(1..(k - 1))
          /\ Cardinality(1..(k - 1)) = IF 1 > k - 1 THEN 0 ELSE (k - 1) - 1 + 1
      BY <3>1, FS_Interval
    <3>. QED BY <3>1, <3>2
  <2>. QED BY <2>3, <2>4, FS_Surjection
<1>6. ASSUME NEW k \in 1..n PROVE Nth(I, k) = f[k]
  <2>1. Nth(I, k) \in I /\ Cardinality(Before(I, Nth(I, k))) = k - 1
    BY <1>4, NthRank
  <2>2. f[k] \in I /\ Cardinality(Before(I, f[k])) = k - 1
    BY <1>5
  <2>3. \A i, j \in I : i < j => Cardinality(Before(I, i)) < Cardinality(Before(I, j))
    BY <1>4, BeforeGrows
  <2>4. ~(f[k] < Nth(I, k)) /\ ~(Nth(I, k) < f[k])
    <3>1. ~(k - 1 < k - 1)
      OBVIOUS
    <3>. QED BY <2>1, <2>2, <2>3, <3>1
  <2>5. f[k] \in Nat /\ Nth(I, k) \in Nat
    BY <2>1, <2>2
  <2>. QED BY <2>4, <2>5
<1>. QED BY <1>4, <1>6

\* The elements that Picked takes, in their order.
LEMMA PickedFrom ==
  ASSUME NEW S, NEW s \in Seq(S), NEW I \in SUBSET DOMAIN s
  PROVE  /\ Picked(s, I) \in Seq(S)
         /\ \E from \in [DOMAIN Picked(s, I) -> I] :
              /\ \A k \in DOMAIN Picked(s, I) : Picked(s, I)[k] = s[from[k]]
              /\ \A k, l \in DOMAIN Picked(s, I) : k < l => from[k] < from[l]
              /\ \A i \in I : \E k \in DOMAIN Picked(s, I) : from[k] = i
<1>1. IsFiniteSet(I) /\ I \in SUBSET Nat
  <2>1. DOMAIN s = 1..Len(s) /\ Len(s) \in Nat
    OBVIOUS
  <2>2. IsFiniteSet(1..Len(s))
    BY <2>1, FS_Interval
  <2>3. I \in SUBSET (1..Len(s)) /\ I \in SUBSET Nat
    BY <2>1
  <2>. QED BY <2>2, <2>3, FS_Subset
<1>2. Cardinality(I) \in Nat
  BY <1>1, FS_CardinalityType
<1>3. \A k \in 1..Cardinality(I) : Nth(I, k) \in I
  BY <1>1, NthRank
<1>4. DOMAIN Picked(s, I) = 1..Cardinality(I)
  BY DEF Picked
<1>5. \A k \in 1..Cardinality(I) : Picked(s, I)[k] = s[Nth(I, k)]
  BY DEF Picked
<1>6. Picked(s, I) \in Seq(S)
  <2>1. \A k \in 1..Cardinality(I) : s[Nth(I, k)] \in S
    <3>1. \A j \in DOMAIN s : s[j] \in S
      OBVIOUS
    <3>. QED BY <1>3, <3>1
  <2>2. Picked(s, I) \in [1..Cardinality(I) -> S]
    BY <2>1 DEF Picked
  <2>. QED BY <1>2, <2>2
<1>. DEFINE from == [k \in DOMAIN Picked(s, I) |-> Nth(I, k)]
<1>7. from \in [DOMAIN Picked(s, I) -> I]
  BY <1>3, <1>4
<1>8. \A k \in DOMAIN Picked(s, I) : Picked(s, I)[k] = s[from[k]]
  BY <1>4, <1>5
<1>9. \A k, l \in DOMAIN Picked(s, I) : k < l => from[k] < from[l]
  BY <1>1, <1>4, NthAscends
<1>10. \A i \in I : \E k \in DOMAIN Picked(s, I) : from[k] = i
  BY <1>1, <1>4, NthReaches
<1>. QED BY <1>6, <1>7, <1>8, <1>9, <1>10

\* The same, element by element.
LEMMA PickedHas ==
  ASSUME NEW S, NEW s \in Seq(S), NEW I \in SUBSET DOMAIN s
  PROVE  /\ \A k \in DOMAIN Picked(s, I) : \E i \in I : Picked(s, I)[k] = s[i]
         /\ \A i \in I : \E k \in DOMAIN Picked(s, I) : Picked(s, I)[k] = s[i]
         /\ \A k, l \in DOMAIN Picked(s, I) :
              k < l => \E i, j \in I : i < j /\ Picked(s, I)[k] = s[i] /\ Picked(s, I)[l] = s[j]
<1>1. PICK from \in [DOMAIN Picked(s, I) -> I] :
        /\ \A k \in DOMAIN Picked(s, I) : Picked(s, I)[k] = s[from[k]]
        /\ \A k, l \in DOMAIN Picked(s, I) : k < l => from[k] < from[l]
        /\ \A i \in I : \E k \in DOMAIN Picked(s, I) : from[k] = i
  BY PickedFrom
<1>2. \A k \in DOMAIN Picked(s, I) : from[k] \in I
  BY <1>1
<1>. QED BY <1>1, <1>2

-----------------------------------------------------------------------------
\* Type correctness, with what it rests on: a chat that is written to has a
\* row, and a request that goes on has something left to do.

RowsOK ==
  /\ chats \in [Chats -> {"none", "live", "removed"}]
  /\ rows \in [Ids -> RowOf \cup {Absent}]
  /\ \A i, j \in Ids : (rows[i] # Absent /\ rows[j] # Absent /\ i # j)
       => <<rows[i].chat, rows[i].seq>> # <<rows[j].chat, rows[j].seq>>
  /\ \A i \in Ids : rows[i] # Absent => chats[rows[i].chat] # "none"

CacheOK == cache \in [Chats -> Seq(Prompt) \cup {Absent}]

TurnOK ==
  /\ turn \in [Chats -> Turn \cup {Absent}]
  /\ \A c \in Chats : turn[c] # Absent =>
       IF turn[c].at = "insert" THEN chats[c] # "none" ELSE turn[c].id \in Ids

ReqOK ==
  /\ req \in [Handlers -> Request \cup {Absent}]
  /\ \A h \in Handlers : req[h] # Absent =>
       /\ req[h].op \in {"fork", "truncate"} => req[h].todo # <<>>
       /\ req[h].op = "fork" /\ req[h].at # "create" => chats[req[h].chat] # "none"
       /\ req[h].op = "fork" /\ req[h].at = "events" =>
            req[h].id \in Ids /\ rows[req[h].id] # Absent /\ rows[req[h].id].chat = req[h].chat

CountOK == issued \in 0..MaxPrompts /\ spent \in 0..MaxSpent

GhostOK == odd \subseteq Chats /\ clash \subseteq Chats

TypeInv == RowsOK /\ CacheOK /\ TurnOK /\ ReqOK /\ CountOK /\ GhostOK

LEMMA TypeInvType == TypeInv => TypeOK
BY DEF TypeInv, TypeOK, RowsOK, CacheOK, TurnOK, ReqOK, CountOK, GhostOK

\* No chat's row vanishes, and no row of a prompt.
ChatsKept == \A c \in Chats : chats[c] # "none" => chats'[c] # "none"
RowsKept  == \A i \in Ids : rows[i] # Absent => rows'[i] # Absent /\ rows'[i].chat = rows[i].chat

LEMMA InitType == ParametersOK /\ Init => TypeInv
BY DEF ParametersOK, Init, TypeInv, RowsOK, CacheOK, TurnOK, ReqOK, CountOK, GhostOK

LEMMA ReqSame ==
  ASSUME ReqOK, ChatsKept, RowsKept, req' = req PROVE ReqOK'
<1>1. \A h \in Handlers : req[h] # Absent => req[h].chat \in Chats
  BY DEF ReqOK, Request
<1>. QED BY <1>1 DEF ReqOK, ChatsKept, RowsKept

\* What handler h now serves fits.
LEMMA ReqSet ==
  ASSUME ReqOK, ChatsKept, RowsKept, NEW h \in Handlers, NEW r \in Request,
         req' = [req EXCEPT ![h] = r],
         r.op \in {"fork", "truncate"} => r.todo # <<>>,
         r.op = "fork" /\ r.at # "create" => chats'[r.chat] # "none",
         r.op = "fork" /\ r.at = "events" =>
           r.id \in Ids /\ rows'[r.id] # Absent /\ rows'[r.id].chat = r.chat
  PROVE  ReqOK'
<1>1. \A g \in Handlers : req[g] # Absent => req[g].chat \in Chats
  BY DEF ReqOK, Request
<1>2. \A g \in Handlers : req'[g] = IF g = h THEN r ELSE req[g]
  BY DEF ReqOK
<1>3. req' \in [Handlers -> Request \cup {Absent}]
  BY DEF ReqOK
<1>. QED BY <1>1, <1>2, <1>3 DEF ReqOK, ChatsKept, RowsKept

LEMMA ReqEnds ==
  ASSUME ReqOK, ChatsKept, RowsKept, NEW h \in Handlers, req' = [req EXCEPT ![h] = Absent]
  PROVE  ReqOK'
<1>1. \A g \in Handlers : req[g] # Absent => req[g].chat \in Chats
  BY DEF ReqOK, Request
<1>2. \A g \in Handlers : req'[g] = IF g = h THEN Absent ELSE req[g]
  BY DEF ReqOK
<1>3. req' \in [Handlers -> Request \cup {Absent}]
  BY DEF ReqOK
<1>. QED BY <1>1, <1>2, <1>3 DEF ReqOK, ChatsKept, RowsKept

LEMMA TurnSame == ASSUME TurnOK, ChatsKept, turn' = turn PROVE TurnOK'
BY DEF TurnOK, ChatsKept

LEMMA TurnSet ==
  ASSUME TurnOK, ChatsKept, NEW c \in Chats, NEW t \in Turn \cup {Absent},
         turn' = [turn EXCEPT ![c] = t],
         t # Absent => IF t.at = "insert" THEN chats'[c] # "none" ELSE t.id \in Ids
  PROVE  TurnOK'
BY DEF TurnOK, ChatsKept

LEMMA SameTables == ASSUME RowsOK, UNCHANGED tables PROVE RowsOK' /\ ChatsKept /\ RowsKept
BY DEF RowsOK, tables, ChatsKept, RowsKept

\* A prompt that is entered under a number that is free.
LEMMA RowsInsert ==
  ASSUME RowsOK, NEW i \in Ids, rows[i] = Absent, NEW c \in Chats, chats[c] # "none",
         NEW r \in RowOf, r.chat = c, ~Taken(c, r.seq),
         chats' = chats, rows' = [rows EXCEPT ![i] = r]
  PROVE  RowsOK' /\ ChatsKept /\ RowsKept
<1>1. \A j \in Ids : rows'[j] = IF j = i THEN r ELSE rows[j]
  BY DEF RowsOK
<1>2. rows' \in [Ids -> RowOf \cup {Absent}]
  BY DEF RowsOK
<1>3. \A j \in Ids : rows[j] # Absent /\ rows[j].chat = c => rows[j].seq # r.seq
  BY DEF Taken, RowsOf
<1>4. \A j, k \in Ids : (rows'[j] # Absent /\ rows'[k] # Absent /\ j # k)
        => <<rows'[j].chat, rows'[j].seq>> # <<rows'[k].chat, rows'[k].seq>>
  BY <1>1, <1>3 DEF RowsOK
<1>5. \A j \in Ids : rows'[j] # Absent => chats'[rows'[j].chat] # "none"
  BY <1>1 DEF RowsOK
<1>6. RowsOK'
  BY <1>2, <1>4, <1>5 DEF RowsOK
<1>. QED BY <1>1, <1>6 DEF ChatsKept, RowsKept

LEMMA RowsEvents ==
  ASSUME RowsOK, NEW i \in Ids, rows[i] # Absent, NEW e \in 0..MaxEvents,
         chats' = chats, rows' = [rows EXCEPT ![i].ev = e]
  PROVE  RowsOK' /\ ChatsKept /\ RowsKept
<1>. DEFINE r == [rows[i] EXCEPT !.ev = e]
<1>1. rows[i] \in RowOf
  BY DEF RowsOK
<1>2. r \in RowOf /\ r.chat = rows[i].chat /\ r.seq = rows[i].seq
  BY <1>1 DEF RowOf
<1>3. r # Absent
  BY <1>2, AbsentIsNothing
<1>4. rows' = [rows EXCEPT ![i] = r]
  OBVIOUS
<1>. HIDE DEF r
<1>5. \A j \in Ids : rows'[j] = IF j = i THEN r ELSE rows[j]
  BY <1>4 DEF RowsOK
<1>6. rows' \in [Ids -> RowOf \cup {Absent}]
  BY <1>2, <1>4 DEF RowsOK
<1>7. \A j \in Ids : /\ rows'[j] # Absent <=> rows[j] # Absent
                     /\ rows'[j] # Absent => rows'[j].chat = rows[j].chat /\ rows'[j].seq = rows[j].seq
  BY <1>2, <1>3, <1>5
<1>8. RowsOK'
  BY <1>6, <1>7 DEF RowsOK
<1>. QED BY <1>7, <1>8 DEF ChatsKept, RowsKept

LEMMA SeqsOK ==
  ASSUME RowsOK, NEW c \in Chats
  PROVE  IsFiniteSet(Seqs(c)) /\ Seqs(c) \in SUBSET Nat
<1>1. RowsOf(c) \in SUBSET Ids /\ \A i \in RowsOf(c) : rows[i] \in RowOf
  BY DEF RowsOf, RowsOK
<1>2. IsFiniteSet(Ids)
  <2>1. 1 \in Int /\ MaxPrompts \in Int
    BY ParametersOK
  <2>. QED BY <2>1, FS_Interval DEF Ids
<1>3. IsFiniteSet(RowsOf(c))
  BY <1>1, <1>2, FS_Subset
<1>. DEFINE number == [i \in RowsOf(c) |-> rows[i].seq]
<1>4. number \in Surjection(RowsOf(c), Seqs(c))
  <2>1. number \in [RowsOf(c) -> Seqs(c)] /\ \A n \in Seqs(c) : \E i \in RowsOf(c) : number[i] = n
    BY DEF Seqs
  <2>. QED BY <2>1 DEF Surjection
<1>5. IsFiniteSet(Seqs(c))
  BY <1>3, <1>4, FS_Surjection
<1>6. Seqs(c) \in SUBSET Nat
  BY <1>1 DEF Seqs, RowOf
<1>. QED BY <1>5, <1>6

\* The next number is beyond those of the rows.
LEMMA NextSeqBeyond ==
  ASSUME RowsOK, NEW c \in Chats
  PROVE  NextSeq(c) \in Nat /\ \A i \in RowsOf(c) : rows[i].seq < NextSeq(c)
<1>1. IsFiniteSet(Seqs(c)) /\ Seqs(c) \in SUBSET Nat
  BY SeqsOK
<1>2. CASE Seqs(c) = {}
  BY <1>2 DEF NextSeq, Seqs
<1>3. CASE Seqs(c) # {}
  <2>1. Cardinality(Seqs(c)) \in Nat /\ Cardinality(Seqs(c)) # 0
    BY <1>1, <1>3, FS_CardinalityType, FS_EmptySet
  <2>. DEFINE n == Cardinality(Seqs(c))
              top == Nth(Seqs(c), n)
  <2>2. top \in Seqs(c)
    BY <1>1, <2>1, NthRank
  <2>3. ASSUME NEW m \in Seqs(c) PROVE m <= top
    <3>1. PICK k \in 1..n : Nth(Seqs(c), k) = m
      BY <1>1, NthReaches
    <3>2. k = n \/ k < n
      BY <2>1
    <3>3. k < n => m < top
      BY <1>1, <2>1, <3>1, NthAscends
    <3>4. m \in Nat /\ top \in Nat
      BY <1>1, <2>2
    <3>. QED BY <3>1, <3>2, <3>3, <3>4
  <2>. HIDE DEF top
  <2>. DEFINE high == CHOOSE m \in Seqs(c) : \A l \in Seqs(c) : l <= m
  <2>4. high \in Seqs(c) /\ \A l \in Seqs(c) : l <= high
    BY <2>2, <2>3
  <2>5. NextSeq(c) = 1 + high
    BY <1>3 DEF NextSeq
  <2>. HIDE DEF high
  <2>6. \A i \in RowsOf(c) : rows[i].seq \in Seqs(c)
    BY DEF Seqs
  <2>7. high \in Nat /\ \A l \in Seqs(c) : l \in Nat
    BY <1>1, <2>4
  <2>8. ASSUME NEW i \in RowsOf(c) PROVE rows[i].seq < NextSeq(c)
    <3>1. rows[i].seq \in Nat /\ rows[i].seq <= high
      BY <2>4, <2>6, <2>7
    <3>. QED BY <2>5, <2>7, <3>1
  <2>. QED BY <2>5, <2>7, <2>8
<1>. QED BY <1>2, <1>3

\* list_prompts reads back each row of the chat, in the order of their numbers.
LEMMA HydratedRows ==
  ASSUME RowsOK, NEW c \in Chats
  PROVE  /\ Hydrated(c) \in Seq(Prompt)
         /\ \A k \in DOMAIN Hydrated(c) : \E i \in RowsOf(c) : Hydrated(c)[k] = ReadBack(i)
         /\ \A i \in RowsOf(c) : \E k \in DOMAIN Hydrated(c) : Hydrated(c)[k] = ReadBack(i)
         /\ \A k, l \in DOMAIN Hydrated(c) : k < l => Hydrated(c)[k].seq < Hydrated(c)[l].seq
<1>. DEFINE n == Cardinality(Seqs(c))
            at == [k \in 1..n |-> RowAt(c, Nth(Seqs(c), k))]
<1>1. IsFiniteSet(Seqs(c)) /\ Seqs(c) \in SUBSET Nat /\ n \in Nat
  BY SeqsOK, FS_CardinalityType
<1>2. ASSUME NEW m \in Seqs(c) PROVE RowAt(c, m) \in RowsOf(c) /\ rows[RowAt(c, m)].seq = m
  BY DEF RowAt, Seqs
<1>3. ASSUME NEW k \in 1..n PROVE at[k] \in RowsOf(c) /\ rows[at[k]].seq = Nth(Seqs(c), k)
  <2>1. Nth(Seqs(c), k) \in Seqs(c)
    BY <1>1, NthRank
  <2>. QED BY <1>2, <2>1
<1>4. Hydrated(c) = [k \in 1..n |-> ReadBack(at[k])]
  BY DEF Hydrated
<1>. HIDE DEF at
<1>5. \A i \in RowsOf(c) : ReadBack(i) \in Prompt /\ ReadBack(i).seq = rows[i].seq
  BY DEF RowsOf, RowsOK, ReadBack, Prompt, RowOf
<1>6. DOMAIN Hydrated(c) = 1..n /\ \A k \in 1..n : Hydrated(c)[k] = ReadBack(at[k])
  BY <1>4
<1>7. Hydrated(c) \in Seq(Prompt)
  <2>1. Hydrated(c) \in [1..n -> Prompt]
    BY <1>3, <1>4, <1>5
  <2>. QED BY <1>1, <2>1
<1>8. ASSUME NEW i \in RowsOf(c) PROVE \E k \in 1..n : at[k] = i
  <2>1. rows[i].seq \in Seqs(c)
    BY DEF Seqs
  <2>2. PICK k \in 1..n : Nth(Seqs(c), k) = rows[i].seq
    BY <1>1, <2>1, NthReaches
  <2>3. at[k] = i
    BY <1>3, <2>2 DEF RowsOf, RowsOK
  <2>. QED BY <2>3
<1>9. ASSUME NEW k \in 1..n, NEW l \in 1..n, k < l
      PROVE  Hydrated(c)[k].seq < Hydrated(c)[l].seq
  <2>1. Nth(Seqs(c), k) < Nth(Seqs(c), l)
    BY <1>1, <1>9, NthAscends
  <2>. QED BY <1>3, <1>5, <1>6, <2>1
<1>. QED BY <1>3, <1>6, <1>7, <1>8, <1>9

\* The ids that somebody has: an entry of a cached chat, a turn that works on
\* it, a truncation that is to delete it.
Turning(i) == \E c \in Chats : turn[c] # Absent /\ turn[c].at \notin {"insert", "ingest"} /\ turn[c].id = i
Cutting(h) == req[h] # Absent /\ req[h].op = "truncate"
Copying(h) == req[h] # Absent /\ req[h].op = "fork"
Cut(i)     == \E h \in Handlers : Cutting(h) /\ \E k \in DOMAIN req[h].todo : req[h].todo[k] = i
Known(i)   == Holders(i) # {} \/ Turning(i) \/ Cut(i)

IssuedOK == \A i \in Ids : Known(i) \/ rows[i] # Absent => i <= issued

\* Whoever has a prompt has it as its row says; no chat has it twice.
EntriesOK ==
  \A c \in Cached :
    /\ \A k \in DOMAIN cache[c] : rows[cache[c][k].id] # Absent =>
         /\ rows[cache[c][k].id].seq = cache[c][k].seq
         /\ rows[cache[c][k].id].text = cache[c][k].text
    /\ \A k, l \in DOMAIN cache[c] : cache[c][k].id = cache[c][l].id => k = l

\* Nobody has the row that a turn or a fork just inserted.
IngestOK ==
  \A c \in Chats : At(c, "ingest") =>
    /\ rows[turn[c].id] = [chat |-> c, text |-> turn[c].id, seq |-> turn[c].seq, ev |-> 0]
    /\ ~Known(turn[c].id)

EventsOK ==
  \A h \in Handlers : Copying(h) /\ req[h].at = "events" =>
    ~Known(req[h].id) /\ \A c \in Chats : At(c, "ingest") => turn[c].id # req[h].id

IdsInv == IssuedOK /\ EntriesOK /\ IngestOK /\ EventsOK

-----------------------------------------------------------------------------

LEMMA CacheSet ==
  ASSUME CacheOK, NEW c \in Chats, NEW s \in Seq(Prompt) \cup {Absent},
         cache' = [cache EXCEPT ![c] = s]
  PROVE  CacheOK'
BY DEF CacheOK

LEMMA AppendedType ==
  ASSUME CacheOK, NEW c \in Chats, NEW i \in Ids, cache' = Appended(c, i)
  PROVE  CacheOK'
<1>1. CASE cache[c] = Absent
  BY <1>1 DEF Appended, CacheOK
<1>2. CASE cache[c] # Absent
  <2>. DEFINE s == cache[c]
              t == [k \in DOMAIN s |-> IF s[k].id = i THEN WithEvent(s[k]) ELSE s[k]]
  <2>1. s \in Seq(Prompt)
    BY <1>2 DEF CacheOK
  <2>2. cache' = [cache EXCEPT ![c] = t]
    BY <1>2 DEF Appended
  <2>3. \A k \in DOMAIN s : t[k] \in Prompt
    <3>1. TAKE k \in DOMAIN s
    <3>2. s[k] \in Prompt
      BY <2>1
    <3>. QED BY <3>2, ParametersOK DEF Prompt, WithEvent
  <2>4. DOMAIN s = 1..Len(s) /\ Len(s) \in Nat
    BY <2>1
  <2>5. t \in [1..Len(s) -> Prompt]
    BY <2>3, <2>4
  <2>6. t \in Seq(Prompt)
    BY <2>4, <2>5
  <2>. HIDE DEF t
  <2>. QED BY <2>2, <2>6, CacheSet
<1>. QED BY <1>1, <1>2

LEMMA ResetType ==
  ASSUME CacheOK, NEW c \in Chats, cache[c] \notin {Absent, <<>>}, cache' = LastReset(c)
  PROVE  CacheOK' /\ Last(cache[c]) \in Prompt /\ Len(cache[c]) \in DOMAIN cache[c]
<1>. DEFINE s == cache[c]
            t == [s EXCEPT ![Len(s)].ev = 0]
<1>1. s \in Seq(Prompt) /\ s # <<>>
  BY DEF CacheOK
<1>2. Len(s) \in DOMAIN s /\ s[Len(s)] \in Prompt
  BY <1>1
<1>3. [s[Len(s)] EXCEPT !.ev = 0] \in Prompt
  BY <1>2, ParametersOK DEF Prompt
<1>4. t \in Seq(Prompt)
  BY <1>1, <1>2, <1>3
<1>5. cache' = [cache EXCEPT ![c] = t]
  BY DEF LastReset
<1>6. Last(s) \in Prompt
  BY <1>2 DEF Last
<1>. HIDE DEF t
<1>. QED BY <1>2, <1>4, <1>5, <1>6, CacheSet

LEMMA FlushType ==
  ASSUME NEW i \in Ids, NEW then \in {"stream", "rerun", "reset", "end"}
  PROVE  Flush(i, then) \in Turn /\ Flush(i, then).id = i /\ Flush(i, then).at = "read"
BY ParametersOK DEF Flush, Turn

\* A turn that has its prompt goes on, or ends.
LEMMA GoesType ==
  ASSUME TurnOK, ChatsKept, NEW c \in Chats, turn[c] # Absent, turn[c].at # "insert",
         NEW at \in {"stream", "rerun", "read", "write", "reset"}, Goes(c, at)
  PROVE  TurnOK' /\ req' = req /\ issued' = issued
<1>. DEFINE t == [turn[c] EXCEPT !.at = at]
<1>1. turn[c] \in Turn /\ turn[c].id \in Ids
  BY DEF TurnOK
<1>2. t \in Turn /\ t.at # "insert" /\ t.id \in Ids
  BY <1>1 DEF Turn
<1>3. turn' = [turn EXCEPT ![c] = t] /\ req' = req /\ issued' = issued
  BY DEF Goes, Turns
<1>. HIDE DEF t
<1>. QED BY <1>2, <1>3, TurnSet

LEMMA EndsType ==
  ASSUME TurnOK, ChatsKept, NEW c \in Chats, Ends(c)
  PROVE  TurnOK' /\ req' = req /\ issued' = issued
BY TurnSet DEF Ends, Turns

LEMMA AfterType ==
  ASSUME TurnOK, ChatsKept, NEW c \in Chats, turn[c] # Absent, turn[c].at # "insert", After(c)
  PROVE  TurnOK' /\ req' = req /\ issued' = issued
<1>1. turn[c] \in Turn
  BY DEF TurnOK
<1>2. CASE Ends(c)
  BY <1>2, EndsType
<1>3. CASE turn[c].next # "end" /\ Goes(c, turn[c].next)
  <2>1. turn[c].next \in {"stream", "rerun", "reset"}
    BY <1>1, <1>3 DEF Turn
  <2>. QED BY <1>3, <2>1, GoesType
<1>. QED BY <1>2, <1>3 DEF After

LEMMA SpendType == ASSUME CountOK, Spend, issued' = issued PROVE CountOK'
BY ParametersOK DEF CountOK, Spend

LEMMA IssueType == ASSUME CountOK, issued < MaxPrompts, issued' = issued + 1
                   PROVE issued' \in Ids /\ issued' \in 0..MaxPrompts
BY ParametersOK DEF CountOK, Ids

LEMMA FreshId == ASSUME IdsInv, CountOK, issued < MaxPrompts
                 PROVE  /\ issued + 1 \in Ids /\ rows[issued + 1] = Absent /\ ~Known(issued + 1)
                        /\ \A i \in Ids : Known(i) \/ rows[i] # Absent => i # issued + 1
<1>1. issued + 1 \in Ids /\ ~(issued + 1 <= issued)
  BY ParametersOK DEF CountOK, Ids
<1>. QED BY <1>1 DEF IdsInv, IssuedOK

LEMMA CreateType == ASSUME TypeInv, NEW c \in Chats, Create(c) PROVE TypeInv'
<1>1. /\ chats' = [chats EXCEPT ![c] = "live"] /\ chats[c] = "none"
      /\ UNCHANGED <<rows, turn, req, issued>>
  BY DEF Create, Unused
<1>2. RowsOK' /\ ChatsKept /\ RowsKept
  BY <1>1 DEF TypeInv, RowsOK, ChatsKept, RowsKept, RowOf
<1>3. CacheOK'
  <2>1. <<>> \in Seq(Prompt)
    OBVIOUS
  <2>2. cache' = cache \/ cache' = [cache EXCEPT ![c] = <<>>]
    BY DEF Create
  <2>. QED BY <2>1, <2>2, CacheSet DEF TypeInv, CacheOK
<1>4. TurnOK' /\ ReqOK'
  BY <1>1, <1>2, TurnSame, ReqSame DEF TypeInv
<1>5. CountOK' /\ GhostOK'
  BY <1>1, SpendType DEF Create, TypeInv, CountOK, GhostOK, Fault
<1>. QED BY <1>2, <1>3, <1>4, <1>5 DEF TypeInv

LEMMA SendType == ASSUME TypeInv, NEW c \in Chats, Send(c) PROVE TypeInv'
<1>. DEFINE t == [at |-> "insert", id |-> 0, seq |-> NextSeq(c), ev |-> 0, next |-> "end"]
<1>1. NextSeq(c) \in Nat
  BY NextSeqBeyond DEF TypeInv
<1>2. t \in Turn /\ t.at = "insert"
  BY <1>1, ParametersOK DEF Turn
<1>3. /\ turn' = [turn EXCEPT ![c] = t] /\ chats[c] # "none"
      /\ UNCHANGED <<tables, req, issued, cache, spent, clash>>
  BY DEF Send, Turns
<1>. HIDE DEF t
<1>4. RowsOK' /\ ChatsKept /\ RowsKept
  BY <1>3, SameTables DEF TypeInv
<1>5. TurnOK' /\ ReqOK'
  BY <1>2, <1>3, <1>4, TurnSet, ReqSame DEF TypeInv, ChatsKept
<1>6. CacheOK' /\ CountOK' /\ GhostOK'
  BY <1>3 DEF Send, Touch, TypeInv, CacheOK, CountOK, GhostOK
<1>. QED BY <1>4, <1>5, <1>6 DEF TypeInv

LEMMA InsertType == ASSUME TypeInv, IdsInv, NEW c \in Chats, Insert(c) PROVE TypeInv'
<1>1. turn[c] \in Turn /\ turn[c].at = "insert" /\ turn[c] # Absent /\ chats[c] # "none"
  BY DEF Insert, At, TypeInv, TurnOK
<1>2. CASE /\ ~Taken(c, turn[c].seq) /\ issued < MaxPrompts
           /\ issued' = issued + 1
           /\ rows' = [rows EXCEPT ![issued'] =
                         [chat |-> c, text |-> issued', seq |-> turn[c].seq, ev |-> 0]]
           /\ turn' = [turn EXCEPT ![c].at = "ingest", ![c].id = issued']
           /\ UNCHANGED <<req, spent>>
  <2>. DEFINE r == [chat |-> c, text |-> issued', seq |-> turn[c].seq, ev |-> 0]
              t == [turn[c] EXCEPT !.at = "ingest", !.id = issued']
  <2>1. issued' \in Ids /\ issued' \in 0..MaxPrompts /\ rows[issued'] = Absent
    BY <1>2, IssueType, FreshId DEF TypeInv
  <2>2. r \in RowOf /\ r.chat = c /\ r.seq = turn[c].seq
    BY <1>1, <2>1, ParametersOK DEF RowOf, Turn
  <2>3. t \in Turn /\ t.at = "ingest" /\ t.id = issued'
    BY <1>1, <2>1 DEF Turn
  <2>4. rows' = [rows EXCEPT ![issued'] = r] /\ turn' = [turn EXCEPT ![c] = t] /\ chats' = chats
    BY <1>2 DEF Insert
  <2>. HIDE DEF r, t
  <2>5. RowsOK' /\ ChatsKept /\ RowsKept
    BY <1>1, <1>2, <2>1, <2>2, <2>4, RowsInsert DEF TypeInv
  <2>6. TurnOK' /\ ReqOK'
    <3>1. TurnOK'
      BY <2>1, <2>3, <2>4, <2>5, TurnSet DEF TypeInv
    <3>. QED BY <1>2, <2>5, <3>1, ReqSame DEF TypeInv
  <2>7. CacheOK' /\ CountOK' /\ GhostOK'
    <3>1. UNCHANGED <<cache, odd, clash>>
      BY DEF Insert
    <3>. QED BY <1>2, <2>1, <3>1 DEF TypeInv, CacheOK, CountOK, GhostOK
  <2>. QED BY <2>5, <2>6, <2>7 DEF TypeInv
<1>3. CASE /\ IF Taken(c, turn[c].seq) THEN UNCHANGED spent ELSE Fault
           /\ Ends(c) /\ UNCHANGED rows
  <2>1. RowsOK' /\ ChatsKept /\ RowsKept
    BY <1>3, SameTables DEF Insert, TypeInv, tables
  <2>2. TurnOK' /\ ReqOK' /\ issued' = issued
    BY <1>3, <2>1, EndsType, ReqSame DEF TypeInv
  <2>3. CacheOK' /\ GhostOK'
    BY DEF Insert, TypeInv, CacheOK, GhostOK
  <2>4. CountOK'
    BY <1>3, <2>2, SpendType DEF TypeInv, Fault, CountOK
  <2>. QED BY <2>1, <2>2, <2>3, <2>4 DEF TypeInv
<1>. QED BY <1>2, <1>3 DEF Insert

LEMMA IngestType == ASSUME TypeInv, NEW c \in Chats, Ingest(c) PROVE TypeInv'
<1>1. turn[c] \in Turn /\ turn[c].at = "ingest" /\ turn[c] # Absent /\ turn[c].id \in Ids
  BY DEF Ingest, At, TypeInv, TurnOK
<1>2. RowsOK' /\ ChatsKept /\ RowsKept
  BY SameTables DEF Ingest, TypeInv
<1>3. CASE Ends(c) /\ UNCHANGED cache
  <2>1. TurnOK' /\ ReqOK' /\ issued' = issued
    BY <1>2, <1>3, EndsType, ReqSame DEF TypeInv
  <2>. QED BY <1>2, <1>3, <2>1 DEF Ingest, Kept, TypeInv, CacheOK, CountOK, GhostOK
<1>4. CASE /\ cache[c] # Absent
           /\ cache' = [cache EXCEPT ![c] = Append(@,
                [id |-> turn[c].id, text |-> turn[c].id, seq |-> turn[c].seq, ev |-> 0])]
           /\ Goes(c, "stream")
  <2>. DEFINE e == [id |-> turn[c].id, text |-> turn[c].id, seq |-> turn[c].seq, ev |-> 0]
              s == Append(cache[c], e)
  <2>1. e \in Prompt
    BY <1>1, ParametersOK DEF Prompt, Turn
  <2>2. s \in Seq(Prompt)
    BY <1>4, <2>1 DEF TypeInv, CacheOK
  <2>3. cache' = [cache EXCEPT ![c] = s]
    BY <1>4
  <2>. HIDE DEF s
  <2>4. CacheOK'
    BY <2>2, <2>3, CacheSet DEF TypeInv
  <2>5. TurnOK' /\ ReqOK' /\ issued' = issued
    BY <1>1, <1>2, <1>4, GoesType, ReqSame DEF TypeInv
  <2>. QED BY <1>2, <2>4, <2>5 DEF Ingest, Kept, TypeInv, CountOK, GhostOK
<1>. QED BY <1>3, <1>4 DEF Ingest

LEMMA StreamType == ASSUME TypeInv, NEW c \in Chats, Stream(c) PROVE TypeInv'
<1>1. turn[c] # Absent /\ turn[c].id \in Ids
  BY DEF Stream, At, TypeInv, TurnOK
<1>2. RowsOK' /\ ChatsKept /\ RowsKept
  BY SameTables DEF Stream, TypeInv
<1>3. CacheOK'
  BY <1>1, AppendedType DEF Stream, TypeInv
<1>. QED BY <1>2, <1>3, TurnSame, ReqSame DEF Stream, Kept, TypeInv, CountOK, GhostOK

LEMMA FinishType == ASSUME TypeInv, NEW c \in Chats, Finish(c) PROVE TypeInv'
<1>1. turn[c] # Absent /\ turn[c].id \in Ids
  BY DEF Finish, At, TypeInv, TurnOK
<1>2. RowsOK' /\ ChatsKept /\ RowsKept
  BY SameTables DEF Finish, TypeInv
<1>3. CacheOK'
  BY <1>1, AppendedType DEF Finish, TypeInv
<1>4. PICK next \in {"end", "reset"} : Turns(c, Flush(turn[c].id, next))
  BY DEF Finish
<1>. DEFINE t == Flush(turn[c].id, next)
<1>5. t \in Turn /\ t.at = "read" /\ t.id \in Ids
  BY <1>1, FlushType
<1>6. turn' = [turn EXCEPT ![c] = t] /\ req' = req /\ issued' = issued
  BY <1>4 DEF Turns
<1>. HIDE DEF t
<1>7. TurnOK'
  BY <1>2, <1>5, <1>6, TurnSet DEF TypeInv
<1>. QED BY <1>2, <1>3, <1>6, <1>7, ReqSame DEF Finish, Kept, TypeInv, CountOK, GhostOK

LEMMA ReadType == ASSUME TypeInv, NEW c \in Chats, Read(c) PROVE TypeInv'
<1>1. turn[c] \in Turn /\ turn[c].at = "read" /\ turn[c] # Absent /\ turn[c].id \in Ids
  BY DEF Read, At, TypeInv, TurnOK
<1>2. RowsOK' /\ ChatsKept /\ RowsKept
  BY SameTables DEF Read, TypeInv
<1>3. TurnOK' /\ req' = req /\ issued' = issued
  <2>1. CASE After(c)
    BY <1>1, <1>2, <2>1, AfterType DEF TypeInv
  <2>2. ASSUME NEW d \in Holders(turn[c].id),
               Turns(c, [turn[c] EXCEPT !.at = "write", !.ev = EventsOf(d, turn[c].id)])
        PROVE  TurnOK' /\ req' = req /\ issued' = issued
    <3>. DEFINE e == EventsOf(d, turn[c].id)
                t == [turn[c] EXCEPT !.at = "write", !.ev = e]
    <3>1. cache[d] \in Seq(Prompt) /\ \E k \in DOMAIN cache[d] : cache[d][k].id = turn[c].id
      BY DEF Holders, Cached, Holds, TypeInv, CacheOK
    <3>2. \A k \in DOMAIN cache[d] : cache[d][k].ev \in 0..MaxEvents
      <4>1. \A k \in DOMAIN cache[d] : cache[d][k] \in Prompt
        BY <3>1
      <4>. QED BY <4>1 DEF Prompt
    <3>3. e \in 0..MaxEvents
      BY <3>1, <3>2 DEF EventsOf
    <3>. HIDE DEF e
    <3>4. t \in Turn /\ t.at # "insert" /\ t.id = turn[c].id
      BY <1>1, <3>3 DEF Turn
    <3>5. turn' = [turn EXCEPT ![c] = t] /\ req' = req /\ issued' = issued
      BY <2>2 DEF Turns, e
    <3>. HIDE DEF t
    <3>. QED BY <1>1, <1>2, <3>4, <3>5, TurnSet DEF TypeInv
  <2>. QED BY <2>1, <2>2 DEF Read
<1>4. GhostOK'
  BY DEF Read, TypeInv, GhostOK, Holders, Cached
<1>. QED BY <1>2, <1>3, <1>4, ReqSame DEF Read, TypeInv, CacheOK, CountOK

LEMMA WriteType == ASSUME TypeInv, NEW c \in Chats, Write(c) PROVE TypeInv'
<1>. DEFINE i == turn[c].id
<1>1. turn[c] \in Turn /\ turn[c].at = "write" /\ turn[c] # Absent /\ i \in Ids
  BY DEF Write, At, TypeInv, TurnOK
<1>2. rows' = rows \/ (rows[i] # Absent /\ rows' = [rows EXCEPT ![i].ev = turn[c].ev])
  BY DEF Write
<1>3. chats' = chats /\ cache' = cache /\ turn[c].ev \in 0..MaxEvents
  BY <1>1 DEF Write, Turn
<1>4. RowsOK' /\ ChatsKept /\ RowsKept
  BY <1>1, <1>2, <1>3, SameTables, RowsEvents DEF TypeInv, tables
<1>5. TurnOK' /\ ReqOK' /\ issued' = issued
  BY <1>1, <1>4, AfterType, ReqSame DEF Write, TypeInv
<1>6. GhostOK'
  BY DEF Write, TypeInv, GhostOK, Holders, Cached
<1>7. CountOK'
  BY <1>5, SpendType DEF Write, TypeInv, CountOK, Fault
<1>. QED BY <1>3, <1>4, <1>5, <1>6, <1>7 DEF TypeInv, CacheOK

LEMMA ResetStepType == ASSUME TypeInv, NEW c \in Chats, Reset(c) PROVE TypeInv'
<1>1. RowsOK' /\ ChatsKept /\ RowsKept
  BY SameTables DEF Reset, TypeInv
<1>2. CASE Ends(c) /\ UNCHANGED cache
  BY <1>1, <1>2, EndsType, ReqSame DEF Reset, Kept, TypeInv, CacheOK, CountOK, GhostOK
<1>3. CASE /\ cache[c] \notin {Absent, <<>>} /\ cache' = LastReset(c)
           /\ Turns(c, Flush(Last(cache[c]).id, "rerun"))
  <2>. DEFINE t == Flush(Last(cache[c]).id, "rerun")
  <2>1. CacheOK' /\ Last(cache[c]).id \in Ids
    BY <1>3, ResetType DEF TypeInv, Prompt
  <2>2. t \in Turn /\ t.at = "read" /\ t.id \in Ids
    BY <2>1, FlushType
  <2>3. turn' = [turn EXCEPT ![c] = t] /\ req' = req /\ issued' = issued
    BY <1>3 DEF Turns
  <2>. HIDE DEF t
  <2>4. TurnOK'
    BY <1>1, <2>2, <2>3, TurnSet DEF TypeInv
  <2>. QED BY <1>1, <2>1, <2>3, <2>4, ReqSame DEF Reset, Kept, TypeInv, CountOK, GhostOK
<1>. QED BY <1>2, <1>3 DEF Reset

LEMMA RetryType == ASSUME TypeInv, NEW c \in Chats, Retry(c) PROVE TypeInv'
<1>1. RowsOK' /\ ChatsKept /\ RowsKept
  BY SameTables DEF Retry, TypeInv
<1>. DEFINE t == Flush(Last(cache[c]).id, "stream")
<1>2. CacheOK' /\ Last(cache[c]).id \in Ids
  BY ResetType DEF Retry, TypeInv, Prompt
<1>3. t \in Turn /\ t.at = "read" /\ t.id \in Ids
  BY <1>2, FlushType
<1>4. turn' = [turn EXCEPT ![c] = t] /\ req' = req /\ issued' = issued
  BY DEF Retry, Turns
<1>. HIDE DEF t
<1>5. TurnOK'
  BY <1>1, <1>3, <1>4, TurnSet DEF TypeInv
<1>6. CountOK' /\ GhostOK'
  BY <1>4, SpendType DEF Retry, Asked, Touch, TypeInv, GhostOK
<1>. QED BY <1>1, <1>2, <1>4, <1>5, <1>6, ReqSame DEF TypeInv

LEMMA RevertType == ASSUME TypeInv, NEW c \in Chats, Revert(c) PROVE TypeInv'
<1>1. RowsOK' /\ ChatsKept /\ RowsKept
  BY SameTables DEF Revert, TypeInv
<1>. DEFINE e == [id |-> issued', text |-> issued', seq |-> Len(cache[c]) + 1, ev |-> 0]
            s == Append(cache[c], e)
<1>2. issued' \in Ids /\ issued' \in 0..MaxPrompts
  BY IssueType DEF Revert, TypeInv
<1>3. cache[c] \in Seq(Prompt)
  BY DEF Revert, TypeInv, CacheOK
<1>4. e \in Prompt
  BY <1>2, <1>3, ParametersOK DEF Prompt
<1>5. s \in Seq(Prompt)
  BY <1>3, <1>4
<1>6. cache' = [cache EXCEPT ![c] = s]
  BY DEF Revert
<1>. HIDE DEF s
<1>7. CacheOK'
  BY <1>5, <1>6, CacheSet DEF TypeInv
<1>8. CountOK' /\ GhostOK'
  BY <1>2, ParametersOK DEF Revert, Asked, Spend, TypeInv, CountOK, GhostOK
<1>. QED BY <1>1, <1>7, <1>8, TurnSame, ReqSame DEF Revert, TypeInv

LEMMA HangUpTurnType == ASSUME TypeInv, NEW c \in Chats, HangUpTurn(c) PROVE TypeInv'
<1>1. RowsOK' /\ ChatsKept /\ RowsKept
  BY SameTables DEF HangUpTurn, TypeInv
<1>2. TurnOK' /\ ReqOK' /\ issued' = issued
  BY <1>1, EndsType, ReqSame DEF HangUpTurn, TypeInv
<1>3. CountOK'
  BY <1>2, SpendType DEF HangUpTurn, Fault, TypeInv
<1>. QED BY <1>1, <1>2, <1>3 DEF HangUpTurn, TypeInv, CacheOK, GhostOK

\* A request that goes on.
LEMMA ServedType ==
  ASSUME ReqOK, NEW h \in Handlers, req[h] # Absent
  PROVE  /\ req[h] \in Request /\ req[h].chat \in Chats
         /\ req[h].op \in {"fork", "truncate"} => req[h].todo # <<>>
         /\ req[h].op = "fork" => /\ req[h].todo \in Seq(Prompt) /\ Head(req[h].todo) \in Prompt
                                  /\ req[h].temp \in Chats
         /\ req[h].op = "truncate" => req[h].todo \in Seq(Ids) /\ Head(req[h].todo) \in Ids
<1>1. req[h] \in Request /\ (req[h].op \in {"fork", "truncate"} => req[h].todo # <<>>)
  BY DEF ReqOK
<1>2. req[h].chat \in Chats
  BY <1>1 DEF Request
<1>3. req[h].op = "fork" => req[h].todo \in Seq(Prompt) /\ req[h].temp \in Chats
  BY <1>1 DEF Request
<1>4. req[h].op = "truncate" => req[h].todo \in Seq(Ids)
  BY <1>1 DEF Request
<1>5. \A s \in Seq(Prompt) : s # <<>> => Head(s) \in Prompt
  OBVIOUS
<1>6. \A s \in Seq(Ids) : s # <<>> => Head(s) \in Ids
  OBVIOUS
<1>. QED BY <1>1, <1>2, <1>3, <1>4, <1>5, <1>6

\* What is left of a list that is longer than one.
LEMMA TailLeft ==
  ASSUME NEW S, NEW s \in Seq(S), s # <<>>, Len(s) # 1
  PROVE  /\ Tail(s) \in Seq(S) /\ Tail(s) # <<>> /\ Len(Tail(s)) = Len(s) - 1
         /\ \A k \in DOMAIN Tail(s) : k + 1 \in DOMAIN s /\ Tail(s)[k] = s[k + 1]
<1>1. Len(s) \in Nat /\ Len(s) # 0 /\ DOMAIN s = 1..Len(s)
  OBVIOUS
<1>2. Tail(s) \in Seq(S) /\ Len(Tail(s)) = Len(s) - 1
  OBVIOUS
<1>3. Tail(s) # <<>>
  <2>1. \A t \in Seq(S) : Len(t) # 0 => t # <<>>
    OBVIOUS
  <2>2. Len(Tail(s)) # 0
    BY <1>1, <1>2
  <2>. QED BY <1>2, <2>1, <2>2
<1>4. ASSUME NEW k \in DOMAIN Tail(s) PROVE k + 1 \in DOMAIN s /\ Tail(s)[k] = s[k + 1]
  <2>1. k \in 1..(Len(s) - 1)
    BY <1>2
  <2>. QED BY <1>1, <2>1
<1>. QED BY <1>2, <1>3, <1>4

LEMMA TruncateType ==
  ASSUME TypeInv, NEW h \in Handlers, NEW c \in Chats, NEW n \in Ids, Truncate(h, c, n)
  PROVE  TypeInv'
<1>. DEFINE cut == Picked(cache[c], {k \in DOMAIN cache[c] : cache[c][k].seq >= n})
            kept == Picked(cache[c], {k \in DOMAIN cache[c] : cache[c][k].seq < n})
            todo == [k \in DOMAIN cut |-> cut[k].id]
            r == [op |-> "truncate", at |-> "rows", chat |-> c, todo |-> todo]
<1>1. cache[c] \in Seq(Prompt)
  BY DEF Truncate, Cached, TypeInv, CacheOK
<1>2. cut \in Seq(Prompt)
  BY <1>1, PickedFrom
<1>3. kept \in Seq(Prompt)
  BY <1>1, PickedFrom
<1>4. /\ cut # <<>> /\ req' = [req EXCEPT ![h] = r] /\ cache' = [cache EXCEPT ![c] = kept]
      /\ UNCHANGED <<tables, turn, issued, clash>> /\ Spend /\ Touch(c)
  BY DEF Truncate, Begin, Asked
<1>. HIDE DEF cut, kept
<1>5. todo \in Seq(Ids) /\ todo # <<>>
  <2>1. \A k \in DOMAIN cut : cut[k] \in Prompt
    BY <1>2
  <2>2. \A k \in DOMAIN cut : cut[k].id \in Ids
    BY <2>1 DEF Prompt
  <2>3. DOMAIN cut = 1..Len(cut) /\ Len(cut) \in Nat /\ Len(cut) # 0
    BY <1>2, <1>4
  <2>4. todo \in [1..Len(cut) -> Ids]
    BY <2>2, <2>3
  <2>. QED BY <2>3, <2>4
<1>. HIDE DEF todo
<1>6. r \in Request /\ r.op = "truncate" /\ r.todo # <<>>
  BY <1>5 DEF Request
<1>. HIDE DEF r
<1>7. RowsOK' /\ ChatsKept /\ RowsKept
  BY <1>4, SameTables DEF TypeInv
<1>8. ReqOK'
  BY <1>4, <1>6, <1>7, ReqSet DEF TypeInv
<1>9. CacheOK' /\ TurnOK'
  BY <1>3, <1>4, <1>7, CacheSet, TurnSame DEF TypeInv
<1>10. CountOK' /\ GhostOK'
  BY <1>4, SpendType DEF TypeInv, Touch, GhostOK
<1>. QED BY <1>7, <1>8, <1>9, <1>10 DEF TypeInv

LEMMA DeletePromptType ==
  ASSUME TypeInv, IdsInv, NEW h \in Handlers, DeletePrompt(h) PROVE TypeInv'
<1>. DEFINE r == req[h]
            i == Head(r.todo)
            q == [r EXCEPT !.todo = Tail(r.todo)]
<1>1. /\ r # Absent /\ r.op = "truncate" /\ r.at = "rows" /\ r \in Request /\ r.chat \in Chats
      /\ r.todo \in Seq(Ids) /\ r.todo # <<>> /\ i \in Ids
  BY ServedType DEF DeletePrompt, Serves, TypeInv
<1>2. /\ rows' = rows \/ rows' = [rows EXCEPT ![i] = Absent]
      /\ UNCHANGED <<chats, cache, turn, issued, clash>> /\ (spent' = spent \/ Spend)
      /\ odd' \in {odd, odd \cup {r.chat}, odd \cup {r.chat} \cup {d \in Chats : i \in RowsOf(d)}}
      /\ req' = IF Len(r.todo) = 1 THEN [req EXCEPT ![h] = Absent] ELSE [req EXCEPT ![h] = q]
  BY DEF DeletePrompt, Serving, Fault
<1>3. RowsOK' /\ \A j \in Ids : rows'[j] = rows[j] \/ (j = i /\ rows'[j] = Absent)
  <2>1. \A j \in Ids : rows'[j] = rows[j] \/ (j = i /\ rows'[j] = Absent)
    BY <1>2 DEF TypeInv, RowsOK
  <2>2. rows' \in [Ids -> RowOf \cup {Absent}]
    BY <1>2 DEF TypeInv, RowsOK
  <2>. QED BY <1>2, <2>1, <2>2 DEF TypeInv, RowsOK
<1>4. ASSUME NEW g \in Handlers, Copying(g), req[g].at = "events"
      PROVE  req[g].id \in Ids /\ req[g].id # i
  <2>1. i = req[h].todo[1] /\ 1 \in DOMAIN req[h].todo
    BY <1>1
  <2>2. Known(i)
    BY <1>1, <2>1 DEF Known, Cut, Cutting
  <2>. QED BY <1>4, <2>2 DEF TypeInv, ReqOK, IdsInv, EventsOK, Copying
<1>5. ReqOK'
  <2>1. req' \in [Handlers -> Request \cup {Absent}] /\ \A g \in Handlers : g # h => req'[g] = req[g]
    <3>1. q \in Request
      BY <1>1 DEF Request
    <3>. QED BY <1>2, <3>1 DEF TypeInv, ReqOK
  <2>2. req'[h] # Absent => req'[h].op = "truncate" /\ req'[h].todo # <<>>
    <3>1. CASE Len(r.todo) = 1
      BY <1>2, <3>1 DEF TypeInv, ReqOK
    <3>2. CASE Len(r.todo) # 1
      <4>1. Tail(r.todo) # <<>>
        BY <1>1, <3>2, TailLeft
      <4>2. req'[h] = q
        BY <1>2, <3>2 DEF TypeInv, ReqOK
      <4>3. q.op = "truncate" /\ q.todo = Tail(r.todo)
        BY <1>1 DEF Request
      <4>. QED BY <4>1, <4>2, <4>3
    <3>. QED BY <3>1, <3>2
  <2>3. ASSUME NEW g \in Handlers, g # h, req'[g] # Absent
        PROVE  /\ req'[g].op \in {"fork", "truncate"} => req'[g].todo # <<>>
               /\ req'[g].op = "fork" /\ req'[g].at # "create" => chats'[req'[g].chat] # "none"
               /\ req'[g].op = "fork" /\ req'[g].at = "events" =>
                    /\ req'[g].id \in Ids /\ rows'[req'[g].id] # Absent
                    /\ rows'[req'[g].id].chat = req'[g].chat
    <3>1. req'[g] = req[g]
      BY <2>1, <2>3
    <3>2. req[g].op = "fork" /\ req[g].at = "events" => rows'[req[g].id] = rows[req[g].id] /\ req[g].id \in Ids
      BY <1>3, <1>4, <2>3, <3>1 DEF Copying
    <3>. QED BY <1>2, <2>3, <3>1, <3>2 DEF TypeInv, ReqOK
  <2>. QED BY <2>1, <2>2, <2>3 DEF ReqOK
<1>6. CacheOK' /\ TurnOK' /\ CountOK' /\ GhostOK'
  <2>1. CountOK'
    BY <1>2, SpendType DEF TypeInv, CountOK
  <2>. QED BY <1>1, <1>2, <2>1 DEF TypeInv, CacheOK, TurnOK, GhostOK
<1>. QED BY <1>3, <1>5, <1>6 DEF TypeInv

LEMMA DeleteType ==
  ASSUME TypeInv, NEW h \in Handlers, NEW c \in Chats, Delete(h, c) PROVE TypeInv'
<1>. DEFINE r == [op |-> "delete", at |-> "row", chat |-> c]
<1>1. r \in Request /\ r.op = "delete"
  BY DEF Request
<1>2. /\ req' = [req EXCEPT ![h] = r] /\ Spend /\ Registers(c) /\ Touch(c)
      /\ UNCHANGED <<tables, cache, turn, issued>>
  BY DEF Delete, Begin, Asked
<1>. HIDE DEF r
<1>3. RowsOK' /\ ChatsKept /\ RowsKept
  BY <1>2, SameTables DEF TypeInv
<1>4. CountOK' /\ GhostOK'
  BY <1>2, SpendType DEF TypeInv, GhostOK, Registers, Touch
<1>. QED BY <1>1, <1>2, <1>3, <1>4, ReqSet, TurnSame DEF TypeInv, CacheOK

LEMMA RestoreType ==
  ASSUME TypeInv, NEW h \in Handlers, NEW c \in Chats, Restore(h, c) PROVE TypeInv'
<1>. DEFINE r == [op |-> "restore", at |-> "ingest", chat |-> c]
<1>1. r \in Request /\ r.op = "restore"
  BY DEF Request
<1>2. /\ req' = [req EXCEPT ![h] = r] /\ Spend /\ Registers(c) /\ chats' = [chats EXCEPT ![c] = "live"]
      /\ UNCHANGED <<rows, cache, turn, issued, odd>>
  BY DEF Restore, Begin, Asked
<1>. HIDE DEF r
<1>3. RowsOK' /\ ChatsKept /\ RowsKept
  BY <1>2 DEF TypeInv, RowsOK, RowOf, ChatsKept, RowsKept
<1>4. CountOK' /\ GhostOK'
  BY <1>2, SpendType DEF TypeInv, GhostOK, Registers
<1>. QED BY <1>1, <1>2, <1>3, <1>4, ReqSet, TurnSame DEF TypeInv, CacheOK

LEMMA DeleteChatType ==
  ASSUME TypeInv, NEW h \in Handlers, DeleteChat(h) PROVE TypeInv'
<1>. DEFINE q == [req[h] EXCEPT !.at = "evict"]
<1>1. req[h] # Absent /\ req[h].op = "delete" /\ req[h] \in Request
  BY ServedType DEF DeleteChat, Serves, TypeInv
<1>2. q \in Request /\ q.op = "delete"
  BY <1>1 DEF Request
<1>3. req' = [req EXCEPT ![h] = q] /\ UNCHANGED <<rows, cache, turn, issued>> /\ Kept
  BY DEF DeleteChat, Serving
<1>. HIDE DEF q
<1>4. RowsOK' /\ ChatsKept /\ RowsKept
  BY DEF DeleteChat, TypeInv, RowsOK, RowOf, ChatsKept, RowsKept
<1>. QED BY <1>2, <1>3, <1>4, ReqSet, TurnSame DEF TypeInv, CacheOK, CountOK, GhostOK, Kept

LEMMA EvictType ==
  ASSUME TypeInv, NEW h \in Handlers, Evict(h) PROVE TypeInv'
<1>1. RowsOK' /\ ChatsKept /\ RowsKept
  BY SameTables DEF Evict, TypeInv
<1>. QED BY <1>1, ReqEnds, TurnSame DEF Evict, Serving, Kept, TypeInv, CacheOK, CountOK, GhostOK

LEMMA IngestChatType ==
  ASSUME TypeInv, NEW h \in Handlers, IngestChat(h) PROVE TypeInv'
<1>1. RowsOK' /\ ChatsKept /\ RowsKept
  BY SameTables DEF IngestChat, TypeInv
<1>2. req[h].chat \in Chats
  BY ServedType DEF IngestChat, Serves, TypeInv
<1>3. CacheOK'
  <2>1. <<>> \in Seq(Prompt)
    OBVIOUS
  <2>. QED BY <1>2, <2>1, CacheSet DEF IngestChat, TypeInv
<1>. QED BY <1>1, <1>2, <1>3, ReqEnds, TurnSame DEF IngestChat, Serving, TypeInv, CountOK, GhostOK

LEMMA ForkType ==
  ASSUME TypeInv, NEW h \in Handlers, NEW c \in Chats, NEW n \in Ids, NEW t \in Chats, Fork(h, c, n, t)
  PROVE  TypeInv'
<1>. DEFINE prefix == Picked(cache[c], {k \in DOMAIN cache[c] : cache[c][k].seq <= n})
            r == [op |-> "fork", at |-> "create", chat |-> t, temp |-> t,
                  todo |-> prefix, seq |-> 0, id |-> 0]
<1>1. cache[c] \in Seq(Prompt)
  BY DEF Fork, Cached, TypeInv, CacheOK
<1>2. prefix \in Seq(Prompt)
  BY <1>1, PickedFrom
<1>3. /\ prefix # <<>> /\ req' = [req EXCEPT ![h] = r] /\ cache' = [cache EXCEPT ![t] = prefix]
      /\ UNCHANGED <<tables, turn, issued>> /\ Spend
      /\ odd' \in {odd \ {t}, odd \cup {t}} /\ clash' = clash \ {t}
  BY DEF Fork, Begin, Asked
<1>. HIDE DEF prefix
<1>4. r \in Request /\ r.at = "create" /\ r.todo # <<>>
  BY <1>2, <1>3 DEF Request
<1>. HIDE DEF r
<1>5. RowsOK' /\ ChatsKept /\ RowsKept
  BY <1>3, SameTables DEF TypeInv
<1>6. ReqOK'
  BY <1>3, <1>4, <1>5, ReqSet DEF TypeInv
<1>7. CacheOK' /\ TurnOK'
  BY <1>2, <1>3, <1>5, CacheSet, TurnSame DEF TypeInv
<1>8. CountOK' /\ GhostOK'
  BY <1>3, SpendType DEF TypeInv, GhostOK
<1>. QED BY <1>5, <1>6, <1>7, <1>8 DEF TypeInv

LEMMA ForkCreateType ==
  ASSUME TypeInv, NEW h \in Handlers, NEW f \in Chats, ForkCreate(h, f) PROVE TypeInv'
<1>. DEFINE q == [req[h] EXCEPT !.at = "rekey", !.chat = f]
<1>1. /\ req[h] # Absent /\ req[h].op = "fork" /\ req[h] \in Request /\ req[h].todo # <<>>
      /\ req[h].temp \in Chats
  BY ServedType DEF ForkCreate, Serves, TypeInv
<1>2. q \in Request /\ q.op = "fork" /\ q.at = "rekey" /\ q.chat = f /\ q.todo # <<>>
  BY <1>1 DEF Request
<1>3. /\ UNCHANGED <<rows, cache, turn, issued>>
      /\ odd' \in {odd \ {f}, odd \cup {req[h].temp}} /\ clash' \in {clash \ {f}, clash \cup {req[h].temp}}
      /\ spent' = spent \/ Spend
      /\ \/ chats' = [chats EXCEPT ![f] = "live"] /\ req' = [req EXCEPT ![h] = q]
         \/ chats' = chats /\ req' = [req EXCEPT ![h] = Absent]
  BY DEF ForkCreate, Serving, Fault
<1>. HIDE DEF q
<1>4. RowsOK' /\ ChatsKept /\ RowsKept
  BY <1>3 DEF TypeInv, RowsOK, RowOf, ChatsKept, RowsKept
<1>5. ReqOK'
  <2>1. CASE chats' = [chats EXCEPT ![f] = "live"] /\ req' = [req EXCEPT ![h] = q]
    <3>1. chats'[f] # "none"
      BY <2>1 DEF TypeInv, RowsOK
    <3>. QED BY <1>2, <1>4, <2>1, <3>1, ReqSet DEF TypeInv
  <2>2. CASE req' = [req EXCEPT ![h] = Absent]
    BY <1>4, <2>2, ReqEnds DEF TypeInv
  <2>. QED BY <1>3, <2>1, <2>2
<1>6. CountOK' /\ GhostOK'
  BY <1>1, <1>3, SpendType DEF TypeInv, CountOK, GhostOK
<1>. QED BY <1>3, <1>4, <1>5, <1>6, TurnSame DEF TypeInv, CacheOK

LEMMA RekeyType ==
  ASSUME TypeInv, NEW h \in Handlers, Rekey(h) PROVE TypeInv'
<1>. DEFINE q == [req[h] EXCEPT !.at = "max"]
<1>1. /\ req[h] # Absent /\ req[h].op = "fork" /\ req[h].at = "rekey" /\ req[h] \in Request
      /\ req[h].todo # <<>> /\ req[h].temp \in Chats /\ req[h].chat \in Chats
      /\ chats[req[h].chat] # "none"
  BY ServedType DEF Rekey, Serves, TypeInv, ReqOK
<1>2. q \in Request /\ q.op = "fork" /\ q.at = "max" /\ q.chat = req[h].chat /\ q.todo # <<>>
  BY <1>1 DEF Request
<1>3. req' = [req EXCEPT ![h] = q] /\ UNCHANGED <<tables, turn, issued, spent>>
  BY DEF Rekey, Serving
<1>. HIDE DEF q
<1>4. RowsOK' /\ ChatsKept /\ RowsKept
  BY <1>3, SameTables DEF TypeInv
<1>5. ReqOK'
  BY <1>1, <1>2, <1>3, <1>4, ReqSet DEF TypeInv, ChatsKept
<1>6. CacheOK'
  BY <1>1 DEF Rekey, TypeInv, CacheOK
<1>7. GhostOK'
  BY <1>1 DEF Rekey, TypeInv, GhostOK
<1>. QED BY <1>3, <1>4, <1>5, <1>6, <1>7, TurnSame DEF TypeInv, CountOK

LEMMA ForkNumberType ==
  ASSUME TypeInv, NEW h \in Handlers, ForkNumber(h) PROVE TypeInv'
<1>. DEFINE q == [req[h] EXCEPT !.at = "insert", !.seq = NextSeq(req[h].chat)]
<1>1. /\ req[h] # Absent /\ req[h].op = "fork" /\ req[h].at = "max" /\ req[h] \in Request
      /\ req[h].todo # <<>> /\ req[h].chat \in Chats /\ chats[req[h].chat] # "none"
  BY ServedType DEF ForkNumber, Serves, TypeInv, ReqOK
<1>2. NextSeq(req[h].chat) \in Nat
  BY <1>1, NextSeqBeyond DEF TypeInv
<1>3. q \in Request /\ q.op = "fork" /\ q.at = "insert" /\ q.chat = req[h].chat /\ q.todo # <<>>
  BY <1>1, <1>2 DEF Request
<1>4. req' = [req EXCEPT ![h] = q] /\ UNCHANGED <<tables, cache, turn, issued>> /\ Kept
  BY DEF ForkNumber, Serving
<1>. HIDE DEF q
<1>5. RowsOK' /\ ChatsKept /\ RowsKept
  BY <1>4, SameTables DEF TypeInv
<1>6. ReqOK'
  BY <1>1, <1>3, <1>4, <1>5, ReqSet DEF TypeInv, ChatsKept
<1>. QED BY <1>4, <1>5, <1>6, TurnSame DEF TypeInv, CacheOK, CountOK, GhostOK, Kept

\* A prompt of a fork is done with.
LEMMA CopiedType ==
  ASSUME ReqOK, ChatsKept, RowsKept, NEW h \in Handlers, Copying(h), req[h].at # "create", Copied(h)
  PROVE  ReqOK'
<1>. DEFINE q == [req[h] EXCEPT !.at = "max", !.todo = Tail(req[h].todo)]
<1>1. /\ req[h] # Absent /\ req[h].op = "fork" /\ req[h] \in Request /\ req[h].todo \in Seq(Prompt)
      /\ req[h].todo # <<>> /\ req[h].chat \in Chats /\ chats[req[h].chat] # "none"
  BY ServedType DEF Copying, ReqOK
<1>2. CASE Len(req[h].todo) = 1
  BY <1>2, ReqEnds DEF Copied, Serving
<1>3. CASE Len(req[h].todo) # 1
  <2>1. Tail(req[h].todo) \in Seq(Prompt) /\ Tail(req[h].todo) # <<>>
    BY <1>1, <1>3, TailLeft
  <2>2. q \in Request /\ q.op = "fork" /\ q.at = "max" /\ q.chat = req[h].chat /\ q.todo # <<>>
    BY <1>1, <2>1 DEF Request
  <2>3. req' = [req EXCEPT ![h] = q]
    BY <1>3 DEF Copied, Serving
  <2>. HIDE DEF q
  <2>. QED BY <1>1, <2>2, <2>3, ReqSet DEF ChatsKept
<1>. QED BY <1>2, <1>3

LEMMA ForkInsertType ==
  ASSUME TypeInv, IdsInv, NEW h \in Handlers, ForkInsert(h) PROVE TypeInv'
<1>. DEFINE r == req[h]
<1>1. /\ r # Absent /\ r.op = "fork" /\ r.at = "insert" /\ r \in Request /\ Copying(h)
      /\ r.todo # <<>> /\ Head(r.todo) \in Prompt /\ r.chat \in Chats /\ chats[r.chat] # "none"
  BY ServedType DEF ForkInsert, Serves, TypeInv, ReqOK, Copying
<1>2. UNCHANGED <<chats, cache, turn, clash>>
  BY DEF ForkInsert
<1>3. CASE /\ ~Taken(r.chat, r.seq) /\ issued < MaxPrompts
           /\ issued' = issued + 1
           /\ rows' = [rows EXCEPT ![issued'] =
                [chat |-> r.chat, text |-> Head(r.todo).text, seq |-> r.seq, ev |-> 0]]
           /\ Serving(h, [r EXCEPT !.at = "events", !.id = issued'])
           /\ UNCHANGED <<spent, odd>>
  <2>. DEFINE w == [chat |-> r.chat, text |-> Head(r.todo).text, seq |-> r.seq, ev |-> 0]
              q == [r EXCEPT !.at = "events", !.id = issued']
  <2>1. issued' \in Ids /\ issued' \in 0..MaxPrompts /\ rows[issued'] = Absent
    BY <1>3, IssueType, FreshId DEF TypeInv
  <2>2. r.seq \in Nat
    BY <1>1 DEF Request
  <2>3. w \in RowOf /\ w.chat = r.chat /\ w.seq = r.seq
    BY <1>1, <2>2, ParametersOK DEF RowOf, Prompt
  <2>4. /\ q \in Request /\ q.op = "fork" /\ q.at = "events" /\ q.chat = r.chat /\ q.todo # <<>>
        /\ q.id = issued'
    BY <1>1, <2>1 DEF Request
  <2>5. rows' = [rows EXCEPT ![issued'] = w] /\ req' = [req EXCEPT ![h] = q]
    BY <1>3 DEF Serving
  <2>6. w # Absent
    BY <2>3, AbsentIsNothing
  <2>. HIDE DEF w, q
  <2>7. RowsOK' /\ ChatsKept /\ RowsKept
    BY <1>1, <1>2, <1>3, <2>1, <2>3, <2>5, RowsInsert DEF TypeInv
  <2>8. rows'[issued'] = w
    BY <2>1, <2>5 DEF TypeInv, RowsOK
  <2>9. ReqOK'
    BY <1>1, <2>1, <2>3, <2>4, <2>5, <2>6, <2>7, <2>8, ReqSet DEF TypeInv, ChatsKept
  <2>10. TurnOK' /\ CacheOK' /\ CountOK' /\ GhostOK'
    BY <1>2, <1>3, <2>1, <2>7, TurnSame DEF TypeInv, CacheOK, CountOK, GhostOK
  <2>. QED BY <2>7, <2>9, <2>10 DEF TypeInv
<1>4. CASE /\ IF Taken(r.chat, r.seq) THEN UNCHANGED spent ELSE Fault
           /\ Copied(h) /\ odd' = odd \cup {r.chat} /\ UNCHANGED <<rows, issued>>
  <2>1. RowsOK' /\ ChatsKept /\ RowsKept
    BY <1>2, <1>4, SameTables DEF TypeInv, tables
  <2>2. ReqOK'
    BY <1>1, <1>4, <2>1, CopiedType DEF TypeInv
  <2>3. CountOK'
    BY <1>4, SpendType DEF TypeInv, Fault, CountOK
  <2>. QED BY <1>1, <1>2, <1>4, <2>1, <2>2, <2>3, TurnSame DEF TypeInv, CacheOK, GhostOK
<1>. QED BY <1>3, <1>4 DEF ForkInsert

LEMMA ForkEventsType ==
  ASSUME TypeInv, NEW h \in Handlers, ForkEvents(h) PROVE TypeInv'
<1>. DEFINE r == req[h]
<1>1. /\ r # Absent /\ r.op = "fork" /\ r.at = "events" /\ r \in Request /\ Copying(h)
      /\ r.todo # <<>> /\ Head(r.todo) \in Prompt /\ r.chat \in Chats
      /\ r.id \in Ids /\ rows[r.id] # Absent
  BY ServedType DEF ForkEvents, Serves, TypeInv, ReqOK, Copying
<1>2. /\ UNCHANGED <<chats, cache, turn, issued, clash>> /\ Copied(h)
      /\ rows' = rows \/ rows' = [rows EXCEPT ![r.id].ev = Head(r.todo).ev]
      /\ spent' = spent \/ Spend
      /\ odd' \in {odd, odd \cup {r.chat}}
  BY DEF ForkEvents, Fault
<1>3. Head(r.todo).ev \in 0..MaxEvents
  BY <1>1 DEF Prompt
<1>4. RowsOK' /\ ChatsKept /\ RowsKept
  BY <1>1, <1>2, <1>3, SameTables, RowsEvents DEF TypeInv, tables
<1>5. ReqOK'
  BY <1>1, <1>2, <1>4, CopiedType DEF TypeInv
<1>6. CountOK'
  BY <1>2, SpendType DEF TypeInv, CountOK
<1>. QED BY <1>1, <1>2, <1>4, <1>5, <1>6, TurnSame DEF TypeInv, CacheOK, GhostOK

LEMMA HangUpType ==
  ASSUME TypeInv, NEW h \in Handlers, HangUp(h) PROVE TypeInv'
<1>1. RowsOK' /\ ChatsKept /\ RowsKept
  BY SameTables DEF HangUp, TypeInv
<1>2. CountOK'
  BY SpendType DEF HangUp, Fault, TypeInv
<1>. QED BY <1>1, <1>2, ReqEnds, TurnSame DEF HangUp, Serving, TypeInv, CacheOK, GhostOK

LEMMA RestartType ==
  ASSUME TypeInv, Restart PROVE TypeInv'
<1>1. RowsOK' /\ CountOK'
  BY SameTables, SpendType DEF Restart, Fault, TypeInv
<1>2. \A c \in Chats : Hydrated(c) \in Seq(Prompt)
  BY HydratedRows DEF TypeInv
<1>3. CacheOK'
  BY <1>2 DEF Restart, CacheOK
<1>4. TurnOK' /\ ReqOK' /\ GhostOK'
  BY DEF Restart, TurnOK, ReqOK, GhostOK
<1>. QED BY <1>1, <1>3, <1>4 DEF TypeInv

LEMMA NextType == ASSUME TypeInv, IdsInv, [Next]_vars PROVE TypeInv'
<1>1. CASE \E c \in Chats : Create(c) \/ Send(c) \/ TurnStep(c) \/ Retry(c) \/ Revert(c) \/ HangUpTurn(c)
  BY <1>1, CreateType, SendType, InsertType, IngestType, StreamType, FinishType, ReadType, WriteType,
     ResetStepType, RetryType, RevertType, HangUpTurnType DEF TurnStep
<1>2. CASE \E h \in Handlers, c \in Chats, n \in Ids :
             Truncate(h, c, n) \/ \E t \in Chats : Fork(h, c, n, t)
  BY <1>2, TruncateType, ForkType
<1>3. CASE \E h \in Handlers, c \in Chats : Delete(h, c) \/ Restore(h, c)
  BY <1>3, DeleteType, RestoreType
<1>4. CASE \E h \in Handlers : Serve(h) \/ HangUp(h)
  BY <1>4, DeletePromptType, DeleteChatType, EvictType, IngestChatType, ForkCreateType, RekeyType,
     ForkNumberType, ForkInsertType, ForkEventsType, HangUpType DEF Serve
<1>5. CASE Restart
  BY <1>5, RestartType
<1>6. CASE UNCHANGED vars
  <2>1. RowsOK' /\ ChatsKept /\ RowsKept
    BY <1>6, SameTables DEF vars, tables, TypeInv
  <2>. QED BY <1>6, <2>1, ReqSame, TurnSame DEF vars, TypeInv, CacheOK, CountOK, GhostOK
<1>. QED BY <1>1, <1>2, <1>3, <1>4, <1>5, <1>6 DEF Next

-----------------------------------------------------------------------------
\* Ids.  Most steps hand on what somebody has already; the rest is one new
\* id, or one that is handed on for the first time.

\* The entries of s are entries of chat d.
Descends(s, d) ==
  \E from \in [DOMAIN s -> DOMAIN cache[d]] :
    /\ \A k, l \in DOMAIN s : from[k] = from[l] => k = l
    /\ \A k \in DOMAIN s : /\ s[k].id = cache[d][from[k]].id
                           /\ s[k].seq = cache[d][from[k]].seq
                           /\ s[k].text = cache[d][from[k]].text

Inherits == \A c \in Chats : cache'[c] \in {Absent, <<>>} \/ \E d \in Cached : Descends(cache'[c], d)

\* A row goes, or its events change, or it is new.
RowStep ==
  /\ issued' \in {issued, issued + 1}
  /\ \A i \in Ids : rows'[i] # Absent =>
       \/ /\ rows[i] # Absent /\ rows'[i].chat = rows[i].chat
          /\ rows'[i].seq = rows[i].seq /\ rows'[i].text = rows[i].text
       \/ i = issued + 1 /\ i = issued'
  /\ \A c \in Chats : At(c, "ingest") => rows'[turn[c].id] = rows[turn[c].id]

\* Turns and truncations get ids that somebody has.
TurnHands ==
  \A c \in Chats : turn'[c] # Absent =>
    \/ turn'[c] = turn[c]
    \/ turn'[c].at = "insert"
    \/ turn'[c].at # "ingest" /\ Known(turn'[c].id)
    \/ /\ turn'[c].at = "ingest" /\ turn'[c].id = issued' /\ issued' = issued + 1 /\ req' = req
       /\ rows'[issued'] = [chat |-> c, text |-> issued', seq |-> turn'[c].seq, ev |-> 0]

ReqHands ==
  \A h \in Handlers : req'[h] # Absent =>
    \/ req'[h] = req[h]
    \/ req'[h].op = "fork" /\ req'[h].at # "events"
    \/ req'[h].op = "fork" /\ req'[h].id = issued' /\ issued' = issued + 1 /\ turn' = turn
    \/ req'[h].op = "truncate" /\ \A k \in DOMAIN req'[h].todo : Known(req'[h].todo[k])
    \/ req'[h].op \in {"delete", "restore"}

LEMMA OwnEntries == ASSUME NEW c \in Chats PROVE Descends(cache[c], c)
<1>. DEFINE from == [k \in DOMAIN cache[c] |-> k]
<1>1. /\ from \in [DOMAIN cache[c] -> DOMAIN cache[c]]
      /\ \A k, l \in DOMAIN cache[c] : from[k] = from[l] => k = l
      /\ \A k \in DOMAIN cache[c] : from[k] = k
  OBVIOUS
<1>. HIDE DEF from
<1>. QED BY <1>1 DEF Descends

LEMMA SameEntries == ASSUME cache' = cache PROVE Inherits
BY OwnEntries DEF Inherits, Cached

\* One chat's entries change, the others' do not.
LEMMA OneChat ==
  ASSUME NEW c \in Chats, \A d \in Chats \ {c} : cache'[d] \in {cache[d], Absent},
         cache'[c] \in {Absent, <<>>} \/ \E d \in Cached : Descends(cache'[c], d)
  PROVE  Inherits
BY OwnEntries DEF Inherits, Cached

LEMMA NoneNew ==
  ASSUME TypeInv, TypeInv', Inherits, TurnHands, ReqHands, NEW i \in Ids, Known(i)'
  PROVE  Known(i)
<1>1. CASE Holders(i)' # {}
  <2>1. PICK c \in Chats : cache'[c] # Absent /\ \E k \in DOMAIN cache'[c] : cache'[c][k].id = i
    BY <1>1 DEF Holders, Cached, Holds
  <2>2. PICK k \in DOMAIN cache'[c] : cache'[c][k].id = i
    BY <2>1
  <2>3. cache'[c] # <<>>
    BY <2>2
  <2>4. PICK d \in Cached : Descends(cache'[c], d)
    BY <2>1, <2>3 DEF Inherits
  <2>5. Holds(d, i)
    BY <2>2, <2>4 DEF Descends, Holds
  <2>. QED BY <2>5 DEF Known, Holders
<1>2. CASE Turning(i)'
  BY <1>2 DEF Turning, TurnHands, Known
<1>3. CASE Cut(i)'
  <2>1. PICK h \in Handlers : Cutting(h)' /\ \E k \in DOMAIN req'[h].todo : req'[h].todo[k] = i
    BY <1>3 DEF Cut
  <2>. QED BY <2>1 DEF Cutting, ReqHands, Known, Cut
<1>. QED BY <1>1, <1>2, <1>3 DEF Known

LEMMA QuietIds ==
  ASSUME TypeInv, TypeInv', IdsInv, Inherits, RowStep, TurnHands, ReqHands
  PROVE  IdsInv' /\ \A i \in Ids : Known(i)' => Known(i)
<1>1. \A i \in Ids : Known(i)' => Known(i)
  BY NoneNew
<1>2. issued \in Nat
  BY DEF TypeInv, CountOK
<1>3. IssuedOK'
  <2>1. \A i \in Ids : i \in Nat
    BY DEF Ids
  <2>. QED BY <1>1, <1>2, <2>1 DEF IssuedOK, RowStep, IdsInv
<1>4. EntriesOK'
  <2>1. SUFFICES ASSUME NEW c \in Chats, cache'[c] # Absent
                 PROVE  /\ \A k \in DOMAIN cache'[c] : rows'[cache'[c][k].id] # Absent =>
                             /\ rows'[cache'[c][k].id].seq = cache'[c][k].seq
                             /\ rows'[cache'[c][k].id].text = cache'[c][k].text
                        /\ \A k, l \in DOMAIN cache'[c] : cache'[c][k].id = cache'[c][l].id => k = l
    BY DEF EntriesOK, Cached
  <2>2. CASE cache'[c] = <<>>
    BY <2>2
  <2>3. CASE \E d \in Cached : Descends(cache'[c], d)
    <3>1. PICK d \in Cached : Descends(cache'[c], d)
      BY <2>3
    <3>2. PICK from \in [DOMAIN cache'[c] -> DOMAIN cache[d]] :
            /\ \A k, l \in DOMAIN cache'[c] : from[k] = from[l] => k = l
            /\ \A k \in DOMAIN cache'[c] : /\ cache'[c][k].id = cache[d][from[k]].id
                                           /\ cache'[c][k].seq = cache[d][from[k]].seq
                                           /\ cache'[c][k].text = cache[d][from[k]].text
      BY <3>1 DEF Descends
    <3>3. \A k, l \in DOMAIN cache'[c] : cache'[c][k].id = cache'[c][l].id => k = l
      BY <3>1, <3>2 DEF IdsInv, EntriesOK
    <3>4. ASSUME NEW k \in DOMAIN cache'[c], rows'[cache'[c][k].id] # Absent
          PROVE  /\ rows'[cache'[c][k].id].seq = cache'[c][k].seq
                 /\ rows'[cache'[c][k].id].text = cache'[c][k].text
      <4>. DEFINE i == cache[d][from[k]].id
      <4>1. from[k] \in DOMAIN cache[d] /\ cache[d] \in Seq(Prompt)
        BY <3>1 DEF Cached, TypeInv, CacheOK
      <4>2. i \in Ids
        <5>1. cache[d][from[k]] \in Prompt
          BY <4>1
        <5>. QED BY <5>1 DEF Prompt
      <4>3. Known(i)
        BY <3>1, <4>1 DEF Known, Holders, Holds
      <4>4. i <= issued /\ i # issued + 1
        <5>1. i <= issued
          BY <4>2, <4>3 DEF IdsInv, IssuedOK
        <5>. QED BY <1>2, <4>2, <5>1 DEF Ids
      <4>5. rows[i] # Absent /\ rows'[i].seq = rows[i].seq /\ rows'[i].text = rows[i].text
        BY <3>2, <3>4, <4>2, <4>4 DEF RowStep
      <4>6. rows[i].seq = cache[d][from[k]].seq /\ rows[i].text = cache[d][from[k]].text
        BY <3>1, <4>1, <4>5 DEF IdsInv, EntriesOK
      <4>. QED BY <3>2, <4>5, <4>6
    <3>. QED BY <3>3, <3>4
  <2>. QED BY <2>1, <2>2, <2>3 DEF Inherits
<1>5. ASSUME NEW i \in Ids, i = issued + 1 PROVE ~Known(i)' /\ ~Known(i) /\ rows[i] = Absent
  <2>1. ~(i <= issued)
    BY <1>2, <1>5
  <2>. QED BY <1>1, <2>1 DEF IdsInv, IssuedOK
<1>6. ASSUME NEW c \in Chats, At(c, "ingest")'
      PROVE  /\ turn'[c].id \in Ids
             /\ \/ turn'[c] = turn[c] /\ At(c, "ingest") /\ rows[turn[c].id] # Absent
                \/ /\ turn'[c].id = issued' /\ issued' = issued + 1 /\ req' = req
                   /\ rows'[issued'] = [chat |-> c, text |-> issued', seq |-> turn'[c].seq, ev |-> 0]
  <2>1. turn'[c] # Absent /\ turn'[c].at = "ingest" /\ turn'[c].id \in Ids
    BY <1>6 DEF At, TypeInv, TurnOK
  <2>2. CASE turn'[c] = turn[c]
    <3>1. At(c, "ingest") /\ turn[c].id \in Ids /\ turn[c] \in Turn
      BY <2>1, <2>2 DEF At, TypeInv, TurnOK
    <3>2. rows[turn[c].id] = [chat |-> c, text |-> turn[c].id, seq |-> turn[c].seq, ev |-> 0]
      BY <3>1 DEF IdsInv, IngestOK
    <3>3. rows[turn[c].id] \in RowOf
      BY <3>1, <3>2, ParametersOK DEF RowOf, Turn
    <3>. QED BY <2>1, <2>2, <3>1, <3>3, AbsentIsNothing
  <2>. QED BY <2>1, <2>2 DEF TurnHands
<1>7. IngestOK'
  <2>1. SUFFICES ASSUME NEW c \in Chats, At(c, "ingest")', NEW i \in Ids, i = turn'[c].id
                 PROVE  /\ rows'[i] = [chat |-> c, text |-> i, seq |-> turn'[c].seq, ev |-> 0]
                        /\ ~Known(i)'
    BY <1>6 DEF IngestOK
  <2>2. CASE turn'[c] = turn[c] /\ At(c, "ingest")
    BY <1>1, <2>1, <2>2 DEF IdsInv, IngestOK, RowStep
  <2>3. CASE /\ turn'[c].id = issued' /\ issued' = issued + 1
             /\ rows'[issued'] = [chat |-> c, text |-> issued', seq |-> turn'[c].seq, ev |-> 0]
    BY <1>5, <2>1, <2>3
  <2>. QED BY <1>6, <2>1, <2>2, <2>3
<1>8. EventsOK'
  <2>1. ASSUME NEW h \in Handlers, Copying(h)', req'[h].at = "events"
        PROVE  /\ req'[h].id \in Ids
               /\ \/ req'[h] = req[h] /\ Copying(h) /\ rows[req[h].id] # Absent
                  \/ req'[h].id = issued' /\ issued' = issued + 1 /\ turn' = turn
    BY <2>1 DEF Copying, ReqHands, TypeInv, ReqOK
  <2>2. SUFFICES ASSUME NEW h \in Handlers, Copying(h)', req'[h].at = "events",
                        NEW i \in Ids, i = req'[h].id
                 PROVE  ~Known(i)' /\ \A c \in Chats : At(c, "ingest")' => turn'[c].id # i
    BY <2>1 DEF EventsOK
  <2>3. CASE req'[h] = req[h] /\ Copying(h) /\ rows[i] # Absent
    <3>1. ~Known(i) /\ \A c \in Chats : At(c, "ingest") => turn[c].id # i
      BY <2>2, <2>3 DEF IdsInv, EventsOK
    <3>2. i # issued + 1
      BY <1>5, <2>3
    <3>. QED BY <1>1, <1>6, <3>1, <3>2
  <2>4. CASE i = issued' /\ issued' = issued + 1 /\ turn' = turn
    <3>1. ~Known(i)' /\ rows[i] = Absent
      BY <1>5, <2>4
    <3>2. ASSUME NEW c \in Chats, At(c, "ingest")' PROVE turn'[c].id # i
      <4>1. At(c, "ingest") /\ turn[c].id \in Ids /\ turn[c] \in Turn
        BY <2>4, <3>2 DEF At, TypeInv, TurnOK
      <4>2. rows[turn[c].id] = [chat |-> c, text |-> turn[c].id, seq |-> turn[c].seq, ev |-> 0]
        BY <4>1 DEF IdsInv, IngestOK
      <4>3. rows[turn[c].id] \in RowOf
        BY <4>1, <4>2, ParametersOK DEF RowOf, Turn
      <4>. QED BY <2>4, <3>1, <4>3, AbsentIsNothing
    <3>. QED BY <3>1, <3>2
  <2>. QED BY <2>1, <2>2, <2>3, <2>4
<1>. QED BY <1>1, <1>3, <1>4, <1>7, <1>8 DEF IdsInv

-----------------------------------------------------------------------------
\* Each step keeps the ids apart; most make no further id known.

NoneKnown == \A i \in Ids : Known(i)' => Known(i)

\* What append_event and the reset of a retry leave of the entries.
Lasting(c, i) ==
  /\ \A d \in Chats \ {c} : cache'[d] = cache[d]
  /\ cache[c] = Absent => cache'[c] = Absent
  /\ cache[c] # Absent =>
       /\ cache'[c] \in Seq(Prompt) /\ DOMAIN cache'[c] = DOMAIN cache[c] /\ Len(cache'[c]) = Len(cache[c])
       /\ \A k \in DOMAIN cache[c] :
            /\ cache'[c][k].id = cache[c][k].id /\ cache'[c][k].seq = cache[c][k].seq
            /\ cache'[c][k].text = cache[c][k].text
            /\ cache[c][k].id # i => cache'[c][k].ev = cache[c][k].ev

LEMMA LastingInherit ==
  ASSUME NEW c \in Chats, NEW i, Lasting(c, i) PROVE Inherits
<1>1. CASE cache[c] = Absent
  BY <1>1, OneChat DEF Lasting
<1>2. CASE cache[c] # Absent
  <2>. DEFINE from == [k \in DOMAIN cache[c] |-> k]
  <2>1. /\ from \in [DOMAIN cache[c] -> DOMAIN cache[c]]
        /\ \A k, l \in DOMAIN cache[c] : from[k] = from[l] => k = l
        /\ \A k \in DOMAIN cache[c] : from[k] = k
    OBVIOUS
  <2>. HIDE DEF from
  <2>2. /\ from \in [DOMAIN cache'[c] -> DOMAIN cache[c]]
        /\ \A k, l \in DOMAIN cache'[c] : from[k] = from[l] => k = l
        /\ \A k \in DOMAIN cache'[c] : /\ cache'[c][k].id = cache[c][from[k]].id
                                       /\ cache'[c][k].seq = cache[c][from[k]].seq
                                       /\ cache'[c][k].text = cache[c][from[k]].text
    BY <1>2, <2>1 DEF Lasting
  <2>3. Descends(cache'[c], c)
    BY <2>2 DEF Descends
  <2>. QED BY <1>2, <2>3, OneChat DEF Lasting, Cached
<1>. QED BY <1>1, <1>2

LEMMA AppendedLasts ==
  ASSUME CacheOK, NEW c \in Chats, NEW i \in Ids, cache' = Appended(c, i)
  PROVE  Lasting(c, i)
<1>1. CASE cache[c] = Absent
  BY <1>1 DEF Appended, Lasting
<1>2. CASE cache[c] # Absent
  <2>. DEFINE s == cache[c]
              t == [k \in DOMAIN s |-> IF s[k].id = i THEN WithEvent(s[k]) ELSE s[k]]
  <2>1. s \in Seq(Prompt)
    BY <1>2 DEF CacheOK
  <2>2. cache' = [cache EXCEPT ![c] = t]
    BY <1>2 DEF Appended
  <2>3. \A k \in DOMAIN s : s[k] \in Prompt /\ WithEvent(s[k]) \in Prompt
          /\ WithEvent(s[k]).id = s[k].id /\ WithEvent(s[k]).seq = s[k].seq /\ WithEvent(s[k]).text = s[k].text
    <3>1. TAKE k \in DOMAIN s
    <3>2. s[k] \in Prompt
      BY <2>1
    <3>. QED BY <3>2, ParametersOK DEF Prompt, WithEvent
  <2>4. DOMAIN s = 1..Len(s) /\ Len(s) \in Nat
    BY <2>1
  <2>5. t \in [1..Len(s) -> Prompt]
    BY <2>3, <2>4
  <2>6. t \in Seq(Prompt) /\ DOMAIN t = DOMAIN s /\ Len(t) = Len(s)
    BY <2>4, <2>5
  <2>7. \A k \in DOMAIN s : /\ t[k].id = s[k].id /\ t[k].seq = s[k].seq /\ t[k].text = s[k].text
                            /\ s[k].id # i => t[k].ev = s[k].ev
    BY <2>3
  <2>. HIDE DEF t
  <2>8. cache'[c] = t /\ \A d \in Chats \ {c} : cache'[d] = cache[d]
    BY <2>2 DEF CacheOK
  <2>. QED BY <1>2, <2>6, <2>7, <2>8 DEF Lasting
<1>. QED BY <1>1, <1>2

LEMMA ResetLasts ==
  ASSUME CacheOK, NEW c \in Chats, cache[c] \notin {Absent, <<>>}, cache' = LastReset(c),
         \A k, l \in DOMAIN cache[c] : cache[c][k].id = cache[c][l].id => k = l
  PROVE  Lasting(c, Last(cache[c]).id) /\ Holds(c, Last(cache[c]).id)
<1>. DEFINE s == cache[c]
            t == [s EXCEPT ![Len(s)].ev = 0]
<1>1. s \in Seq(Prompt) /\ s # <<>>
  BY DEF CacheOK
<1>2. Len(s) \in DOMAIN s /\ s[Len(s)] \in Prompt /\ Len(s) \in Nat /\ DOMAIN s = 1..Len(s)
  BY <1>1
<1>3. [s[Len(s)] EXCEPT !.ev = 0] \in Prompt
  BY <1>2, ParametersOK DEF Prompt
<1>4. t \in Seq(Prompt) /\ DOMAIN t = DOMAIN s /\ Len(t) = Len(s)
  BY <1>1, <1>2, <1>3
<1>5. cache' = [cache EXCEPT ![c] = t]
  BY DEF LastReset
<1>6. Last(s).id = s[Len(s)].id
  BY DEF Last
<1>7. \A k \in DOMAIN s : /\ t[k].id = s[k].id /\ t[k].seq = s[k].seq /\ t[k].text = s[k].text
                          /\ s[k].id # Last(s).id => t[k].ev = s[k].ev
  BY <1>2, <1>6 DEF Prompt
<1>. HIDE DEF t
<1>8. cache'[c] = t /\ \A d \in Chats \ {c} : cache'[d] = cache[d]
  BY <1>5 DEF CacheOK
<1>9. Lasting(c, Last(s).id)
  BY <1>4, <1>7, <1>8 DEF Lasting
<1>. QED BY <1>2, <1>6, <1>9 DEF Holds

LEMMA SameRowStep == ASSUME rows' = rows, issued' = issued PROVE RowStep
BY DEF RowStep

LEMMA SameTurns == ASSUME turn' = turn PROVE TurnHands
BY DEF TurnHands

LEMMA SameReqs == ASSUME req' = req PROVE ReqHands
BY DEF ReqHands

LEMMA HandlerEnds == ASSUME TypeInv, NEW h \in Handlers, req' = [req EXCEPT ![h] = Absent] PROVE ReqHands
BY DEF ReqHands, TypeInv, ReqOK

\* A turn with a prompt goes on with it, or ends.
LEMMA TurnGoes ==
  ASSUME TypeInv, NEW c \in Chats, turn[c] # Absent, turn[c].at \notin {"insert", "ingest"},
         NEW t \in Turn \cup {Absent}, turn' = [turn EXCEPT ![c] = t],
         t # Absent => t.id = turn[c].id /\ t.at # "ingest"
  PROVE  TurnHands
<1>1. Known(turn[c].id)
  BY DEF Known, Turning
<1>2. \A d \in Chats : turn'[d] = IF d = c THEN t ELSE turn[d]
  BY DEF TypeInv, TurnOK
<1>. QED BY <1>1, <1>2 DEF TurnHands

LEMMA TurnEnds == ASSUME TypeInv, NEW c \in Chats, Ends(c) PROVE TurnHands
BY DEF Ends, Turns, TurnHands, TypeInv, TurnOK

LEMMA AfterGoes ==
  ASSUME TypeInv, NEW c \in Chats, turn[c] # Absent, turn[c].at \notin {"insert", "ingest"}, After(c)
  PROVE  TurnHands
<1>1. turn[c] \in Turn
  BY DEF TypeInv, TurnOK
<1>2. CASE Ends(c)
  BY <1>2, TurnEnds
<1>3. CASE turn[c].next # "end" /\ Goes(c, turn[c].next)
  <2>. DEFINE t == [turn[c] EXCEPT !.at = turn[c].next]
  <2>1. t \in Turn /\ t.id = turn[c].id /\ t.at # "ingest"
    BY <1>1, <1>3 DEF Turn
  <2>2. turn' = [turn EXCEPT ![c] = t]
    BY <1>3 DEF Goes, Turns
  <2>. HIDE DEF t
  <2>. QED BY <2>1, <2>2, TurnGoes
<1>. QED BY <1>2, <1>3 DEF After

\* A turn takes up a prompt that a chat holds.
LEMMA TurnTakes ==
  ASSUME TypeInv, NEW c \in Chats, cache[c] # Absent, NEW i, Holds(c, i),
         NEW then, turn' = [turn EXCEPT ![c] = Flush(i, then)]
  PROVE  TurnHands
<1>1. Known(i)
  BY DEF Known, Holders, Cached
<1>2. Flush(i, then).id = i /\ Flush(i, then).at = "read"
  BY DEF Flush
<1>3. \A d \in Chats : turn'[d] = IF d = c THEN Flush(i, then) ELSE turn[d]
  BY DEF TypeInv, TurnOK
<1>. HIDE DEF Flush
<1>. QED BY <1>1, <1>2, <1>3 DEF TurnHands

LEMMA QuietStep ==
  ASSUME TypeInv, TypeInv', IdsInv, Inherits, RowStep, TurnHands, ReqHands
  PROVE  IdsInv' /\ NoneKnown
BY QuietIds DEF NoneKnown

LEMMA CreateIds ==
  ASSUME TypeInv, TypeInv', IdsInv, NEW c \in Chats, Create(c) PROVE IdsInv' /\ NoneKnown
<1>1. UNCHANGED <<rows, turn, req, issued>>
  BY DEF Create
<1>2. Inherits
  BY OneChat DEF Create, Unused, TypeInv, CacheOK
<1>. QED BY <1>1, <1>2, QuietStep, SameRowStep, SameTurns, SameReqs

LEMMA SendIds ==
  ASSUME TypeInv, TypeInv', IdsInv, NEW c \in Chats, Send(c) PROVE IdsInv' /\ NoneKnown
<1>1. UNCHANGED <<rows, req, issued, cache>>
  BY DEF Send, Turns, tables
<1>2. TurnHands
  BY DEF Send, Turns, TurnHands, TypeInv, TurnOK
<1>. QED BY <1>1, <1>2, QuietStep, SameEntries, SameRowStep, SameReqs

LEMMA InsertIds ==
  ASSUME TypeInv, TypeInv', IdsInv, NEW c \in Chats, Insert(c) PROVE IdsInv' /\ NoneKnown
<1>1. turn[c] \in Turn /\ turn[c].at = "insert" /\ turn[c] # Absent /\ cache' = cache
  BY DEF Insert, At, TypeInv, TurnOK
<1>2. CASE /\ ~Taken(c, turn[c].seq) /\ issued < MaxPrompts
           /\ issued' = issued + 1
           /\ rows' = [rows EXCEPT ![issued'] =
                         [chat |-> c, text |-> issued', seq |-> turn[c].seq, ev |-> 0]]
           /\ turn' = [turn EXCEPT ![c].at = "ingest", ![c].id = issued']
           /\ UNCHANGED <<req, spent>>
  <2>. DEFINE r == [chat |-> c, text |-> issued', seq |-> turn[c].seq, ev |-> 0]
              t == [turn[c] EXCEPT !.at = "ingest", !.id = issued']
  <2>1. issued' \in Ids /\ rows[issued'] = Absent
    BY <1>2, FreshId DEF TypeInv
  <2>2. t.at = "ingest" /\ t.id = issued' /\ t.seq = turn[c].seq
    BY <1>1 DEF Turn
  <2>3. \A d \in Chats : turn'[d] = IF d = c THEN t ELSE turn[d]
    BY <1>2 DEF TypeInv, TurnOK
  <2>. HIDE DEF t
  <2>4. \A i \in Ids : rows'[i] = IF i = issued' THEN r ELSE rows[i]
    BY <1>2 DEF TypeInv, RowsOK
  <2>5. \A d \in Chats : At(d, "ingest") => turn[d].id # issued'
    <3>1. SUFFICES ASSUME NEW d \in Chats, At(d, "ingest"), turn[d].id = issued' PROVE FALSE
      OBVIOUS
    <3>2. turn[d] \in Turn
      BY <3>1 DEF At, TypeInv, TurnOK
    <3>3. rows[issued'] = [chat |-> d, text |-> issued', seq |-> turn[d].seq, ev |-> 0]
      BY <3>1 DEF IdsInv, IngestOK
    <3>4. rows[issued'] \in RowOf
      BY <2>1, <3>2, <3>3, ParametersOK DEF RowOf, Turn
    <3>. QED BY <2>1, <3>4, AbsentIsNothing
  <2>6. RowStep
    <3>1. ASSUME NEW d \in Chats, At(d, "ingest") PROVE rows'[turn[d].id] = rows[turn[d].id]
      BY <2>4, <2>5, <3>1 DEF At, TypeInv, TurnOK
    <3>. QED BY <1>2, <2>4, <3>1 DEF RowStep
  <2>7. TurnHands
    <3>1. turn'[c] = t /\ \A d \in Chats : d # c => turn'[d] = turn[d]
      BY <2>3
    <3>2. rows'[issued'] = [chat |-> c, text |-> issued', seq |-> turn'[c].seq, ev |-> 0]
      BY <2>1, <2>2, <2>4, <3>1
    <3>3. issued' = issued + 1 /\ req' = req
      BY <1>2
    <3>. QED BY <2>2, <3>1, <3>2, <3>3 DEF TurnHands
  <2>. QED BY <1>1, <1>2, <2>6, <2>7, QuietStep, SameEntries, SameReqs
<1>3. CASE Ends(c) /\ UNCHANGED rows
  <2>1. UNCHANGED <<rows, issued, req>>
    BY <1>3 DEF Ends, Turns
  <2>. QED BY <1>1, <1>3, <2>1, TurnEnds, QuietStep, SameEntries, SameRowStep, SameReqs
<1>. QED BY <1>2, <1>3 DEF Insert

LEMMA StreamIds ==
  ASSUME TypeInv, TypeInv', IdsInv, NEW c \in Chats, Stream(c) PROVE IdsInv' /\ NoneKnown
<1>1. UNCHANGED <<rows, turn, req, issued>> /\ turn[c].id \in Ids
  BY DEF Stream, tables, At, TypeInv, TurnOK
<1>2. Inherits
  BY <1>1, AppendedLasts, LastingInherit DEF Stream, TypeInv
<1>. QED BY <1>1, <1>2, QuietStep, SameRowStep, SameTurns, SameReqs

LEMMA FinishIds ==
  ASSUME TypeInv, TypeInv', IdsInv, NEW c \in Chats, Finish(c) PROVE IdsInv' /\ NoneKnown
<1>1. /\ UNCHANGED <<rows, req, issued>> /\ turn[c].id \in Ids /\ turn[c] # Absent
      /\ turn[c].at \notin {"insert", "ingest"}
  BY DEF Finish, Turns, tables, At, TypeInv, TurnOK
<1>2. Inherits
  BY <1>1, AppendedLasts, LastingInherit DEF Finish, TypeInv
<1>3. PICK next \in {"end", "reset"} : turn' = [turn EXCEPT ![c] = Flush(turn[c].id, next)]
  BY DEF Finish, Turns
<1>4. /\ Flush(turn[c].id, next) \in Turn /\ Flush(turn[c].id, next).id = turn[c].id
      /\ Flush(turn[c].id, next).at = "read"
  BY <1>1, FlushType
<1>5. TurnHands
  BY <1>1, <1>3, <1>4, TurnGoes
<1>. QED BY <1>1, <1>2, <1>5, QuietStep, SameRowStep, SameReqs

LEMMA ReadIds ==
  ASSUME TypeInv, TypeInv', IdsInv, NEW c \in Chats, Read(c) PROVE IdsInv' /\ NoneKnown
<1>1. turn[c] \in Turn /\ turn[c] # Absent /\ turn[c].at = "read"
  BY DEF Read, At, TypeInv, TurnOK
<1>2. /\ UNCHANGED <<rows, cache, req, issued>>
      /\ \/ \E e : Turns(c, [turn[c] EXCEPT !.at = "write", !.ev = e])
         \/ After(c)
  BY DEF Read, tables, After, Ends, Goes, Turns
<1>3. TurnHands
  <2>1. CASE After(c)
    BY <1>1, <2>1, AfterGoes
  <2>2. ASSUME NEW e, Turns(c, [turn[c] EXCEPT !.at = "write", !.ev = e]) PROVE TurnHands
    <3>1. Known(turn[c].id)
      BY <1>1 DEF Known, Turning
    <3>2. /\ [turn[c] EXCEPT !.at = "write", !.ev = e].at = "write"
          /\ [turn[c] EXCEPT !.at = "write", !.ev = e].id = turn[c].id
      BY <1>1 DEF Turn
    <3>3. \A d \in Chats : turn'[d] = IF d = c THEN [turn[c] EXCEPT !.at = "write", !.ev = e] ELSE turn[d]
      BY <2>2 DEF Turns, TypeInv, TurnOK
    <3>. QED BY <3>1, <3>2, <3>3 DEF TurnHands
  <2>. QED BY <1>2, <2>1, <2>2
<1>. QED BY <1>2, <1>3, QuietStep, SameEntries, SameRowStep, SameReqs

\* Only rows that somebody knows are touched, and lose at most their events.
LEMMA TouchedRows ==
  ASSUME TypeInv, IdsInv, NEW i \in Ids, \A c \in Chats : At(c, "ingest") => turn[c].id # i,
         issued' = issued,
         \/ rows' = rows
         \/ rows' = [rows EXCEPT ![i] = Absent]
         \/ rows[i] # Absent /\ \E e : rows' = [rows EXCEPT ![i].ev = e]
  PROVE  RowStep
<1>1. ASSUME NEW c \in Chats, At(c, "ingest") PROVE turn[c].id \in Ids
  BY <1>1 DEF At, TypeInv, TurnOK
<1>2. CASE rows' = rows
  BY <1>2, SameRowStep
<1>3. CASE rows' = [rows EXCEPT ![i] = Absent]
  <2>1. \A j \in Ids : rows'[j] = IF j = i THEN Absent ELSE rows[j]
    BY <1>3 DEF TypeInv, RowsOK
  <2>. QED BY <1>1, <2>1 DEF RowStep
<1>4. CASE rows[i] # Absent /\ \E e : rows' = [rows EXCEPT ![i].ev = e]
  <2>1. PICK e : rows' = [rows EXCEPT ![i].ev = e]
    BY <1>4
  <2>2. \A j \in Ids : rows'[j] = IF j = i THEN [rows[i] EXCEPT !.ev = e] ELSE rows[j]
    BY <2>1 DEF TypeInv, RowsOK
  <2>3. rows[i] \in RowOf
    BY <1>4 DEF TypeInv, RowsOK
  <2>4. /\ [rows[i] EXCEPT !.ev = e].chat = rows[i].chat /\ [rows[i] EXCEPT !.ev = e].seq = rows[i].seq
        /\ [rows[i] EXCEPT !.ev = e].text = rows[i].text
    BY <2>3 DEF RowOf
  <2>. QED BY <1>1, <1>4, <2>2, <2>4 DEF RowStep
<1>. QED BY <1>2, <1>3, <1>4

LEMMA WriteIds ==
  ASSUME TypeInv, TypeInv', IdsInv, NEW c \in Chats, Write(c) PROVE IdsInv' /\ NoneKnown
<1>. DEFINE i == turn[c].id
<1>1. turn[c] \in Turn /\ turn[c].at = "write" /\ turn[c] # Absent /\ i \in Ids
  BY DEF Write, At, TypeInv, TurnOK
<1>2. rows' = rows \/ (rows[i] # Absent /\ \E e : rows' = [rows EXCEPT ![i].ev = e])
  BY DEF Write
<1>3. UNCHANGED <<cache, req, issued>>
  BY DEF Write, After, Ends, Goes, Turns
<1>4. \A d \in Chats : At(d, "ingest") => turn[d].id # i
  BY <1>1 DEF IdsInv, IngestOK, Known, Turning
<1>5. RowStep
  BY <1>1, <1>2, <1>3, <1>4, TouchedRows
<1>6. TurnHands
  BY <1>1, AfterGoes DEF Write
<1>. QED BY <1>3, <1>5, <1>6, QuietStep, SameEntries, SameReqs

LEMMA ResetIds ==
  ASSUME TypeInv, TypeInv', IdsInv, NEW c \in Chats, Reset(c) PROVE IdsInv' /\ NoneKnown
<1>1. UNCHANGED <<rows, req, issued>>
  BY DEF Reset, Ends, Turns, tables
<1>2. CASE Ends(c) /\ UNCHANGED cache
  BY <1>1, <1>2, TurnEnds, QuietStep, SameEntries, SameRowStep, SameReqs
<1>3. CASE /\ cache[c] \notin {Absent, <<>>} /\ cache' = LastReset(c)
           /\ Turns(c, Flush(Last(cache[c]).id, "rerun"))
  <2>1. Lasting(c, Last(cache[c]).id) /\ Holds(c, Last(cache[c]).id)
    BY <1>3, ResetLasts DEF IdsInv, EntriesOK, Cached, TypeInv
  <2>2. TurnHands
    BY <1>3, <2>1, TurnTakes DEF Turns
  <2>. QED BY <1>1, <2>1, <2>2, LastingInherit, QuietStep, SameRowStep, SameReqs
<1>. QED BY <1>2, <1>3 DEF Reset

LEMMA RetryIds ==
  ASSUME TypeInv, TypeInv', IdsInv, NEW c \in Chats, Retry(c) PROVE IdsInv' /\ NoneKnown
<1>1. UNCHANGED <<rows, req, issued>>
  BY DEF Retry, Turns, tables
<1>2. Lasting(c, Last(cache[c]).id) /\ Holds(c, Last(cache[c]).id)
  BY ResetLasts DEF Retry, IdsInv, EntriesOK, Cached, TypeInv
<1>3. TurnHands
  BY <1>2, TurnTakes DEF Retry, Turns
<1>. QED BY <1>1, <1>2, <1>3, LastingInherit, QuietStep, SameRowStep, SameReqs

LEMMA HangUpTurnIds ==
  ASSUME TypeInv, TypeInv', IdsInv, NEW c \in Chats, HangUpTurn(c) PROVE IdsInv' /\ NoneKnown
<1>1. UNCHANGED <<rows, req, issued, cache>>
  BY DEF HangUpTurn, Ends, Turns, tables
<1>. QED BY <1>1, TurnEnds, QuietStep, SameEntries, SameRowStep, SameReqs DEF HangUpTurn

\* A prompt that nobody knew of enters a cached chat, at the end.
LEMMA EnterIds ==
  ASSUME TypeInv, TypeInv', IdsInv, NEW c \in Chats, cache[c] # Absent, NEW e \in Prompt,
         cache' = [cache EXCEPT ![c] = Append(@, e)],
         ~Known(e.id), e.id <= issued', issued' \in {issued, issued + 1},
         rows' = rows, req' = req,
         rows[e.id] # Absent => rows[e.id].seq = e.seq /\ rows[e.id].text = e.text,
         \A d \in Chats : \/ turn'[d] = turn[d]
                          \/ turn'[d] # Absent => turn'[d].at # "ingest" /\ turn'[d].id = e.id,
         \A d \in Chats : At(d, "ingest") /\ turn'[d] = turn[d] => turn[d].id # e.id,
         \A h \in Handlers : Copying(h) /\ req[h].at = "events" => req[h].id # e.id
  PROVE  /\ IdsInv'
         /\ \A j \in Ids : Known(j)' => Known(j) \/ j = e.id
<1>. DEFINE s == cache[c]
            t == Append(s, e)
<1>1. s \in Seq(Prompt) /\ e.id \in Ids
  BY DEF TypeInv, CacheOK, Prompt
<1>2. /\ DOMAIN t = DOMAIN s \cup {Len(s) + 1} /\ t[Len(s) + 1] = e
      /\ \A k \in DOMAIN s : t[k] = s[k] /\ k # Len(s) + 1
  BY <1>1
<1>3. /\ cache'[c] = t /\ \A d \in Chats \ {c} : cache'[d] = cache[d]
      /\ cache'[c] # Absent
  <2>1. cache'[c] = t /\ \A d \in Chats \ {c} : cache'[d] = cache[d]
    BY DEF TypeInv, CacheOK
  <2>2. t \in Seq(Prompt)
    BY <1>1
  <2>. QED BY <2>1, <2>2, AbsentIsNothing
<1>. HIDE DEF t
<1>4. ASSUME NEW j \in Ids, Known(j)' PROVE Known(j) \/ j = e.id
  <2>1. CASE Holders(j)' # {}
    <3>1. PICK d \in Chats : cache'[d] # Absent /\ \E k \in DOMAIN cache'[d] : cache'[d][k].id = j
      BY <2>1 DEF Holders, Cached, Holds
    <3>2. CASE d # c
      BY <1>3, <3>1, <3>2 DEF Known, Holders, Cached, Holds
    <3>3. CASE d = c
      BY <1>2, <1>3, <3>1, <3>3 DEF Known, Holders, Cached, Holds
    <3>. QED BY <3>2, <3>3
  <2>2. CASE Turning(j)'
    BY <2>2 DEF Known, Turning
  <2>3. CASE Cut(j)'
    BY <2>3 DEF Known, Cut, Cutting
  <2>. QED BY <1>4, <2>1, <2>2, <2>3 DEF Known
<1>5. issued \in Nat /\ issued' \in Nat /\ \A j \in Ids : j \in Nat
  BY DEF TypeInv, CountOK, Ids
<1>6. IssuedOK'
  BY <1>4, <1>5 DEF IssuedOK, IdsInv
<1>7. EntriesOK'
  <2>1. \A d \in Cached : \A k \in DOMAIN cache[d] : cache[d][k].id # e.id
    BY DEF Known, Holders, Holds
  <2>2. SUFFICES ASSUME NEW d \in Chats, cache'[d] # Absent
                 PROVE  /\ \A k \in DOMAIN cache'[d] : rows'[cache'[d][k].id] # Absent =>
                             /\ rows'[cache'[d][k].id].seq = cache'[d][k].seq
                             /\ rows'[cache'[d][k].id].text = cache'[d][k].text
                        /\ \A k, l \in DOMAIN cache'[d] : cache'[d][k].id = cache'[d][l].id => k = l
    BY DEF EntriesOK, Cached
  <2>3. CASE d # c
    BY <1>3, <2>2, <2>3 DEF IdsInv, EntriesOK, Cached
  <2>4. CASE d = c
    <3>1. /\ \A k \in DOMAIN s : rows[s[k].id] # Absent =>
               rows[s[k].id].seq = s[k].seq /\ rows[s[k].id].text = s[k].text
          /\ \A k, l \in DOMAIN s : s[k].id = s[l].id => k = l
          /\ \A k \in DOMAIN s : s[k].id # e.id
      BY <2>1 DEF IdsInv, EntriesOK, Cached
    <3>2. \A k \in DOMAIN t : rows[t[k].id] # Absent =>
            rows[t[k].id].seq = t[k].seq /\ rows[t[k].id].text = t[k].text
      BY <1>2, <3>1
    <3>3. \A k, l \in DOMAIN t : t[k].id = t[l].id => k = l
      BY <1>2, <3>1
    <3>. QED BY <1>3, <2>4, <3>2, <3>3
  <2>. QED BY <2>3, <2>4
<1>8. ASSUME NEW d \in Chats, At(d, "ingest")'
      PROVE  turn'[d] = turn[d] /\ At(d, "ingest") /\ turn[d].id \in Ids /\ turn[d].id # e.id
  BY <1>8 DEF At, TypeInv, TurnOK
<1>9. IngestOK'
  BY <1>4, <1>8 DEF IngestOK, IdsInv
<1>10. EventsOK'
  <2>1. ASSUME NEW h \in Handlers, Copying(h)', req'[h].at = "events"
        PROVE  req'[h] = req[h] /\ Copying(h) /\ req[h].id \in Ids
    BY <2>1 DEF Copying, TypeInv, ReqOK
  <2>2. SUFFICES ASSUME NEW h \in Handlers, Copying(h)', req'[h].at = "events",
                        NEW i \in Ids, i = req'[h].id
                 PROVE  ~Known(i)' /\ \A d \in Chats : At(d, "ingest")' => turn'[d].id # i
    BY <2>1 DEF EventsOK
  <2>3. Copying(h) /\ req[h].at = "events" /\ i = req[h].id
    BY <2>1, <2>2
  <2>. QED BY <1>4, <1>8, <2>3 DEF EventsOK, IdsInv
<1>. QED BY <1>4, <1>6, <1>7, <1>9, <1>10 DEF IdsInv

LEMMA IngestIds ==
  ASSUME TypeInv, TypeInv', IdsInv, NEW c \in Chats, Ingest(c)
  PROVE  IdsInv' /\ \A j \in Ids : Known(j)' => Known(j) \/ j = turn[c].id
<1>1. turn[c] \in Turn /\ turn[c].at = "ingest" /\ turn[c] # Absent /\ turn[c].id \in Ids /\ At(c, "ingest")
  BY DEF Ingest, At, TypeInv, TurnOK
<1>2. UNCHANGED <<rows, req, issued>>
  BY DEF Ingest, Ends, Goes, Turns, tables
<1>3. CASE Ends(c) /\ UNCHANGED cache
  BY <1>2, <1>3, TurnEnds, QuietStep, SameEntries, SameRowStep, SameReqs DEF NoneKnown
<1>4. CASE /\ cache[c] # Absent
           /\ cache' = [cache EXCEPT ![c] = Append(@,
                [id |-> turn[c].id, text |-> turn[c].id, seq |-> turn[c].seq, ev |-> 0])]
           /\ Goes(c, "stream")
  <2>. DEFINE e == [id |-> turn[c].id, text |-> turn[c].id, seq |-> turn[c].seq, ev |-> 0]
              t == [turn[c] EXCEPT !.at = "stream"]
  <2>1. e \in Prompt /\ e.id = turn[c].id
    BY <1>1, ParametersOK DEF Prompt, Turn
  <2>2. rows[turn[c].id] = [chat |-> c, text |-> turn[c].id, seq |-> turn[c].seq, ev |-> 0]
    BY <1>1 DEF IdsInv, IngestOK
  <2>3. rows[turn[c].id] # Absent
    <3>1. rows[turn[c].id] \in RowOf
      BY <1>1, <2>2, ParametersOK DEF RowOf, Turn
    <3>. QED BY <3>1, AbsentIsNothing
  <2>4. turn[c].id <= issued /\ ~Known(turn[c].id)
    BY <1>1, <2>3 DEF IdsInv, IssuedOK, IngestOK
  <2>5. \A d \in Chats : turn'[d] = IF d = c THEN t ELSE turn[d]
    BY <1>4 DEF Goes, Turns, TypeInv, TurnOK
  <2>6. t.at = "stream" /\ t.id = turn[c].id
    BY <1>1 DEF Turn
  <2>. HIDE DEF t
  <2>7. ASSUME NEW d \in Chats, At(d, "ingest"), turn'[d] = turn[d] PROVE turn[d].id # turn[c].id
    <3>1. d # c
      BY <1>1, <2>5, <2>6, <2>7
    <3>2. rows[turn[d].id] = [chat |-> d, text |-> turn[d].id, seq |-> turn[d].seq, ev |-> 0]
      BY <2>7 DEF IdsInv, IngestOK
    <3>3. rows[turn[d].id].chat = d /\ rows[turn[c].id].chat = c
      BY <2>2, <3>2
    <3>. QED BY <3>1, <3>3
  <2>8. \A h \in Handlers : Copying(h) /\ req[h].at = "events" => req[h].id # turn[c].id
    BY <1>1 DEF IdsInv, EventsOK
  <2>9. rows[e.id].seq = e.seq /\ rows[e.id].text = e.text
    BY <2>1, <2>2
  <2>10. /\ \A d \in Chats : \/ turn'[d] = turn[d]
                             \/ turn'[d] # Absent => turn'[d].at # "ingest" /\ turn'[d].id = e.id
         /\ \A d \in Chats : At(d, "ingest") /\ turn'[d] = turn[d] => turn[d].id # e.id
         /\ cache' = [cache EXCEPT ![c] = Append(@, e)]
    BY <1>4, <2>1, <2>5, <2>6, <2>7
  <2>. HIDE DEF e
  <2>11. /\ e \in Prompt /\ ~Known(e.id) /\ e.id <= issued' /\ issued' \in {issued, issued + 1}
         /\ rows' = rows /\ req' = req
         /\ \A h \in Handlers : Copying(h) /\ req[h].at = "events" => req[h].id # e.id
    BY <1>2, <2>1, <2>4, <2>8
  <2>12. IdsInv' /\ \A j \in Ids : Known(j)' => Known(j) \/ j = e.id
    BY <1>4, <2>9, <2>10, <2>11, EnterIds
  <2>. QED BY <2>1, <2>12
<1>. QED BY <1>3, <1>4 DEF Ingest

LEMMA RevertIds ==
  ASSUME TypeInv, TypeInv', IdsInv, NEW c \in Chats, Revert(c)
  PROVE  IdsInv' /\ \A j \in Ids : Known(j)' => Known(j) \/ j = issued + 1
<1>. DEFINE e == [id |-> issued', text |-> issued', seq |-> Len(cache[c]) + 1, ev |-> 0]
<1>1. /\ UNCHANGED <<rows, turn, req>> /\ issued' = issued + 1 /\ cache[c] # Absent
      /\ issued < MaxPrompts /\ cache' = [cache EXCEPT ![c] = Append(@, e)]
  BY DEF Revert, tables
<1>2. issued' \in Ids /\ rows[issued'] = Absent /\ ~Known(issued')
  BY <1>1, FreshId DEF TypeInv
<1>3. e \in Prompt /\ e.id = issued'
  <2>1. cache[c] \in Seq(Prompt)
    BY <1>1 DEF TypeInv, CacheOK
  <2>. QED BY <1>2, <2>1, ParametersOK DEF Prompt
<1>. HIDE DEF e
<1>4. ASSUME NEW d \in Chats, At(d, "ingest") PROVE turn[d].id # e.id
  <2>1. turn[d].id \in Ids /\ turn[d] \in Turn
    BY <1>4 DEF At, TypeInv, TurnOK
  <2>2. rows[turn[d].id] = [chat |-> d, text |-> turn[d].id, seq |-> turn[d].seq, ev |-> 0]
    BY <1>4 DEF IdsInv, IngestOK
  <2>3. rows[turn[d].id] \in RowOf
    BY <2>1, <2>2, ParametersOK DEF RowOf, Turn
  <2>. QED BY <1>2, <1>3, <2>3, AbsentIsNothing
<1>5. ASSUME NEW h \in Handlers, Copying(h), req[h].at = "events" PROVE req[h].id # e.id
  BY <1>2, <1>3, <1>5 DEF Copying, TypeInv, ReqOK
<1>6. issued' <= issued' /\ issued' \in {issued, issued + 1}
  BY <1>1 DEF TypeInv, CountOK
<1>. QED BY <1>1, <1>2, <1>3, <1>4, <1>5, <1>6, EnterIds

\* Handler h serves r from here on.
LEMMA HandlerGoes ==
  ASSUME TypeInv, NEW h \in Handlers, NEW r, req' = [req EXCEPT ![h] = r],
         \/ r.op = "fork" /\ r.at # "events"
         \/ r.op = "truncate" /\ \A k \in DOMAIN r.todo : Known(r.todo[k])
         \/ r.op \in {"delete", "restore"}
  PROVE  ReqHands
<1>1. \A g \in Handlers : req'[g] = IF g = h THEN r ELSE req[g]
  BY DEF TypeInv, ReqOK
<1>. QED BY <1>1 DEF ReqHands

\* What Picked takes from a chat's entries are entries of it.
LEMMA PickedDescends ==
  ASSUME CacheOK, NEW c \in Chats, cache[c] # Absent, NEW I \in SUBSET DOMAIN cache[c]
  PROVE  Descends(Picked(cache[c], I), c)
<1>. DEFINE s == Picked(cache[c], I)
<1>1. cache[c] \in Seq(Prompt)
  BY DEF CacheOK
<1>2. PICK from \in [DOMAIN s -> I] :
        /\ \A k \in DOMAIN s : s[k] = cache[c][from[k]]
        /\ \A k, l \in DOMAIN s : k < l => from[k] < from[l]
  BY <1>1, PickedFrom
<1>3. s \in Seq(Prompt)
  BY <1>1, PickedFrom
<1>. HIDE DEF s
<1>4. \A k, l \in DOMAIN s : from[k] = from[l] => k = l
  <2>1. DOMAIN cache[c] = 1..Len(cache[c]) /\ DOMAIN s = 1..Len(s)
    BY <1>1, <1>3
  <2>2. \A k \in DOMAIN s : from[k] \in Nat
    BY <2>1
  <2>3. \A k, l \in DOMAIN s : k # l => k < l \/ l < k
    BY <2>1
  <2>. QED BY <1>2, <2>2, <2>3
<1>5. from \in [DOMAIN s -> DOMAIN cache[c]]
  OBVIOUS
<1>6. Descends(s, c)
  BY <1>2, <1>4, <1>5 DEF Descends
<1>. QED BY <1>6 DEF s

LEMMA TruncateIds ==
  ASSUME TypeInv, TypeInv', IdsInv, NEW h \in Handlers, NEW c \in Chats, NEW n \in Ids, Truncate(h, c, n)
  PROVE  IdsInv' /\ NoneKnown
<1>. DEFINE cut == Picked(cache[c], {k \in DOMAIN cache[c] : cache[c][k].seq >= n})
            kept == Picked(cache[c], {k \in DOMAIN cache[c] : cache[c][k].seq < n})
            r == [op |-> "truncate", at |-> "rows", chat |-> c, todo |-> [k \in DOMAIN cut |-> cut[k].id]]
<1>1. /\ UNCHANGED <<rows, turn, issued>> /\ cache[c] # Absent
      /\ req' = [req EXCEPT ![h] = r] /\ cache' = [cache EXCEPT ![c] = kept]
  BY DEF Truncate, Begin, Cached, tables
<1>2. Descends(kept, c) /\ Descends(cut, c)
  BY <1>1, PickedDescends DEF TypeInv
<1>. HIDE DEF cut, kept
<1>3. Inherits
  BY <1>1, <1>2, OneChat DEF TypeInv, CacheOK, Cached
<1>4. \A k \in DOMAIN r.todo : Known(r.todo[k])
  BY <1>1, <1>2 DEF Descends, Known, Holders, Holds, Cached
<1>5. ReqHands
  <2>1. r.op = "truncate"
    OBVIOUS
  <2>. HIDE DEF r
  <2>. QED BY <1>1, <1>4, <2>1, HandlerGoes
<1>. QED BY <1>1, <1>3, <1>5, QuietStep, SameRowStep, SameTurns

LEMMA DeletePromptIds ==
  ASSUME TypeInv, TypeInv', IdsInv, NEW h \in Handlers, DeletePrompt(h) PROVE IdsInv' /\ NoneKnown
<1>. DEFINE r == req[h]
            i == Head(r.todo)
            q == [r EXCEPT !.todo = Tail(r.todo)]
<1>1. /\ r # Absent /\ r.op = "truncate" /\ r.at = "rows" /\ r \in Request /\ r.chat \in Chats
      /\ r.todo \in Seq(Ids) /\ r.todo # <<>> /\ i \in Ids
  BY ServedType DEF DeletePrompt, Serves, TypeInv
<1>2. /\ rows' = rows \/ rows' = [rows EXCEPT ![i] = Absent]
      /\ UNCHANGED <<chats, cache, turn, issued, clash>>
      /\ req' = IF Len(r.todo) = 1 THEN [req EXCEPT ![h] = Absent] ELSE [req EXCEPT ![h] = q]
  BY DEF DeletePrompt, Serving
<1>3. \A k \in DOMAIN r.todo : Known(r.todo[k])
  BY <1>1 DEF Known, Cut, Cutting
<1>4. Known(i)
  <2>1. i = r.todo[1] /\ 1 \in DOMAIN r.todo
    BY <1>1
  <2>. QED BY <1>3, <2>1
<1>5. RowStep
  <2>1. \A c \in Chats : At(c, "ingest") => turn[c].id # i
    BY <1>4 DEF IdsInv, IngestOK
  <2>. HIDE DEF i
  <2>. QED BY <1>1, <1>2, <2>1, TouchedRows
<1>6. ReqHands
  <2>1. CASE Len(r.todo) = 1
    BY <1>2, <2>1, HandlerEnds
  <2>2. CASE Len(r.todo) # 1
    <3>1. \A k \in DOMAIN Tail(r.todo) : Known(Tail(r.todo)[k])
      BY <1>1, <1>3, <2>2, TailLeft
    <3>2. q.op = "truncate" /\ q.todo = Tail(r.todo)
      BY <1>1 DEF Request
    <3>. HIDE DEF q
    <3>. QED BY <1>2, <2>2, <3>1, <3>2, HandlerGoes
  <2>. QED BY <2>1, <2>2
<1>. QED BY <1>2, <1>5, <1>6, QuietStep, SameEntries, SameTurns

LEMMA DeleteIds ==
  ASSUME TypeInv, TypeInv', IdsInv, NEW h \in Handlers, NEW c \in Chats, Delete(h, c) \/ Restore(h, c)
  PROVE  IdsInv' /\ NoneKnown
<1>. DEFINE r == [op |-> "delete", at |-> "row", chat |-> c]
            q == [op |-> "restore", at |-> "ingest", chat |-> c]
<1>1. /\ UNCHANGED <<rows, cache, turn, issued>>
      /\ req' = [req EXCEPT ![h] = r] \/ req' = [req EXCEPT ![h] = q]
  BY DEF Delete, Restore, Begin, tables
<1>2. r.op = "delete" /\ q.op = "restore"
  OBVIOUS
<1>. HIDE DEF r, q
<1>. QED BY <1>1, <1>2, HandlerGoes, QuietStep, SameEntries, SameRowStep, SameTurns

LEMMA DeleteChatIds ==
  ASSUME TypeInv, TypeInv', IdsInv, NEW h \in Handlers, DeleteChat(h) PROVE IdsInv' /\ NoneKnown
<1>. DEFINE q == [req[h] EXCEPT !.at = "evict"]
<1>1. req[h] # Absent /\ req[h].op = "delete" /\ req[h] \in Request
  BY ServedType DEF DeleteChat, Serves, TypeInv
<1>2. q.op = "delete"
  BY <1>1 DEF Request
<1>3. req' = [req EXCEPT ![h] = q] /\ UNCHANGED <<rows, cache, turn, issued>>
  BY DEF DeleteChat, Serving
<1>. HIDE DEF q
<1>. QED BY <1>2, <1>3, HandlerGoes, QuietStep, SameEntries, SameRowStep, SameTurns

LEMMA EvictIds ==
  ASSUME TypeInv, TypeInv', IdsInv, NEW h \in Handlers, Evict(h) \/ IngestChat(h)
  PROVE  IdsInv' /\ NoneKnown
<1>1. req[h].chat \in Chats
  BY ServedType DEF Evict, IngestChat, Serves, TypeInv
<1>2. Inherits
  BY <1>1, OneChat DEF Evict, IngestChat, TypeInv, CacheOK
<1>3. UNCHANGED <<rows, turn, issued>> /\ req' = [req EXCEPT ![h] = Absent]
  BY DEF Evict, IngestChat, Serving, tables
<1>. QED BY <1>2, <1>3, HandlerEnds, QuietStep, SameRowStep, SameTurns

LEMMA ForkIds ==
  ASSUME TypeInv, TypeInv', IdsInv,
         NEW h \in Handlers, NEW c \in Chats, NEW n \in Ids, NEW t \in Chats, Fork(h, c, n, t)
  PROVE  IdsInv' /\ NoneKnown
<1>. DEFINE prefix == Picked(cache[c], {k \in DOMAIN cache[c] : cache[c][k].seq <= n})
            r == [op |-> "fork", at |-> "create", chat |-> t, temp |-> t,
                  todo |-> prefix, seq |-> 0, id |-> 0]
<1>1. /\ UNCHANGED <<rows, turn, issued>> /\ cache[c] # Absent
      /\ req' = [req EXCEPT ![h] = r] /\ cache' = [cache EXCEPT ![t] = prefix]
  BY DEF Fork, Begin, Cached, tables
<1>2. Descends(prefix, c)
  BY <1>1, PickedDescends DEF TypeInv
<1>. HIDE DEF prefix
<1>3. Inherits
  BY <1>1, <1>2, OneChat DEF TypeInv, CacheOK, Cached
<1>4. r.op = "fork" /\ r.at = "create"
  OBVIOUS
<1>. HIDE DEF r
<1>. QED BY <1>1, <1>3, <1>4, HandlerGoes, QuietStep, SameRowStep, SameTurns

LEMMA ForkCreateIds ==
  ASSUME TypeInv, TypeInv', IdsInv, NEW h \in Handlers, NEW f \in Chats, ForkCreate(h, f)
  PROVE  IdsInv' /\ NoneKnown
<1>. DEFINE q == [req[h] EXCEPT !.at = "rekey", !.chat = f]
<1>1. req[h] # Absent /\ req[h].op = "fork" /\ req[h] \in Request
  BY ServedType DEF ForkCreate, Serves, TypeInv
<1>2. q.op = "fork" /\ q.at = "rekey"
  BY <1>1 DEF Request
<1>3. /\ UNCHANGED <<rows, cache, turn, issued>>
      /\ req' = [req EXCEPT ![h] = q] \/ req' = [req EXCEPT ![h] = Absent]
  BY DEF ForkCreate, Serving
<1>. HIDE DEF q
<1>. QED BY <1>2, <1>3, HandlerGoes, HandlerEnds, QuietStep, SameEntries, SameRowStep, SameTurns

LEMMA RekeyIds ==
  ASSUME TypeInv, TypeInv', IdsInv, NEW h \in Handlers, Rekey(h) PROVE IdsInv' /\ NoneKnown
<1>. DEFINE q == [req[h] EXCEPT !.at = "max"]
            f == req[h].chat
            t == req[h].temp
<1>1. /\ req[h] # Absent /\ req[h].op = "fork" /\ req[h] \in Request
      /\ f \in Chats /\ t \in Chats
  BY ServedType DEF Rekey, Serves, TypeInv
<1>2. q.op = "fork" /\ q.at = "max"
  BY <1>1 DEF Request
<1>3. UNCHANGED <<rows, turn, issued>> /\ req' = [req EXCEPT ![h] = q]
  BY DEF Rekey, Serving, tables
<1>4. Inherits
  <2>1. CASE cache' = cache
    BY <2>1, SameEntries
  <2>2. CASE cache[t] # Absent /\ cache' = [cache EXCEPT ![f] = cache[t], ![t] = Absent]
    <3>1. \A d \in Chats : cache'[d] \in {cache[d], cache[t], Absent}
      BY <1>1, <2>2 DEF TypeInv, CacheOK
    <3>. QED BY <1>1, <3>1, OwnEntries DEF Inherits, Cached
  <2>. QED BY <2>1, <2>2 DEF Rekey
<1>. HIDE DEF q
<1>. QED BY <1>2, <1>3, <1>4, HandlerGoes, QuietStep, SameRowStep, SameTurns

LEMMA ForkNumberIds ==
  ASSUME TypeInv, TypeInv', IdsInv, NEW h \in Handlers, ForkNumber(h) PROVE IdsInv' /\ NoneKnown
<1>. DEFINE q == [req[h] EXCEPT !.at = "insert", !.seq = NextSeq(req[h].chat)]
<1>1. req[h] # Absent /\ req[h].op = "fork" /\ req[h] \in Request
  BY ServedType DEF ForkNumber, Serves, TypeInv
<1>2. q.op = "fork" /\ q.at = "insert"
  BY <1>1 DEF Request
<1>3. UNCHANGED <<rows, cache, turn, issued>> /\ req' = [req EXCEPT ![h] = q]
  BY DEF ForkNumber, Serving, tables
<1>. HIDE DEF q
<1>. QED BY <1>2, <1>3, HandlerGoes, QuietStep, SameEntries, SameRowStep, SameTurns

LEMMA CopiedHands ==
  ASSUME TypeInv, NEW h \in Handlers, Copying(h), Copied(h) PROVE ReqHands
<1>. DEFINE q == [req[h] EXCEPT !.at = "max", !.todo = Tail(req[h].todo)]
<1>1. req[h] # Absent /\ req[h].op = "fork" /\ req[h] \in Request
  BY DEF Copying, TypeInv, ReqOK
<1>2. q.op = "fork" /\ q.at = "max"
  BY <1>1 DEF Request
<1>3. req' = [req EXCEPT ![h] = Absent] \/ req' = [req EXCEPT ![h] = q]
  BY DEF Copied, Serving
<1>. HIDE DEF q
<1>. QED BY <1>2, <1>3, HandlerGoes, HandlerEnds

LEMMA ForkInsertIds ==
  ASSUME TypeInv, TypeInv', IdsInv, NEW h \in Handlers, ForkInsert(h) PROVE IdsInv' /\ NoneKnown
<1>. DEFINE r == req[h]
<1>1. r # Absent /\ r.op = "fork" /\ r.at = "insert" /\ r \in Request /\ Copying(h)
  BY DEF ForkInsert, Serves, TypeInv, ReqOK, Copying
<1>2. UNCHANGED <<cache, turn>>
  BY DEF ForkInsert
<1>3. CASE /\ issued < MaxPrompts /\ issued' = issued + 1
           /\ rows' = [rows EXCEPT ![issued'] =
                [chat |-> r.chat, text |-> Head(r.todo).text, seq |-> r.seq, ev |-> 0]]
           /\ Serving(h, [r EXCEPT !.at = "events", !.id = issued'])
  <2>. DEFINE w == [chat |-> r.chat, text |-> Head(r.todo).text, seq |-> r.seq, ev |-> 0]
              q == [r EXCEPT !.at = "events", !.id = issued']
  <2>1. issued' \in Ids /\ rows[issued'] = Absent
    BY <1>3, FreshId DEF TypeInv
  <2>2. \A i \in Ids : rows'[i] = IF i = issued' THEN w ELSE rows[i]
    BY <1>3 DEF TypeInv, RowsOK
  <2>3. ASSUME NEW d \in Chats, At(d, "ingest") PROVE turn[d].id \in Ids /\ turn[d].id # issued'
    <3>1. turn[d].id \in Ids /\ turn[d] \in Turn
      BY <2>3 DEF At, TypeInv, TurnOK
    <3>2. rows[turn[d].id] = [chat |-> d, text |-> turn[d].id, seq |-> turn[d].seq, ev |-> 0]
      BY <2>3 DEF IdsInv, IngestOK
    <3>3. rows[turn[d].id] \in RowOf
      BY <3>1, <3>2, ParametersOK DEF RowOf, Turn
    <3>. QED BY <2>1, <3>1, <3>3, AbsentIsNothing
  <2>4. RowStep
    BY <1>3, <2>2, <2>3 DEF RowStep
  <2>5. q.op = "fork" /\ q.id = issued'
    BY <1>1 DEF Request
  <2>6. \A g \in Handlers : req'[g] = IF g = h THEN q ELSE req[g]
    BY <1>3 DEF Serving, TypeInv, ReqOK
  <2>. HIDE DEF q, w
  <2>7. ReqHands
    BY <1>2, <1>3, <2>5, <2>6 DEF ReqHands
  <2>. QED BY <1>2, <2>4, <2>7, QuietStep, SameEntries, SameTurns
<1>4. CASE Copied(h) /\ UNCHANGED <<rows, issued>>
  BY <1>1, <1>2, <1>4, CopiedHands, QuietStep, SameEntries, SameRowStep, SameTurns
<1>. QED BY <1>3, <1>4 DEF ForkInsert

LEMMA ForkEventsIds ==
  ASSUME TypeInv, TypeInv', IdsInv, NEW h \in Handlers, ForkEvents(h) PROVE IdsInv' /\ NoneKnown
<1>. DEFINE r == req[h]
<1>1. /\ r # Absent /\ r.op = "fork" /\ r.at = "events" /\ Copying(h)
      /\ r.id \in Ids /\ rows[r.id] # Absent
  BY DEF ForkEvents, Serves, TypeInv, ReqOK, Copying
<1>2. /\ UNCHANGED <<cache, turn, issued>> /\ Copied(h)
      /\ rows' = rows \/ \E e : rows' = [rows EXCEPT ![r.id].ev = e]
  BY DEF ForkEvents
<1>3. \A c \in Chats : At(c, "ingest") => turn[c].id # r.id
  BY <1>1 DEF IdsInv, EventsOK
<1>4. RowStep
  BY <1>1, <1>2, <1>3, TouchedRows
<1>. QED BY <1>1, <1>2, <1>4, CopiedHands, QuietStep, SameEntries, SameTurns

LEMMA HangUpIds ==
  ASSUME TypeInv, TypeInv', IdsInv, NEW h \in Handlers, HangUp(h) PROVE IdsInv' /\ NoneKnown
<1>1. UNCHANGED <<rows, turn, issued, cache>> /\ req' = [req EXCEPT ![h] = Absent]
  BY DEF HangUp, Serving, tables
<1>. QED BY <1>1, HandlerEnds, QuietStep, SameEntries, SameRowStep, SameTurns

\* After a restart the ids are those of the rows.
LEMMA RestartIds ==
  ASSUME TypeInv, TypeInv', IdsInv, Restart
  PROVE  IdsInv' /\ \A c \in Chats : cache'[c] # Absent =>
                      \A k \in DOMAIN cache'[c] : \E i \in RowsOf(c) : cache'[c][k] = ReadBack(i)
<1>1. /\ UNCHANGED <<rows, issued>> /\ \A c \in Chats : turn'[c] = Absent /\ cache'[c] \in {Hydrated(c), Absent}
      /\ \A h \in Handlers : req'[h] = Absent
  BY DEF Restart, tables
<1>2. ASSUME NEW c \in Chats, cache'[c] # Absent, NEW k \in DOMAIN cache'[c]
      PROVE  \E i \in RowsOf(c) : cache'[c][k] = ReadBack(i)
  BY <1>1, <1>2, HydratedRows DEF TypeInv
<1>3. \A c \in Chats : \A i \in RowsOf(c) : i \in Ids /\ rows[i] # Absent /\ ReadBack(i).id = i
        /\ ReadBack(i).seq = rows[i].seq /\ ReadBack(i).text = rows[i].text
  BY DEF RowsOf, ReadBack
<1>4. \A i \in Ids : Known(i)' => rows[i] # Absent
  BY <1>1, <1>2, <1>3 DEF Known, Holders, Cached, Holds, Turning, Cut, Cutting
<1>5. IssuedOK'
  BY <1>1, <1>4 DEF IdsInv, IssuedOK
<1>6. EntriesOK'
  <2>1. SUFFICES ASSUME NEW c \in Chats, cache'[c] # Absent
                 PROVE  /\ \A k \in DOMAIN cache'[c] : rows'[cache'[c][k].id] # Absent =>
                             /\ rows'[cache'[c][k].id].seq = cache'[c][k].seq
                             /\ rows'[cache'[c][k].id].text = cache'[c][k].text
                        /\ \A k, l \in DOMAIN cache'[c] : cache'[c][k].id = cache'[c][l].id => k = l
    BY DEF EntriesOK, Cached
  <2>2. \A k \in DOMAIN cache'[c] : /\ rows'[cache'[c][k].id].seq = cache'[c][k].seq
                                    /\ rows'[cache'[c][k].id].text = cache'[c][k].text
    BY <1>1, <1>2, <1>3, <2>1
  <2>3. cache'[c] = Hydrated(c) /\ cache'[c] \in Seq(Prompt)
    BY <1>1, <2>1 DEF TypeInv, CacheOK
  <2>4. \A k, l \in DOMAIN cache'[c] : k < l => cache'[c][k].seq < cache'[c][l].seq
    BY <2>3, HydratedRows DEF TypeInv
  <2>5. ASSUME NEW k \in DOMAIN cache'[c], NEW l \in DOMAIN cache'[c], cache'[c][k].id = cache'[c][l].id
        PROVE  k = l
    <3>1. cache'[c][k].seq = cache'[c][l].seq
      BY <2>2, <2>5
    <3>2. cache'[c][k].seq \in Nat /\ k \in Nat /\ l \in Nat
      <4>1. cache'[c][k] \in Prompt /\ DOMAIN cache'[c] = 1..Len(cache'[c])
        BY <2>3
      <4>. QED BY <4>1 DEF Prompt
    <3>3. ~(k < l) /\ ~(l < k)
      BY <2>4, <3>1, <3>2
    <3>. QED BY <3>2, <3>3
  <2>. QED BY <2>2, <2>5
<1>7. IngestOK' /\ EventsOK'
  BY <1>1 DEF IngestOK, EventsOK, At, Copying
<1>. QED BY <1>2, <1>3, <1>5, <1>6, <1>7 DEF IdsInv

LEMMA InitIds == ParametersOK /\ Init => IdsInv
BY DEF Init, IdsInv, IssuedOK, EntriesOK, IngestOK, EventsOK, Known, Holders, Cached, Turning, Cut,
       Cutting, At, Copying, Ids

LEMMA NextIds == ASSUME TypeInv, TypeInv', IdsInv, [Next]_vars PROVE IdsInv'
<1>1. CASE \E c \in Chats : Create(c) \/ Send(c) \/ TurnStep(c) \/ Retry(c) \/ Revert(c) \/ HangUpTurn(c)
  BY <1>1, CreateIds, SendIds, InsertIds, IngestIds, StreamIds, FinishIds, ReadIds, WriteIds,
     ResetIds, RetryIds, RevertIds, HangUpTurnIds DEF TurnStep
<1>2. CASE \E h \in Handlers, c \in Chats, n \in Ids :
             Truncate(h, c, n) \/ \E t \in Chats : Fork(h, c, n, t)
  BY <1>2, TruncateIds, ForkIds
<1>3. CASE \E h \in Handlers, c \in Chats : Delete(h, c) \/ Restore(h, c)
  BY <1>3, DeleteIds
<1>4. CASE \E h \in Handlers : Serve(h) \/ HangUp(h)
  BY <1>4, DeletePromptIds, DeleteChatIds, EvictIds, ForkCreateIds, RekeyIds,
     ForkNumberIds, ForkInsertIds, ForkEventsIds, HangUpIds DEF Serve
<1>5. CASE Restart
  BY <1>5, RestartIds
<1>6. CASE UNCHANGED vars
  BY <1>6, QuietStep, SameEntries, SameRowStep, SameTurns, SameReqs DEF vars, tables
<1>. QED BY <1>1, <1>2, <1>3, <1>4, <1>5, <1>6 DEF Next

LEMMA BaseInvariance == Spec => [](TypeInv /\ IdsInv)
<1>. USE ParametersOK
<1>1. Init => TypeInv /\ IdsInv
  BY InitType, InitIds
<1>2. TypeInv /\ IdsInv /\ [Next]_vars => (TypeInv /\ IdsInv)'
  BY NextType, NextIds
<1>. QED BY <1>1, <1>2, PTL DEF Spec

\* Whatever requests, turns, failures and restarts do to each other, the
\* tables keep their keys: one row for a number of a chat, each under a chat
\* that has a row, although a copied prompt is written to by id later on.
THEOREM TypeCorrect == Spec => []TypeOK
BY BaseInvariance, TypeInvType, PTL

-----------------------------------------------------------------------------
\* The registry.  One request at a time decides whether a chat is listed, and
\* says what the cache and the table have of it meanwhile.

Governs(r, c) == /\ r # Absent /\ r.op # "truncate"
                 /\ r.chat = c \/ (r.op = "fork" /\ r.temp = c)

\* What request r leaves between two of its steps: whether c is cached, and
\* whether it is live in the table.
Fits(r, c, there, live) ==
  /\ r.op = "delete" /\ r.at = "row" => (there <=> live)
  /\ r.op = "delete" /\ r.at = "evict" => ~live
  /\ r.op = "restore" => live
  /\ r.op = "fork" /\ r.temp = c => ~live /\ (there <=> r.at \in {"create", "rekey"})
  /\ r.op = "fork" /\ r.temp # c => live /\ (there <=> r.at # "rekey")

Registered(c) ==
  c \notin clash =>
    /\ \A g, h \in Handlers : Governs(req[g], c) /\ Governs(req[h], c) => g = h
    /\ \A h \in Handlers : Governs(req[h], c) => Fits(req[h], c, cache[c] # Absent, chats[c] = "live")
    /\ (\A h \in Handlers : ~Governs(req[h], c)) => (cache[c] # Absent <=> chats[c] = "live")

\* The temporary id of a fork is its chat's until the chat has a row.
Named(r) == r # Absent /\ r.op = "fork" => (r.at = "create" <=> r.chat = r.temp)

RegInv == (\A h \in Handlers : Named(req[h])) /\ \A c \in Chats : Registered(c)

\* Chat c is listed in as many places as before.
SameListing(c) ==
  (c \in clash => c \in clash') /\ chats'[c] = chats[c] /\ (cache'[c] = Absent <=> cache[c] = Absent)

LEMMA RegQuiet ==
  ASSUME RegInv, req' = req, \A c \in Chats : SameListing(c) \/ c \in clash'
  PROVE  RegInv'
<1>1. ASSUME NEW c \in Chats PROVE Registered(c)'
  <2>1. CASE c \in clash'
    BY <2>1 DEF Registered
  <2>2. CASE SameListing(c)
    <3>1. c \notin clash' => c \notin clash /\ Registered(c)
      BY <2>2 DEF SameListing, RegInv
    <3>. QED BY <2>2, <3>1 DEF SameListing, Registered
  <2>. QED BY <2>1, <2>2
<1>. QED BY <1>1 DEF RegInv

\* Handler h goes over to q, which is a request or nothing.
LEMMA RegStep ==
  ASSUME TypeInv, RegInv, NEW h \in Handlers, NEW q, req' = [req EXCEPT ![h] = q], Named(q),
         \A c \in Chats :
           \/ c \in clash'
           \/ SameListing(c) /\ ~Governs(req[h], c) /\ ~Governs(q, c)
           \/ /\ \A g \in Handlers : g # h => ~Governs(req[g], c)
              /\ Governs(q, c) => Fits(q, c, cache'[c] # Absent, chats'[c] = "live")
              /\ ~Governs(q, c) => (cache'[c] # Absent <=> chats'[c] = "live")
  PROVE  RegInv'
<1>1. \A g \in Handlers : req'[g] = IF g = h THEN q ELSE req[g]
  BY DEF TypeInv, ReqOK
<1>2. ASSUME NEW c \in Chats PROVE Registered(c)'
  <2>1. CASE c \in clash'
    BY <2>1 DEF Registered
  <2>2. CASE SameListing(c) /\ ~Governs(req[h], c) /\ ~Governs(q, c)
    <3>1. c \notin clash' => c \notin clash /\ Registered(c)
      BY <2>2 DEF SameListing, RegInv
    <3>2. \A g \in Handlers : \/ req'[g] = req[g] /\ g # h
                              \/ ~Governs(req'[g], c) /\ ~Governs(req[g], c)
      BY <1>1, <2>2
    <3>. QED BY <2>2, <3>1, <3>2 DEF SameListing, Registered
  <2>3. CASE /\ \A g \in Handlers : g # h => ~Governs(req[g], c)
             /\ Governs(q, c) => Fits(q, c, cache'[c] # Absent, chats'[c] = "live")
             /\ ~Governs(q, c) => (cache'[c] # Absent <=> chats'[c] = "live")
    <3>1. req'[h] = q /\ \A g \in Handlers : g # h => ~Governs(req'[g], c)
      BY <1>1, <2>3
    <3>. QED BY <2>3, <3>1 DEF Registered
  <2>. QED BY <2>1, <2>2, <2>3
<1>3. \A g \in Handlers : Named(req'[g])
  BY <1>1 DEF RegInv
<1>. QED BY <1>2, <1>3 DEF RegInv

\* Whoever decides about a chat that is not in clash is alone.
LEMMA GovernsAlone ==
  ASSUME RegInv, NEW h \in Handlers, NEW c \in Chats, c \notin clash, Governs(req[h], c)
  PROVE  /\ \A g \in Handlers : g # h => ~Governs(req[g], c)
         /\ Fits(req[h], c, cache[c] # Absent, chats[c] = "live")
BY DEF RegInv, Registered

LEMMA LastingListed ==
  ASSUME NEW c \in Chats, NEW i, Lasting(c, i), UNCHANGED <<chats, clash>>
  PROVE  \A d \in Chats : SameListing(d)
BY AbsentIsNothing DEF Lasting, SameListing

LEMMA NobodyOn ==
  ASSUME NEW c \in Unused PROVE /\ cache[c] = Absent /\ chats[c] = "none"
                                /\ \A g \in Handlers : ~Governs(req[g], c)
BY DEF Unused, Settled, On, Governs

LEMMA CreateReg == ASSUME TypeInv, RegInv, NEW c \in Chats, Create(c) PROVE RegInv'
<1>1. /\ c \in Unused /\ req' = req /\ chats'[c] = "live"
      /\ \A d \in Chats : d # c => chats'[d] = chats[d]
  BY DEF Create, TypeInv, RowsOK
<1>2. CASE /\ cache' = [cache EXCEPT ![c] = <<>>] /\ clash' = clash \ {c}
  <2>1. cache'[c] # Absent /\ \A d \in Chats : d # c => cache'[d] = cache[d]
    <3>1. cache'[c] = <<>> /\ <<>> \in Seq(Prompt)
      BY <1>2 DEF TypeInv, CacheOK
    <3>. QED BY <1>2, <3>1, AbsentIsNothing DEF TypeInv, CacheOK
  <2>2. ASSUME NEW d \in Chats, d # c, d \notin clash' PROVE SameListing(d) /\ Registered(d)
    BY <1>1, <1>2, <2>1, <2>2 DEF SameListing, RegInv
  <2>3. \A d \in Chats : Registered(d)'
    <3>1. Registered(c)'
      BY <1>1, <2>1, NobodyOn DEF Registered
    <3>2. ASSUME NEW d \in Chats, d # c PROVE Registered(d)'
      BY <1>1, <2>2, <3>2 DEF SameListing, Registered
    <3>. QED BY <3>1, <3>2
  <2>. QED BY <1>1, <2>3 DEF RegInv
<1>3. CASE clash' = clash \cup {c} /\ cache' = cache
  BY <1>1, <1>3, RegQuiet DEF SameListing
<1>. QED BY <1>2, <1>3 DEF Create

LEMMA AppendListed ==
  ASSUME TypeInv, NEW c \in Chats, cache[c] # Absent, NEW e \in Prompt,
         cache' = [cache EXCEPT ![c] = Append(cache[c], e)], UNCHANGED <<chats, clash>>
  PROVE  \A d \in Chats : SameListing(d)
<1>1. cache'[c] = Append(cache[c], e) /\ \A d \in Chats : d # c => cache'[d] = cache[d]
  BY DEF TypeInv, CacheOK
<1>2. cache[c] \in Seq(Prompt)
  BY DEF TypeInv, CacheOK
<1>3. Append(cache[c], e) \in Seq(Prompt)
  BY <1>2
<1>. QED BY <1>1, <1>3, AbsentIsNothing DEF SameListing

LEMMA IngestReg == ASSUME TypeInv, RegInv, NEW c \in Chats, Ingest(c) PROVE RegInv'
<1>. DEFINE e == [id |-> turn[c].id, text |-> turn[c].id, seq |-> turn[c].seq, ev |-> 0]
<1>1. UNCHANGED <<chats, req, clash>>
  BY DEF Ingest, Turns, Ends, Goes, tables, Kept
<1>2. CASE cache' = cache
  BY <1>1, <1>2, RegQuiet DEF SameListing
<1>3. CASE cache[c] # Absent /\ cache' = [cache EXCEPT ![c] = Append(@, e)]
  <2>1. turn[c] \in Turn /\ turn[c].id \in Ids
    BY DEF Ingest, At, TypeInv, TurnOK
  <2>2. e \in Prompt
    BY <2>1, ParametersOK DEF Prompt, Turn
  <2>3. cache' = [cache EXCEPT ![c] = Append(cache[c], e)]
    BY <1>3
  <2>. HIDE DEF e
  <2>. QED BY <1>1, <1>3, <2>2, <2>3, AppendListed, RegQuiet
<1>. QED BY <1>2, <1>3 DEF Ingest

LEMMA RevertReg == ASSUME TypeInv, RegInv, NEW c \in Chats, Revert(c) PROVE RegInv'
<1>. DEFINE e == [id |-> issued', text |-> issued', seq |-> Len(cache[c]) + 1, ev |-> 0]
<1>1. UNCHANGED <<chats, req, clash>> /\ cache[c] # Absent /\ cache' = [cache EXCEPT ![c] = Append(cache[c], e)]
  BY DEF Revert, tables
<1>2. e \in Prompt
  <2>1. issued' \in Ids
    BY IssueType DEF Revert, TypeInv
  <2>2. cache[c] \in Seq(Prompt)
    BY <1>1 DEF TypeInv, CacheOK
  <2>3. Len(cache[c]) + 1 \in Nat
    BY <2>2
  <2>. QED BY <2>1, <2>3, ParametersOK DEF Prompt
<1>. HIDE DEF e
<1>. QED BY <1>1, <1>2, AppendListed, RegQuiet

LEMMA TurnReg ==
  ASSUME TypeInv, IdsInv, RegInv, NEW c \in Chats, Send(c) \/ TurnStep(c) \/ Retry(c) \/ HangUpTurn(c)
  PROVE  RegInv'
<1>1. CASE Send(c) \/ Insert(c) \/ Read(c) \/ Write(c)
  <2>1. UNCHANGED <<chats, cache, req, clash>>
    BY <1>1 DEF Send, Insert, Read, Write, Turns, Ends, After, Goes, tables
  <2>. QED BY <2>1, RegQuiet DEF SameListing
<1>2. CASE Stream(c) \/ Finish(c)
  <2>1. /\ UNCHANGED <<chats, req, clash>> /\ cache' = Appended(c, turn[c].id)
        /\ turn[c] # Absent /\ turn[c].at # "insert"
    BY <1>2 DEF Stream, Finish, Turns, tables, Kept, At
  <2>2. turn[c].id \in Ids
    BY <2>1 DEF TypeInv, TurnOK
  <2>. QED BY <2>1, <2>2, AppendedLasts, LastingListed, RegQuiet DEF TypeInv
<1>3. CASE Reset(c) \/ Retry(c)
  <2>1. /\ UNCHANGED <<chats, req, clash>>
        /\ cache' = cache \/ (cache[c] \notin {Absent, <<>>} /\ cache' = LastReset(c))
    BY <1>3 DEF Reset, Retry, Turns, Ends, tables, Kept
  <2>2. CASE cache' = cache
    BY <2>1, <2>2, RegQuiet DEF SameListing
  <2>3. CASE cache[c] \notin {Absent, <<>>} /\ cache' = LastReset(c)
    <3>1. Lasting(c, Last(cache[c]).id)
      BY <2>3, ResetLasts DEF TypeInv, IdsInv, EntriesOK, Cached
    <3>. QED BY <2>1, <3>1, LastingListed, RegQuiet
  <2>. QED BY <2>1, <2>2, <2>3
<1>4. CASE HangUpTurn(c)
  <2>1. UNCHANGED <<chats, cache, req, clash>>
    BY <1>4 DEF HangUpTurn, Turns, Ends, tables
  <2>. QED BY <2>1, RegQuiet DEF SameListing
<1>. QED BY <1>1, <1>2, <1>3, <1>4, IngestReg DEF TurnStep

LEMMA TruncateReg ==
  ASSUME TypeInv, RegInv, NEW h \in Handlers, NEW c \in Chats, NEW n \in Ids, Truncate(h, c, n)
  PROVE  RegInv'
<1>. DEFINE kept == Picked(cache[c], {k \in DOMAIN cache[c] : cache[c][k].seq < n})
            cut == Picked(cache[c], {k \in DOMAIN cache[c] : cache[c][k].seq >= n})
            q == [op |-> "truncate", at |-> "rows", chat |-> c, todo |-> [k \in DOMAIN cut |-> cut[k].id]]
<1>1. /\ UNCHANGED <<chats, clash>> /\ cache[c] # Absent /\ req[h] = Absent
      /\ req' = [req EXCEPT ![h] = q] /\ cache' = [cache EXCEPT ![c] = kept]
  BY DEF Truncate, Begin, Cached, tables
<1>2. kept # Absent
  <2>1. cache[c] \in Seq(Prompt)
    BY <1>1 DEF TypeInv, CacheOK
  <2>2. kept \in Seq(Prompt)
    BY <2>1, PickedFrom
  <2>. QED BY <2>2, AbsentIsNothing
<1>3. q.op = "truncate"
  OBVIOUS
<1>. HIDE DEF kept, cut, q
<1>4. \A d \in Chats : SameListing(d) /\ ~Governs(req[h], d) /\ ~Governs(q, d)
  BY <1>1, <1>2, <1>3 DEF SameListing, Governs, TypeInv, CacheOK
<1>5. Named(q)
  BY <1>3 DEF Named
<1>. QED BY <1>1, <1>4, <1>5, RegStep

LEMMA DeletePromptReg == ASSUME TypeInv, RegInv, NEW h \in Handlers, DeletePrompt(h) PROVE RegInv'
<1>. DEFINE q == IF Len(req[h].todo) = 1 THEN Absent ELSE [req[h] EXCEPT !.todo = Tail(req[h].todo)]
<1>1. /\ req[h] # Absent /\ req[h].op = "truncate" /\ req[h] \in Request
      /\ UNCHANGED <<chats, cache, clash>>
  BY ServedType DEF DeletePrompt, Serves, TypeInv
<1>2. req' = [req EXCEPT ![h] = q]
  BY DEF DeletePrompt, Serving
<1>3. q = Absent \/ q.op = "truncate"
  BY <1>1 DEF Request
<1>. HIDE DEF q
<1>4. \A d \in Chats : SameListing(d) /\ ~Governs(req[h], d) /\ ~Governs(q, d)
  BY <1>1, <1>3 DEF SameListing, Governs
<1>5. Named(q)
  BY <1>3 DEF Named
<1>. QED BY <1>2, <1>4, <1>5, RegStep

LEMMA DeleteReg ==
  ASSUME TypeInv, RegInv, NEW h \in Handlers, NEW c \in Chats, Delete(h, c) \/ Restore(h, c)
  PROVE  RegInv'
<1>. DEFINE q == IF Delete(h, c) THEN [op |-> "delete", at |-> "row", chat |-> c]
                 ELSE [op |-> "restore", at |-> "ingest", chat |-> c]
<1>1. /\ req[h] = Absent /\ req' = [req EXCEPT ![h] = q] /\ cache' = cache /\ Registers(c)
      /\ \A d \in Chats : d # c => chats'[d] = chats[d]
      /\ Delete(h, c) => chats' = chats
      /\ ~Delete(h, c) => chats'[c] = "live"
  BY DEF Delete, Restore, Begin, tables, TypeInv, RowsOK
<1>2. /\ q.chat = c /\ q.op \in {"delete", "restore"}
      /\ Delete(h, c) => q.op = "delete" /\ q.at = "row"
      /\ ~Delete(h, c) => q.op = "restore"
  OBVIOUS
<1>. HIDE DEF q
<1>3. Named(q) /\ \A d \in Chats : ~Governs(req[h], d) /\ (Governs(q, d) => d = c)
  BY <1>1, <1>2 DEF Named, Governs
<1>4. c \in clash' \/ (c \notin clash /\ \A g \in Handlers : ~Governs(req[g], c))
  <2>1. ASSUME NEW g \in Handlers, Governs(req[g], c) PROVE Contested(c) \/ Forking(c)
    <3>1. req[g] \in Request /\ req[g].op \in {"fork", "delete", "restore"}
      BY <2>1 DEF Governs, TypeInv, ReqOK, Request
    <3>2. g \in On(c)
      BY <2>1 DEF Governs, On
    <3>. QED BY <3>1, <3>2 DEF Contested, Forking
  <2>. QED BY <1>1, <2>1 DEF Registers
<1>5. \A d \in Chats : d # c => SameListing(d)
  BY <1>1 DEF SameListing, Registers
<1>6. c \notin clash' => Fits(q, c, cache'[c] # Absent, chats'[c] = "live")
  <2>1. c \notin clash' => (cache[c] # Absent <=> chats[c] = "live")
    BY <1>4 DEF RegInv, Registered
  <2>. QED BY <1>1, <1>2, <2>1 DEF Fits
<1>7. Governs(q, c)
  <2>1. q # Absent
    <3>1. q \in Request
      <4>1. \/ q = [op |-> "delete", at |-> "row", chat |-> c]
            \/ q = [op |-> "restore", at |-> "ingest", chat |-> c]
        BY DEF q
      <4>. QED BY <4>1 DEF Request
    <3>. QED BY <3>1, AbsentIsNothing
  <2>. QED BY <1>2, <2>1 DEF Governs
<1>8. \A d \in Chats :
        \/ d \in clash'
        \/ SameListing(d) /\ ~Governs(req[h], d) /\ ~Governs(q, d)
        \/ /\ \A g \in Handlers : g # h => ~Governs(req[g], d)
           /\ Governs(q, d) => Fits(q, d, cache'[d] # Absent, chats'[d] = "live")
           /\ ~Governs(q, d) => (cache'[d] # Absent <=> chats'[d] = "live")
  BY <1>3, <1>4, <1>5, <1>6, <1>7
<1>. QED BY <1>1, <1>3, <1>8, RegStep

LEMMA DeleteChatReg == ASSUME TypeInv, RegInv, NEW h \in Handlers, DeleteChat(h) PROVE RegInv'
<1>. DEFINE r == req[h]
            c == r.chat
            q == [r EXCEPT !.at = "evict"]
<1>1. r # Absent /\ r.op = "delete" /\ r.at = "row" /\ r \in Request /\ c \in Chats
  BY ServedType DEF DeleteChat, Serves, TypeInv
<1>2. /\ req' = [req EXCEPT ![h] = q] /\ cache' = cache /\ clash' = clash
      /\ chats' = [chats EXCEPT ![c] = IF @ = "live" THEN "removed" ELSE @]
  BY DEF DeleteChat, Serving, Kept
<1>3. q.op = "delete" /\ q.at = "evict" /\ q.chat = c /\ q \in Request
  BY <1>1 DEF Request
<1>4. chats'[c] # "live" /\ \A d \in Chats : d # c => chats'[d] = chats[d]
  BY <1>1, <1>2 DEF TypeInv, RowsOK
<1>. HIDE DEF q
<1>5. /\ Named(q) /\ Governs(q, c) /\ Governs(r, c)
      /\ \A d \in Chats : d # c => ~Governs(q, d) /\ ~Governs(r, d)
  BY <1>1, <1>3, AbsentIsNothing DEF Named, Governs
<1>6. Fits(q, c, cache'[c] # Absent, chats'[c] = "live")
  BY <1>3, <1>4 DEF Fits
<1>7. \A d \in Chats : d # c => SameListing(d)
  BY <1>2, <1>4 DEF SameListing
<1>8. c \in clash' \/ \A g \in Handlers : g # h => ~Governs(req[g], c)
  BY <1>1, <1>2, <1>5, GovernsAlone
<1>9. \A d \in Chats :
      \/ d \in clash'
      \/ SameListing(d) /\ ~Governs(req[h], d) /\ ~Governs(q, d)
      \/ /\ \A g \in Handlers : g # h => ~Governs(req[g], d)
         /\ Governs(q, d) => Fits(q, d, cache'[d] # Absent, chats'[d] = "live")
         /\ ~Governs(q, d) => (cache'[d] # Absent <=> chats'[d] = "live")
  BY <1>5, <1>6, <1>7, <1>8
<1>. QED BY <1>2, <1>5, <1>9, RegStep

\* The last step of a request.
LEMMA RegEnds ==
  ASSUME TypeInv, RegInv, NEW h \in Handlers, req[h] # Absent, req' = [req EXCEPT ![h] = Absent],
         \A c \in Chats : ~Governs(req[h], c) => SameListing(c),
         \A c \in Chats : Governs(req[h], c) =>
           \/ c \in clash'
           \/ c \notin clash /\ (cache'[c] # Absent <=> chats'[c] = "live")
  PROVE  RegInv'
<1>1. \A c \in Chats : ~Governs(Absent, c) /\ Named(Absent)
  BY DEF Governs, Named
<1>2. \A c \in Chats : Governs(req[h], c) /\ c \notin clash => \A g \in Handlers : g # h => ~Governs(req[g], c)
  BY GovernsAlone
<1>3. Named(Absent)
  BY DEF Named
<1>. QED BY <1>1, <1>2, <1>3, RegStep

LEMMA EvictReg ==
  ASSUME TypeInv, RegInv, NEW h \in Handlers, Evict(h) \/ IngestChat(h) PROVE RegInv'
<1>. DEFINE r == req[h]
            c == r.chat
<1>1. /\ r # Absent /\ r \in Request /\ c \in Chats
      /\ \/ Evict(h) /\ r.op = "delete" /\ r.at = "evict"
         \/ IngestChat(h) /\ r.op = "restore"
  BY ServedType DEF Evict, IngestChat, Serves, TypeInv
<1>2. /\ req' = [req EXCEPT ![h] = Absent] /\ chats' = chats /\ clash' = clash
      /\ Evict(h) => cache' = [cache EXCEPT ![c] = Absent]
      /\ IngestChat(h) => cache' = [cache EXCEPT ![c] = <<>>]
  BY DEF Evict, IngestChat, Serving, Kept, tables
<1>3. Governs(r, c) /\ \A d \in Chats : d # c => ~Governs(r, d)
  BY <1>1 DEF Governs
<1>4. \A d \in Chats : d # c => SameListing(d)
  BY <1>1, <1>2 DEF SameListing, TypeInv, CacheOK
<1>5. c \notin clash => (cache'[c] # Absent <=> chats'[c] = "live")
  <2>1. c \notin clash => Fits(r, c, cache[c] # Absent, chats[c] = "live")
    BY <1>1, <1>3, GovernsAlone
  <2>2. Evict(h) => cache'[c] = Absent
    BY <1>1, <1>2 DEF TypeInv, CacheOK
  <2>3. IngestChat(h) => cache'[c] # Absent
    <3>1. <<>> \in Seq(Prompt)
      OBVIOUS
    <3>. QED BY <1>1, <1>2, <3>1, AbsentIsNothing DEF TypeInv, CacheOK
  <2>. QED BY <1>1, <1>2, <2>1, <2>2, <2>3 DEF Fits
<1>. QED BY <1>1, <1>2, <1>3, <1>4, <1>5, RegEnds

LEMMA ForkReg ==
  ASSUME TypeInv, RegInv,
         NEW h \in Handlers, NEW c \in Chats, NEW n \in Ids, NEW t \in Chats, Fork(h, c, n, t)
  PROVE  RegInv'
<1>. DEFINE prefix == Picked(cache[c], {k \in DOMAIN cache[c] : cache[c][k].seq <= n})
            q == [op |-> "fork", at |-> "create", chat |-> t, temp |-> t,
                  todo |-> prefix, seq |-> 0, id |-> 0]
<1>1. /\ chats' = chats /\ clash' = clash \ {t} /\ cache[c] # Absent /\ req[h] = Absent /\ t \in Unused
      /\ req' = [req EXCEPT ![h] = q] /\ cache' = [cache EXCEPT ![t] = prefix]
  BY DEF Fork, Begin, Cached, tables
<1>2. prefix \in Seq(Prompt) /\ prefix # Absent
  <2>1. cache[c] \in Seq(Prompt)
    BY <1>1 DEF TypeInv, CacheOK
  <2>2. prefix \in Seq(Prompt)
    BY <2>1, PickedFrom
  <2>. QED BY <2>2, AbsentIsNothing
<1>. HIDE DEF prefix
<1>3. q.op = "fork" /\ q.at = "create" /\ q.chat = t /\ q.temp = t /\ q \in Request
  BY <1>2 DEF Request
<1>. HIDE DEF q
<1>4. Named(q) /\ \A d \in Chats : ~Governs(req[h], d) /\ (d # t => ~Governs(q, d))
  BY <1>1, <1>3 DEF Named, Governs
<1>5. \A d \in Chats : d # t => SameListing(d) \/ d \in clash'
  BY <1>1 DEF SameListing, TypeInv, CacheOK
<1>6. /\ \A g \in Handlers : ~Governs(req[g], t)
      /\ chats'[t] = "none" /\ cache'[t] # Absent
  BY <1>1, <1>2, NobodyOn DEF TypeInv, CacheOK
<1>7. Fits(q, t, cache'[t] # Absent, chats'[t] = "live")
  BY <1>3, <1>6 DEF Fits
<1>8. Governs(q, t)
  BY <1>3, AbsentIsNothing DEF Governs
<1>9. \A d \in Chats :
      \/ d \in clash'
      \/ SameListing(d) /\ ~Governs(req[h], d) /\ ~Governs(q, d)
      \/ /\ \A g \in Handlers : g # h => ~Governs(req[g], d)
         /\ Governs(q, d) => Fits(q, d, cache'[d] # Absent, chats'[d] = "live")
         /\ ~Governs(q, d) => (cache'[d] # Absent <=> chats'[d] = "live")
  BY <1>4, <1>5, <1>6, <1>7, <1>8
<1>. QED BY <1>1, <1>4, <1>9, RegStep

LEMMA ForkCreateReg ==
  ASSUME TypeInv, RegInv, NEW h \in Handlers, NEW f \in Chats, ForkCreate(h, f) PROVE RegInv'
<1>. DEFINE r == req[h]
            t == r.temp
            q == [r EXCEPT !.at = "rekey", !.chat = f]
<1>1. /\ r # Absent /\ r.op = "fork" /\ r.at = "create" /\ r \in Request /\ r.chat \in Chats
      /\ t \in Chats /\ r.chat = t /\ f \in Unused /\ f # t
  <2>1. r # Absent /\ r.op = "fork" /\ r.at = "create" /\ r \in Request /\ r.chat \in Chats /\ t \in Chats
    BY ServedType DEF ForkCreate, Serves, TypeInv
  <2>2. r.chat = t
    BY <2>1 DEF RegInv, Named
  <2>3. f # t
    BY <2>1, NobodyOn DEF ForkCreate, Governs
  <2>. QED BY <2>1, <2>2, <2>3 DEF ForkCreate
<1>2. cache' = cache /\ \A d \in Chats : d # t => ~Governs(r, d)
  BY <1>1 DEF ForkCreate, Governs
<1>3. CASE /\ chats' = [chats EXCEPT ![f] = "live"]
           /\ Serving(h, q) /\ odd' = odd \ {f} /\ clash' = clash \ {f} /\ UNCHANGED spent
  <2>1. q.op = "fork" /\ q.at = "rekey" /\ q.chat = f /\ q.temp = t /\ q \in Request
    BY <1>1 DEF Request
  <2>. HIDE DEF q
  <2>2. Named(q) /\ Governs(q, f) /\ Governs(q, t) /\ \A d \in Chats : d \notin {f, t} => ~Governs(q, d)
    BY <1>1, <2>1, AbsentIsNothing DEF Named, Governs
  <2>3. \A d \in Chats : d # f => SameListing(d)
    BY <1>1, <1>2, <1>3 DEF SameListing, TypeInv, RowsOK
  <2>4. /\ \A g \in Handlers : ~Governs(req[g], f)
        /\ Fits(q, f, cache'[f] # Absent, chats'[f] = "live")
    <3>1. chats'[f] = "live" /\ cache'[f] = Absent
      BY <1>1, <1>2, <1>3, NobodyOn DEF TypeInv, RowsOK
    <3>. QED BY <1>1, <2>1, <3>1, NobodyOn DEF Fits
  <2>5. \/ t \in clash'
        \/ /\ \A g \in Handlers : g # h => ~Governs(req[g], t)
           /\ Fits(q, t, cache'[t] # Absent, chats'[t] = "live")
    <3>1. CASE t \notin clash
      <4>1. Governs(r, t)
        BY <1>1 DEF Governs
      <4>2. /\ \A g \in Handlers : g # h => ~Governs(req[g], t)
            /\ Fits(r, t, cache[t] # Absent, chats[t] = "live")
        BY <1>1, <3>1, <4>1, GovernsAlone
      <4>3. chats'[t] = chats[t] /\ cache'[t] = cache[t]
        BY <1>1, <1>2, <1>3 DEF TypeInv, RowsOK
      <4>4. Fits(q, t, cache[t] # Absent, chats[t] = "live")
        BY <1>1, <2>1, <4>2 DEF Fits
      <4>. QED BY <4>2, <4>3, <4>4
    <3>2. CASE t \in clash
      BY <1>1, <1>3, <3>2
    <3>. QED BY <3>1, <3>2
  <2>6. req' = [req EXCEPT ![h] = q]
    BY <1>3 DEF Serving
  <2>7. \A d \in Chats :
        \/ d \in clash'
        \/ SameListing(d) /\ ~Governs(req[h], d) /\ ~Governs(q, d)
        \/ /\ \A g \in Handlers : g # h => ~Governs(req[g], d)
           /\ Governs(q, d) => Fits(q, d, cache'[d] # Absent, chats'[d] = "live")
           /\ ~Governs(q, d) => (cache'[d] # Absent <=> chats'[d] = "live")
    BY <1>2, <2>2, <2>3, <2>4, <2>5
  <2>. QED BY <2>2, <2>6, <2>7, RegStep
<1>4. CASE /\ Fault /\ Serving(h, Absent) /\ UNCHANGED chats
           /\ odd' = odd \cup {t} /\ clash' = clash \cup {t}
  <2>1. req' = [req EXCEPT ![h] = Absent] /\ \A d \in Chats : SameListing(d)
    BY <1>2, <1>4 DEF Serving, SameListing
  <2>. QED BY <1>1, <1>2, <1>4, <2>1, RegEnds
<1>. QED BY <1>3, <1>4 DEF ForkCreate

LEMMA RekeyReg == ASSUME TypeInv, RegInv, NEW h \in Handlers, Rekey(h) PROVE RegInv'
<1>. DEFINE r == req[h]
            f == r.chat
            t == r.temp
            q == [r EXCEPT !.at = "max"]
<1>1. /\ r # Absent /\ r.op = "fork" /\ r.at = "rekey" /\ r \in Request
      /\ f \in Chats /\ t \in Chats /\ f # t
  BY ServedType DEF Rekey, Serves, TypeInv, RegInv, Named
<1>2. /\ req' = [req EXCEPT ![h] = q] /\ chats' = chats
      /\ clash' = IF cache[t] = Absent \/ t \in clash THEN clash \cup {f} ELSE clash
      /\ cache' = IF cache[t] = Absent THEN cache
                  ELSE [cache EXCEPT ![f] = cache[t], ![t] = Absent]
  BY DEF Rekey, Serving, tables
<1>3. q.op = "fork" /\ q.at = "max" /\ q.chat = f /\ q.temp = t /\ q \in Request
  BY <1>1 DEF Request
<1>. HIDE DEF q
<1>4. /\ Named(q) /\ Governs(q, f) /\ Governs(q, t) /\ Governs(r, f) /\ Governs(r, t)
      /\ \A d \in Chats : d \notin {f, t} => ~Governs(q, d) /\ ~Governs(r, d)
  BY <1>1, <1>3, AbsentIsNothing DEF Named, Governs
<1>5. \A d \in Chats : d \notin {f, t} => SameListing(d)
  BY <1>1, <1>2 DEF SameListing, TypeInv, CacheOK
<1>6. ASSUME NEW d \in {f, t}, d \notin clash'
      PROVE  /\ d \notin clash /\ d \in Chats
             /\ \A g \in Handlers : g # h => ~Governs(req[g], d)
             /\ Fits(r, d, cache[d] # Absent, chats[d] = "live")
  BY <1>1, <1>2, <1>4, <1>6, GovernsAlone
<1>7. t \notin clash' => Fits(q, t, cache'[t] # Absent, chats'[t] = "live")
  <2>1. SUFFICES ASSUME t \notin clash' PROVE Fits(q, t, cache'[t] # Absent, chats'[t] = "live")
    OBVIOUS
  <2>2. chats[t] # "live" /\ cache[t] # Absent
    BY <1>1, <1>6, <2>1 DEF Fits
  <2>3. cache'[t] = Absent
    BY <1>1, <1>2, <2>2 DEF TypeInv, CacheOK
  <2>. QED BY <1>2, <1>3, <2>2, <2>3 DEF Fits
<1>8. f \notin clash' => Fits(q, f, cache'[f] # Absent, chats'[f] = "live")
  <2>1. SUFFICES ASSUME f \notin clash' PROVE Fits(q, f, cache'[f] # Absent, chats'[f] = "live")
    OBVIOUS
  <2>2. chats[f] = "live" /\ cache[t] # Absent
    BY <1>1, <1>2, <1>6, <2>1 DEF Fits
  <2>3. cache'[f] = cache[t]
    BY <1>1, <1>2, <2>2 DEF TypeInv, CacheOK
  <2>. QED BY <1>1, <1>2, <1>3, <2>2, <2>3 DEF Fits
<1>9. \A d \in Chats :
        \/ d \in clash'
        \/ SameListing(d) /\ ~Governs(req[h], d) /\ ~Governs(q, d)
        \/ /\ \A g \in Handlers : g # h => ~Governs(req[g], d)
           /\ Governs(q, d) => Fits(q, d, cache'[d] # Absent, chats'[d] = "live")
           /\ ~Governs(q, d) => (cache'[d] # Absent <=> chats'[d] = "live")
  BY <1>4, <1>5, <1>6, <1>7, <1>8
<1>. QED BY <1>2, <1>4, <1>9, RegStep

\* A fork goes on with its copying, or is done with it.
LEMMA CopyingReg ==
  ASSUME TypeInv, RegInv, NEW h \in Handlers, Copying(h), req[h].at \in {"max", "insert", "events"},
         UNCHANGED <<chats, cache, clash>>, NEW q, req' = [req EXCEPT ![h] = q],
         q # Absent => /\ q.op = "fork" /\ q.at \in {"max", "insert", "events"}
                       /\ q.chat = req[h].chat /\ q.temp = req[h].temp
  PROVE  RegInv'
<1>. DEFINE r == req[h]
            f == r.chat
            t == r.temp
<1>1. /\ r # Absent /\ r.op = "fork" /\ f \in Chats /\ t \in Chats /\ f # t
  BY ServedType DEF Copying, TypeInv, RegInv, Named
<1>2. \A d \in Chats : Governs(r, d) <=> d \in {f, t}
  BY <1>1 DEF Governs
<1>3. \A d \in Chats : SameListing(d)
  BY DEF SameListing
<1>4. ASSUME NEW d \in {f, t}, d \notin clash
      PROVE  /\ d \in Chats /\ \A g \in Handlers : g # h => ~Governs(req[g], d)
             /\ Fits(r, d, cache[d] # Absent, chats[d] = "live")
  BY <1>1, <1>2, <1>4, GovernsAlone
<1>5. CASE q = Absent
  <2>1. \A d \in {f, t} : d \notin clash => (cache[d] # Absent <=> chats[d] = "live")
    BY <1>1, <1>4 DEF Fits
  <2>. QED BY <1>1, <1>2, <1>3, <1>5, <2>1, RegEnds
<1>6. CASE q # Absent
  <2>1. Named(q) /\ \A d \in Chats : Governs(q, d) <=> d \in {f, t}
    BY <1>1, <1>6 DEF Governs, Named
  <2>2. \A d \in {f, t} : d \notin clash => Fits(q, d, cache[d] # Absent, chats[d] = "live")
    BY <1>1, <1>4, <1>6 DEF Fits
  <2>. QED BY <1>2, <1>3, <1>4, <2>1, <2>2, RegStep
<1>. QED BY <1>5, <1>6

LEMMA CopyReg ==
  ASSUME TypeInv, RegInv, NEW h \in Handlers, ForkNumber(h) \/ ForkInsert(h) \/ ForkEvents(h)
  PROVE  RegInv'
<1>. DEFINE r == req[h]
            numbered == [r EXCEPT !.at = "insert", !.seq = NextSeq(r.chat)]
            inserted == [r EXCEPT !.at = "events", !.id = issued']
            copied   == IF Len(r.todo) = 1 THEN Absent ELSE [r EXCEPT !.at = "max", !.todo = Tail(r.todo)]
<1>1. /\ Copying(h) /\ r.at \in {"max", "insert", "events"} /\ UNCHANGED <<chats, cache, clash>>
      /\ r \in Request
  BY DEF ForkNumber, ForkInsert, ForkEvents, Serves, Copying, tables, Kept, TypeInv, ReqOK
<1>2. \/ req' = [req EXCEPT ![h] = numbered]
      \/ req' = [req EXCEPT ![h] = inserted]
      \/ req' = [req EXCEPT ![h] = copied]
  BY DEF ForkNumber, ForkInsert, ForkEvents, Copied, Serving
<1>3. /\ numbered.op = "fork" /\ numbered.at = "insert" /\ numbered.chat = r.chat /\ numbered.temp = r.temp
      /\ inserted.op = "fork" /\ inserted.at = "events" /\ inserted.chat = r.chat /\ inserted.temp = r.temp
      /\ copied # Absent => /\ copied.op = "fork" /\ copied.at = "max"
                            /\ copied.chat = r.chat /\ copied.temp = r.temp
  BY <1>1 DEF Copying, Request
<1>. HIDE DEF numbered, inserted, copied
<1>. QED BY <1>1, <1>2, <1>3, CopyingReg

LEMMA HangUpReg == ASSUME TypeInv, RegInv, NEW h \in Handlers, HangUp(h) PROVE RegInv'
<1>1. /\ req[h] # Absent /\ req' = [req EXCEPT ![h] = Absent] /\ UNCHANGED <<chats, cache>>
      /\ clash' = clash \cup {c \in Chats : h \in On(c)}
  BY DEF HangUp, Serving, tables
<1>2. \A c \in Chats : Governs(req[h], c) => c \in clash'
  BY <1>1 DEF Governs, On
<1>3. \A c \in Chats : SameListing(c)
  BY <1>1 DEF SameListing
<1>. QED BY <1>1, <1>2, <1>3, RegEnds

LEMMA RestartReg == ASSUME TypeInv, RegInv, Restart PROVE RegInv'
<1>1. /\ \A h \in Handlers : req'[h] = Absent
      /\ \A c \in Chats : chats'[c] = chats[c] /\ cache'[c] = IF chats[c] = "live" THEN Hydrated(c) ELSE Absent
  BY DEF Restart, tables
<1>2. \A c \in Chats : Hydrated(c) # Absent
  BY HydratedRows, AbsentIsNothing DEF TypeInv
<1>. QED BY <1>1, <1>2 DEF RegInv, Named, Registered, Governs

LEMMA NextReg == ASSUME TypeInv, IdsInv, RegInv, [Next]_vars PROVE RegInv'
<1>1. CASE \E c \in Chats : Create(c) \/ Send(c) \/ TurnStep(c) \/ Retry(c) \/ Revert(c) \/ HangUpTurn(c)
  BY <1>1, CreateReg, TurnReg, RevertReg
<1>2. CASE \E h \in Handlers, c \in Chats, n \in Ids :
             Truncate(h, c, n) \/ \E t \in Chats : Fork(h, c, n, t)
  BY <1>2, TruncateReg, ForkReg
<1>3. CASE \E h \in Handlers, c \in Chats : Delete(h, c) \/ Restore(h, c)
  BY <1>3, DeleteReg
<1>4. CASE \E h \in Handlers : Serve(h) \/ HangUp(h)
  BY <1>4, DeletePromptReg, DeleteChatReg, EvictReg, ForkCreateReg, RekeyReg, CopyReg, HangUpReg DEF Serve
<1>5. CASE Restart
  BY <1>5, RestartReg
<1>6. CASE UNCHANGED vars
  BY <1>6, RegQuiet DEF vars, SameListing
<1>. QED BY <1>1, <1>2, <1>3, <1>4, <1>5, <1>6 DEF Next

\* The list of chats agrees with the table: a deletion, a restore or a fork
\* that nothing interrupts and that meets no other of them leaves the cache
\* and the table with the same opinion of a chat.
THEOREM ListMatchesTable == Spec => []RegistryMatches
<1>. USE ParametersOK
<1>1. Init => RegInv
  BY DEF Init, RegInv, Registered, Named, Governs
<1>2. TypeInv /\ IdsInv /\ RegInv /\ [Next]_vars => RegInv'
  BY NextReg
<1>3. RegInv => RegistryMatches
  <2>1. \A c \in Chats : On(c) = {} => \A h \in Handlers : ~Governs(req[h], c)
    BY DEF On, Governs
  <2>. QED BY <2>1 DEF RegInv, Registered, RegistryMatches, Settled, Cached
<1>. QED BY <1>1, <1>2, <1>3, BaseInvariance, PTL DEF Spec

-----------------------------------------------------------------------------
\* The prompts.  A chat that is not in odd is calm: while it is forked, its
\* fork has it to itself and is at a known place; otherwise its entries, if it
\* is cached, are its rows, but for what a turn or a truncation is yet to do.

Touches(r, c) == r # Absent /\ (r.chat = c \/ (r.op = "fork" /\ r.temp = c))
Cuts(r, c)    == r # Absent /\ r.op = "truncate" /\ r.chat = c

\* The events of prompt i are turn t's to write.
Pending(t, i) == t # Absent /\ t.id = i /\ t.at \in {"stream", "rerun", "read", "write"}

Shows(c, i) == \E k \in DOMAIN cache[c] : rows[i].seq = cache[c][k].seq

\* Whoever addresses the row of an entry by its id addresses it as this entry.
Private(c) ==
  \A i \in RowsOf(c), k \in DOMAIN cache[c] :
    rows[i].seq = cache[c][k].seq => cache[c][k].id = i \/ ~Known(i)

Ascends(c) == \A k, l \in DOMAIN cache[c] : k < l => cache[c][k].seq < cache[c][l].seq

\* Each entry has a row that says the same,
Backed(c) ==
  \A k \in DOMAIN cache[c] : \E i \in RowsOf(c) :
    /\ rows[i].seq = cache[c][k].seq /\ rows[i].text = cache[c][k].text
    /\ rows[i].ev = cache[c][k].ev \/ Pending(turn[c], cache[c][k].id)

\* and each row an entry, unless a turn is about to enter it or a truncation
\* to delete it: one that cannot, for it names no row of this chat, never ends
\* without the chat in odd.
Entered(c) ==
  \A i \in RowsOf(c) :
    \/ Shows(c, i)
    \/ At(c, "ingest") /\ turn[c].id = i
    \/ \E h \in Handlers : /\ Cuts(req[h], c)
                           /\ \E k \in DOMAIN req[h].todo :
                                req[h].todo[k] = i \/ req[h].todo[k] \notin RowsOf(c)

\* What is to be deleted is not shown any more.
Severed(c) ==
  \A h \in Handlers : Cuts(req[h], c) =>
    \A k \in DOMAIN req[h].todo : req[h].todo[k] \in RowsOf(c) => ~Shows(c, req[h].todo[k])

Fresh(c) == At(c, "insert") \/ At(c, "ingest") => \A k \in DOMAIN cache[c] : cache[c][k].seq < turn[c].seq
Held(c)  == At(c, "write") => \A k \in DOMAIN cache[c] : cache[c][k].id = turn[c].id => cache[c][k].ev = turn[c].ev

Plain(c) ==
  Private(c) /\ Ascends(c) /\ Backed(c) /\ Entered(c) /\ Severed(c) /\ Fresh(c) /\ Held(c)

Numbered(s) == \A k \in DOMAIN s : s[k].seq = k

\* The fork of handler h has copied m prompts to c.
Underway(h, c, m) ==
  /\ cache[c] # Absent /\ Numbered(cache[c]) /\ Len(cache[c]) = m + Len(req[h].todo)
  /\ \A k \in DOMAIN req[h].todo : req[h].todo[k] = cache[c][m + k]
  /\ \A i \in RowsOf(c) : ~Known(i)
  /\ \A i \in RowsOf(c) :
       IF req[h].at = "events" /\ i = req[h].id
         THEN rows[i].seq = m + 1 /\ rows[i].text = cache[c][m + 1].text
         ELSE /\ rows[i].seq \in 1..m /\ rows[i].text = cache[c][rows[i].seq].text
              /\ rows[i].ev = cache[c][rows[i].seq].ev
  /\ \A k \in 1..m : \E i \in RowsOf(c) : rows[i].seq = k
  /\ req[h].at = "insert" => req[h].seq = m + 1

\* Where the fork of handler h is, as chat c sees it.
Stage(h, c) ==
  IF req[h].at \in {"create", "rekey"}
    THEN IF req[h].temp = c
           THEN cache[c] = req[h].todo /\ Numbered(req[h].todo) /\ RowsOf(c) = {}
           ELSE cache[c] = Absent /\ RowsOf(c) = {}
    ELSE IF req[h].temp = c THEN cache[c] = Absent ELSE \E m \in Nat : Underway(h, c, m)

Forked(c) ==
  /\ turn[c] = Absent /\ chats[c] # "removed"
  /\ \A h \in Handlers : Touches(req[h], c) =>
       /\ req[h].op = "fork" /\ Stage(h, c)
       /\ \A g \in Handlers : Touches(req[g], c) => g = h

Calm(c) == c \notin odd => IF Forking(c) THEN Forked(c) ELSE cache[c] # Absent => Plain(c)

CalmInv == \A c \in Chats : Calm(c)

LEMMA ForkingIs ==
  ASSUME NEW c \in Chats
  PROVE  Forking(c) <=> \E h \in Handlers : Touches(req[h], c) /\ req[h].op = "fork"
BY DEF Forking, On, Touches

-----------------------------------------------------------------------------
\* What leaves a chat calm.

\* The rows of c remain; one whose events changed is not that of an entry,
\* although somebody has its id.
RowsKeep(c) ==
  /\ RowsOf(c)' = RowsOf(c)
  /\ \A i \in RowsOf(c) : rows'[i].seq = rows[i].seq /\ rows'[i].text = rows[i].text

RowsStay(c) ==
  /\ RowsKeep(c)
  /\ \A i \in RowsOf(c) : rows'[i].ev = rows[i].ev \/ (Known(i) /\ c \notin Holders(i))

NoneMet(c) == \A i \in RowsOf(c) : Known(i)' => Known(i)

\* The entries of c remain, apart from their events.
EntriesStay(c) ==
  /\ cache'[c] # Absent /\ DOMAIN cache'[c] = DOMAIN cache[c]
  /\ \A k \in DOMAIN cache[c] : /\ cache'[c][k].id = cache[c][k].id /\ cache'[c][k].seq = cache[c][k].seq
                                /\ cache'[c][k].text = cache[c][k].text

CutsStay(c) == \A h \in Handlers : Cuts(req[h], c) \/ Cuts(req'[h], c) => req'[h] = req[h]

LEMMA OrderStays ==
  ASSUME NEW c \in Chats, Plain(c), EntriesStay(c), RowsKeep(c), NoneMet(c), CutsStay(c),
         At(c, "ingest") => turn'[c] = turn[c]
  PROVE  Private(c)' /\ Ascends(c)' /\ Entered(c)' /\ Severed(c)'
<1>1. \A i \in RowsOf(c) : Shows(c, i)' <=> Shows(c, i)
  BY DEF Shows, EntriesStay, RowsKeep
<1>2. Private(c)' /\ Ascends(c)'
  BY DEF Plain, Private, Ascends, EntriesStay, RowsKeep, NoneMet
<1>3. Entered(c)'
  <2>1. ASSUME NEW i \in RowsOf(c)
        PROVE  \/ Shows(c, i)'
               \/ At(c, "ingest")' /\ turn'[c].id = i
               \/ \E h \in Handlers : /\ Cuts(req'[h], c)
                                      /\ \E k \in DOMAIN req'[h].todo :
                                           req'[h].todo[k] = i \/ req'[h].todo[k] \notin RowsOf(c)
    <3>1. CASE Shows(c, i)
      BY <1>1, <3>1
    <3>2. CASE At(c, "ingest") /\ turn[c].id = i
      BY <3>2 DEF At
    <3>3. CASE \E h \in Handlers : /\ Cuts(req[h], c)
                                   /\ \E k \in DOMAIN req[h].todo :
                                        req[h].todo[k] = i \/ req[h].todo[k] \notin RowsOf(c)
      BY <3>3 DEF CutsStay
    <3>. QED BY <3>1, <3>2, <3>3 DEF Plain, Entered
  <2>. QED BY <2>1 DEF Entered, RowsKeep
<1>4. Severed(c)'
  <2>1. SUFFICES ASSUME NEW h \in Handlers, Cuts(req'[h], c), NEW k \in DOMAIN req'[h].todo,
                        NEW i, i = req'[h].todo[k], i \in RowsOf(c)
                 PROVE  ~Shows(c, i)'
    BY DEF Severed, RowsKeep
  <2>2. req'[h] = req[h]
    BY <2>1 DEF CutsStay
  <2>. QED BY <1>1, <2>1, <2>2 DEF Plain, Severed
<1>. QED BY <1>2, <1>3, <1>4

LEMMA BackedStays ==
  ASSUME NEW c \in Chats, Plain(c), cache[c] # Absent, EntriesStay(c), RowsStay(c),
         \A k \in DOMAIN cache[c] : \/ Pending(turn'[c], cache[c][k].id)
                                    \/ ~Pending(turn[c], cache[c][k].id) /\ cache'[c][k].ev = cache[c][k].ev
  PROVE  Backed(c)'
<1>1. SUFFICES ASSUME NEW k \in DOMAIN cache[c]
               PROVE  \E i \in RowsOf(c) :
                        /\ rows'[i].seq = cache[c][k].seq /\ rows'[i].text = cache[c][k].text
                        /\ rows'[i].ev = cache'[c][k].ev \/ Pending(turn'[c], cache[c][k].id)
  BY DEF Backed, EntriesStay, RowsStay, RowsKeep
<1>2. PICK i \in RowsOf(c) : /\ rows[i].seq = cache[c][k].seq /\ rows[i].text = cache[c][k].text
                             /\ rows[i].ev = cache[c][k].ev \/ Pending(turn[c], cache[c][k].id)
  BY DEF Plain, Backed
<1>3. rows'[i].seq = rows[i].seq /\ rows'[i].text = rows[i].text
  BY DEF RowsStay, RowsKeep
<1>4. rows'[i].ev = rows[i].ev
  <2>1. cache[c][k].id = i \/ ~Known(i)
    BY <1>2 DEF Plain, Private
  <2>2. cache[c][k].id = i => c \in Holders(i)
    BY DEF Holders, Cached, Holds
  <2>. QED BY <2>1, <2>2 DEF RowsStay
<1>. QED BY <1>2, <1>3, <1>4

\* A request of its own that shapes the prompts of c.
Shapes(r, c) == Touches(r, c) /\ r.op \in {"fork", "truncate"}

Elsewhere(c) ==
  /\ c \in odd => c \in odd'
  /\ cache'[c] = cache[c] /\ turn'[c] = turn[c] /\ RowsStay(c) /\ NoneMet(c)
  /\ \A h \in Handlers :
       \/ req'[h] = req[h]
       \/ ~Touches(req[h], c) /\ ~Touches(req'[h], c)
       \/ ~Forking(c) /\ ~Shapes(req[h], c) /\ ~Shapes(req'[h], c)
  /\ chats'[c] = chats[c] \/ ~Forking(c)

LEMMA StageStays ==
  ASSUME NEW c \in Chats, NEW h \in Handlers, Stage(h, c),
         cache'[c] = cache[c], RowsStay(c), NoneMet(c), req'[h] = req[h]
  PROVE  Stage(h, c)'
<1>1. CASE req[h].at \in {"create", "rekey"} \/ req[h].temp = c
  BY <1>1 DEF Stage, RowsStay, RowsKeep
<1>2. CASE req[h].at \notin {"create", "rekey"} /\ req[h].temp # c
  <2>1. PICK m \in Nat : Underway(h, c, m)
    BY <1>2 DEF Stage
  <2>2. /\ RowsOf(c)' = RowsOf(c)
        /\ \A i \in RowsOf(c) : /\ ~Known(i)' /\ rows'[i].ev = rows[i].ev
                                /\ rows'[i].seq = rows[i].seq /\ rows'[i].text = rows[i].text
    BY <2>1 DEF Underway, RowsStay, RowsKeep, NoneMet
  <2>3. Underway(h, c, m)'
    BY <2>1, <2>2 DEF Underway
  <2>. QED BY <1>2, <2>3 DEF Stage
<1>. QED BY <1>1, <1>2

LEMMA Undisturbed ==
  ASSUME NEW c \in Chats, Calm(c), Elsewhere(c) PROVE Calm(c)'
<1>1. CASE c \notin odd /\ Forking(c)
  <2>1. Forked(c)
    BY <1>1 DEF Calm
  <2>2. \A h \in Handlers : Touches(req[h], c) \/ Touches(req'[h], c) => req'[h] = req[h]
    BY <1>1 DEF Elsewhere
  <2>3. Forking(c)'
    BY <1>1, <2>2, ForkingIs DEF Forking, On, Touches
  <2>4. turn'[c] = Absent /\ chats'[c] # "removed"
    BY <1>1, <2>1 DEF Forked, Elsewhere
  <2>5. ASSUME NEW h \in Handlers, Touches(req'[h], c)
        PROVE  /\ req'[h].op = "fork" /\ Stage(h, c)'
               /\ \A g \in Handlers : Touches(req'[g], c) => g = h
    BY <2>1, <2>2, <2>5, StageStays DEF Forked, Elsewhere
  <2>6. Forked(c)'
    BY <2>4, <2>5 DEF Forked
  <2>. QED BY <2>3, <2>6 DEF Calm
<1>2. CASE c \notin odd /\ ~Forking(c)
  <2>1. ~Forking(c)'
    <3>1. ASSUME NEW h \in Handlers, Touches(req'[h], c), req'[h].op = "fork" PROVE FALSE
      BY <1>2, <3>1, ForkingIs DEF Elsewhere, Shapes
    <3>. QED BY <3>1 DEF Forking, On, Touches
  <2>2. CASE cache[c] # Absent
    <3>1. Plain(c)
      BY <1>2, <2>2 DEF Calm
    <3>2. EntriesStay(c) /\ RowsStay(c) /\ NoneMet(c)
      BY <2>2 DEF Elsewhere, EntriesStay
    <3>3. CutsStay(c)
      BY DEF Elsewhere, CutsStay, Shapes, Touches, Cuts
    <3>4. Private(c)' /\ Ascends(c)' /\ Entered(c)' /\ Severed(c)'
      BY <3>1, <3>2, <3>3, OrderStays DEF Elsewhere, RowsStay
    <3>5. Backed(c)'
      BY <2>2, <3>1, <3>2, BackedStays DEF Elsewhere
    <3>6. Fresh(c)' /\ Held(c)'
      BY <3>1 DEF Plain, Elsewhere, Fresh, Held, At
    <3>. QED BY <2>1, <3>4, <3>5, <3>6 DEF Plain, Calm
  <2>3. CASE cache[c] = Absent
    BY <2>1, <2>3 DEF Calm, Elsewhere
  <2>. QED BY <2>2, <2>3
<1>3. CASE c \in odd
  BY <1>3 DEF Calm, Elsewhere
<1>. QED BY <1>1, <1>2, <1>3

\* A step that leaves c to its turn or to a truncation.
LEMMA PlainStep ==
  ASSUME NEW c \in Chats, Calm(c), c \in odd => c \in odd',
         c \notin odd' => ~Forking(c),
         \A h \in Handlers : Touches(req'[h], c) /\ req'[h].op = "fork" => req'[h] = req[h],
         cache'[c] # Absent => cache[c] # Absent,
         c \notin odd' /\ Plain(c) /\ cache'[c] # Absent => Plain(c)'
  PROVE  Calm(c)'
<1>1. SUFFICES ASSUME c \notin odd' PROVE ~Forking(c)' /\ (cache'[c] # Absent => Plain(c)')
  BY DEF Calm
<1>2. ~Forking(c)'
  BY <1>1, ForkingIs DEF Forking, On, Touches
<1>3. cache[c] # Absent => Plain(c)
  BY <1>1 DEF Calm
<1>. QED BY <1>1, <1>2, <1>3

\* A chat with a turn is not being forked.
LEMMA TurnAlone == ASSUME NEW c \in Chats, Calm(c), turn[c] # Absent PROVE c \notin odd => ~Forking(c)
BY DEF Calm, Forked

LEMMA SameRows ==
  ASSUME rows' = rows, NEW c \in Chats PROVE RowsStay(c) /\ RowsKeep(c)
BY DEF RowsStay, RowsKeep, RowsOf

LEMMA NoneMetAny == ASSUME NoneKnown, NEW c \in Chats PROVE NoneMet(c)
BY DEF NoneKnown, NoneMet, RowsOf

\* A turn's step leaves the other chats alone.
LEMMA TurnCalm ==
  ASSUME CalmInv, NEW c \in Chats, req' = req, chats' = chats, odd \subseteq odd', Calm(c)',
         \A d \in Chats : d # c => cache'[d] = cache[d] /\ turn'[d] = turn[d],
         \A d \in Chats : d # c /\ d \notin odd' => RowsStay(d) /\ NoneMet(d)
  PROVE  CalmInv'
<1>1. ASSUME NEW d \in Chats, d # c, d \notin odd' PROVE Calm(d)'
  <2>1. Elsewhere(d)
    BY <1>1 DEF Elsewhere
  <2>. QED BY <2>1, Undisturbed DEF CalmInv
<1>2. \A d \in Chats : d \in odd' => Calm(d)'
  BY DEF Calm
<1>. QED BY <1>1, <1>2 DEF CalmInv

\* No other turn is disturbed by what one does.
LEMMA OneTurn ==
  ASSUME TypeInv, NEW c \in Chats, NEW t, turn' = [turn EXCEPT ![c] = t]
  PROVE  turn'[c] = t /\ \A d \in Chats : d # c => turn'[d] = turn[d]
BY DEF TypeInv, TurnOK

LEMMA NothingRead ==
  ASSUME RowsOK, NEW c \in Chats, chats[c] = "none" PROVE RowsOf(c) = {}
BY DEF RowsOK, RowsOf

LEMMA UnusedChat ==
  ASSUME TypeInv, NEW c \in Unused
  PROVE  /\ chats[c] = "none" /\ cache[c] = Absent /\ turn[c] = Absent /\ RowsOf(c) = {}
         /\ \A h \in Handlers : ~Touches(req[h], c)
         /\ ~Forking(c)
BY NothingRead DEF Unused, Settled, On, Forking, Touches, TypeInv

\* No entries and no rows.
LEMMA EmptyPlainNext ==
  ASSUME NEW c \in Chats, cache'[c] = <<>>, RowsOf(c)' = {} PROVE Plain(c)'
BY DEF Plain, Private, Ascends, Backed, Entered, Severed, Fresh, Held

LEMMA CreateCalm ==
  ASSUME TypeInv, TypeInv', IdsInv, CalmInv, NEW c \in Chats, Create(c) PROVE CalmInv'
<1>1. /\ c \in Unused /\ UNCHANGED <<rows, turn, req>> /\ odd' \in {odd, odd \ {c}}
      /\ \A d \in Chats : d # c => chats'[d] = chats[d]
  BY DEF Create, TypeInv, RowsOK
<1>2. NoneKnown
  BY CreateIds
<1>3. ASSUME NEW d \in Chats, d # c PROVE Calm(d)'
  <2>1. cache'[d] = cache[d]
    BY <1>3 DEF Create, TypeInv, CacheOK
  <2>2. Elsewhere(d)
    BY <1>1, <1>2, <1>3, <2>1, SameRows, NoneMetAny DEF Elsewhere
  <2>. QED BY <2>2, Undisturbed DEF CalmInv
<1>4. Calm(c)'
  <2>1. ~Forking(c)'
    BY <1>1, UnusedChat DEF Forking, On
  <2>2. RowsOf(c)' = {} /\ cache'[c] \in {<<>>, Absent}
    BY <1>1, UnusedChat DEF RowsOf, Create, TypeInv, CacheOK
  <2>. QED BY <2>1, <2>2, EmptyPlainNext DEF Calm
<1>. QED BY <1>3, <1>4 DEF CalmInv

LEMMA SendCalm ==
  ASSUME TypeInv, TypeInv', IdsInv, CalmInv, NEW c \in Chats, Send(c) PROVE CalmInv'
<1>. DEFINE t == [at |-> "insert", id |-> 0, seq |-> NextSeq(c), ev |-> 0, next |-> "end"]
<1>1. /\ UNCHANGED <<chats, rows, cache, req>> /\ turn[c] = Absent /\ turn' = [turn EXCEPT ![c] = t]
      /\ odd' = IF Forking(c) THEN odd \cup {c} ELSE odd
  BY DEF Send, Turns, Touch, tables
<1>2. t.at = "insert" /\ t.seq = NextSeq(c)
  OBVIOUS
<1>. HIDE DEF t
<1>3. turn'[c] = t /\ \A d \in Chats : d # c => turn'[d] = turn[d]
  BY <1>1, OneTurn
<1>4. NoneKnown
  BY SendIds
<1>5. \A d \in Chats : RowsStay(d) /\ NoneMet(d)
  BY <1>1, <1>4, SameRows, NoneMetAny
<1>6. ASSUME Plain(c), cache[c] # Absent PROVE Plain(c)'
  <2>1. EntriesStay(c) /\ CutsStay(c) /\ RowsKeep(c)
    BY <1>1, <1>5, <1>6 DEF EntriesStay, CutsStay, RowsStay
  <2>2. Private(c)' /\ Ascends(c)' /\ Entered(c)' /\ Severed(c)'
    BY <1>1, <1>5, <1>6, <2>1, OrderStays DEF At
  <2>3. Backed(c)'
    BY <1>1, <1>5, <1>6, <2>1, BackedStays DEF Pending
  <2>4. Fresh(c)'
    <3>1. \A i \in RowsOf(c) : rows[i].seq < NextSeq(c)
      BY NextSeqBeyond DEF TypeInv
    <3>2. \A k \in DOMAIN cache[c] : cache[c][k].seq < NextSeq(c)
      BY <1>6, <3>1 DEF Plain, Backed
    <3>. QED BY <1>1, <1>2, <1>3, <3>2 DEF Fresh
  <2>5. Held(c)'
    BY <1>2, <1>3 DEF Held, At
  <2>. QED BY <2>2, <2>3, <2>4, <2>5 DEF Plain
<1>7. Calm(c)'
  BY <1>1, <1>6, PlainStep DEF CalmInv
<1>. QED BY <1>1, <1>3, <1>5, <1>7, TurnCalm

LEMMA InsertCalm ==
  ASSUME TypeInv, TypeInv', IdsInv, CalmInv, NEW c \in Chats, Insert(c) PROVE CalmInv'
<1>1. turn[c] # Absent /\ turn[c].at = "insert" /\ turn[c] \in Turn /\ UNCHANGED <<chats, cache, odd, req>>
  BY DEF Insert, At, TypeInv, TurnOK, Ends, Turns
<1>2. NoneKnown
  BY InsertIds
<1>3. CASE Ends(c) /\ UNCHANGED rows
  <2>1. turn'[c] = Absent /\ \A d \in Chats : d # c => turn'[d] = turn[d]
    BY <1>3, OneTurn DEF Ends, Turns
  <2>2. \A d \in Chats : RowsStay(d) /\ NoneMet(d)
    BY <1>2, <1>3, SameRows, NoneMetAny
  <2>3. ASSUME Plain(c), cache[c] # Absent PROVE Plain(c)'
    <3>1. EntriesStay(c) /\ CutsStay(c) /\ RowsKeep(c)
      BY <1>1, <2>2, <2>3 DEF EntriesStay, CutsStay, RowsStay
    <3>2. Private(c)' /\ Ascends(c)' /\ Entered(c)' /\ Severed(c)'
      BY <1>1, <2>2, <2>3, <3>1, OrderStays DEF At
    <3>3. Backed(c)'
      BY <1>1, <2>2, <2>3, <3>1, BackedStays DEF Pending
    <3>4. Fresh(c)' /\ Held(c)'
      BY <2>1 DEF Fresh, Held, At
    <3>. QED BY <3>2, <3>3, <3>4 DEF Plain
  <2>4. Calm(c)'
    BY <1>1, <2>3, PlainStep, TurnAlone DEF CalmInv
  <2>. QED BY <1>1, <2>1, <2>2, <2>4, TurnCalm
<1>4. CASE /\ ~Taken(c, turn[c].seq) /\ issued < MaxPrompts
           /\ issued' = issued + 1
           /\ rows' = [rows EXCEPT ![issued'] =
                         [chat |-> c, text |-> issued', seq |-> turn[c].seq, ev |-> 0]]
           /\ turn' = [turn EXCEPT ![c].at = "ingest", ![c].id = issued']
  <2>1. PICK new \in Ids : new = issued' /\ rows[new] = Absent /\ ~Known(new)
    BY <1>4, FreshId DEF TypeInv
  <2>. DEFINE r == [chat |-> c, text |-> new, seq |-> turn[c].seq, ev |-> 0]
              t == [turn[c] EXCEPT !.at = "ingest", !.id = new]
  <2>2. /\ t.at = "ingest" /\ t.id = new /\ t.seq = turn[c].seq /\ r.chat = c /\ r.seq = turn[c].seq
        /\ t # Absent
    <3>1. t \in Turn
      BY <1>1 DEF Turn
    <3>. QED BY <1>1, <3>1, AbsentIsNothing DEF Turn
  <2>3. r # Absent
    <3>1. r \in RowOf
      BY <1>1, <2>1, ParametersOK DEF RowOf, Turn
    <3>. QED BY <3>1, AbsentIsNothing
  <2>4. turn'[c] = t /\ \A d \in Chats : d # c => turn'[d] = turn[d]
    BY <1>4, <2>1 DEF TypeInv, TurnOK
  <2>5. \A i \in Ids : rows'[i] = IF i = new THEN r ELSE rows[i]
    BY <1>4, <2>1 DEF TypeInv, RowsOK
  <2>. HIDE DEF r, t
  <2>6. /\ RowsOf(c)' = RowsOf(c) \cup {new} /\ new \notin RowsOf(c)
        /\ \A i \in RowsOf(c) : rows'[i] = rows[i] /\ i # new
        /\ \A d \in Chats : d # c => RowsStay(d)
    BY <2>1, <2>2, <2>3, <2>5 DEF RowsOf, RowsStay, RowsKeep
  <2>7. \A d \in Chats : NoneMet(d)
    BY <1>2, NoneMetAny
  <2>8. ASSUME Plain(c), cache[c] # Absent PROVE Plain(c)'
    <3>1. ~Shows(c, new)' /\ \A k \in DOMAIN cache[c] : cache[c][k].seq # turn[c].seq
      <4>1. \A k \in DOMAIN cache[c] : cache[c][k].seq < turn[c].seq
        BY <1>1, <2>8 DEF Plain, Fresh, At
      <4>2. \A k \in DOMAIN cache[c] : cache[c][k].seq \in Nat
        <5>1. cache[c] \in Seq(Prompt)
          BY <2>8 DEF TypeInv, CacheOK
        <5>2. \A k \in DOMAIN cache[c] : cache[c][k] \in Prompt
          BY <5>1
        <5>. QED BY <5>2 DEF Prompt
      <4>3. turn[c].seq \in Nat
        BY <1>1 DEF Turn
      <4>4. \A k \in DOMAIN cache[c] : cache[c][k].seq # turn[c].seq
        BY <4>1, <4>2, <4>3
      <4>. QED BY <1>1, <2>1, <2>2, <2>5, <4>4 DEF Shows
    <3>2. \A i \in RowsOf(c) : Shows(c, i)' <=> Shows(c, i)
      BY <1>1, <2>6 DEF Shows
    <3>3. Private(c)' /\ Ascends(c)'
      BY <1>1, <2>1, <2>2, <2>5, <2>6, <2>7, <2>8, <3>1 DEF Plain, Private, Ascends, NoneMet, Shows
    <3>4. Backed(c)'
      <4>1. \A i : ~Pending(turn[c], i)
        BY <1>1 DEF Pending
      <4>. QED BY <1>1, <2>6, <2>8, <4>1 DEF Plain, Backed
    <3>5. \A h \in Handlers : Cuts(req[h], c) => \A k \in DOMAIN req[h].todo : req[h].todo[k] # new
      BY <2>1 DEF Known, Cut, Cutting, Cuts
    <3>6. Entered(c)'
      <4>1. SUFFICES ASSUME NEW i \in RowsOf(c) \cup {new}
                     PROVE  \/ Shows(c, i)'
                            \/ At(c, "ingest")' /\ turn'[c].id = i
                            \/ \E h \in Handlers : /\ Cuts(req[h], c)
                                                   /\ \E k \in DOMAIN req[h].todo :
                                                        req[h].todo[k] = i \/ req[h].todo[k] \notin RowsOf(c)'
        BY <1>1, <2>6 DEF Entered
      <4>2. CASE i = new
        <5>1. At(c, "ingest")'
          BY <2>2, <2>3, <2>4 DEF At
        <5>. QED BY <2>2, <2>4, <4>2, <5>1
      <4>3. CASE i \in RowsOf(c)
        BY <1>1, <2>6, <2>8, <3>2, <3>5, <4>3 DEF Plain, Entered, At
      <4>. QED BY <4>1, <4>2, <4>3
    <3>7. Severed(c)'
      BY <1>1, <2>6, <2>8, <3>2, <3>5 DEF Plain, Severed
    <3>8. Fresh(c)' /\ Held(c)'
      BY <1>1, <2>2, <2>4, <2>8 DEF Plain, Fresh, Held, At
    <3>. QED BY <3>3, <3>4, <3>6, <3>7, <3>8 DEF Plain
  <2>9. Calm(c)'
    BY <1>1, <2>8, PlainStep, TurnAlone DEF CalmInv
  <2>. QED BY <1>1, <2>4, <2>6, <2>7, <2>9, TurnCalm
<1>. QED BY <1>3, <1>4 DEF Insert

LEMMA EntryType ==
  ASSUME CacheOK, NEW c \in Chats, cache[c] # Absent
  PROVE  /\ cache[c] \in Seq(Prompt) /\ DOMAIN cache[c] = 1..Len(cache[c]) /\ Len(cache[c]) \in Nat
         /\ \A k \in DOMAIN cache[c] : /\ cache[c][k] \in Prompt /\ k \in Nat
                                       /\ cache[c][k].id \in Ids /\ cache[c][k].seq \in Nat
<1>1. cache[c] \in Seq(Prompt)
  BY DEF CacheOK
<1>2. DOMAIN cache[c] = 1..Len(cache[c]) /\ Len(cache[c]) \in Nat /\ \A k \in DOMAIN cache[c] : cache[c][k] \in Prompt
  BY <1>1
<1>. QED BY <1>1, <1>2 DEF Prompt

\* Two rows of one chat have two numbers.
LEMMA OneRow ==
  ASSUME RowsOK, NEW c \in Chats, NEW i \in RowsOf(c), NEW j \in RowsOf(c), rows[i].seq = rows[j].seq
  PROVE  i = j
BY DEF RowsOK, RowsOf

LEMMA IngestCalm ==
  ASSUME TypeInv, TypeInv', IdsInv, CalmInv, NEW c \in Chats, Ingest(c) PROVE CalmInv'
<1>. DEFINE i == turn[c].id
            e == [id |-> i, text |-> i, seq |-> turn[c].seq, ev |-> 0]
<1>1. /\ turn[c] # Absent /\ turn[c].at = "ingest" /\ turn[c] \in Turn /\ i \in Ids
      /\ UNCHANGED <<chats, rows, odd, req>>
  BY DEF Ingest, At, TypeInv, TurnOK, Ends, Goes, Turns, Kept, tables
<1>2. /\ rows[i] = [chat |-> c, text |-> i, seq |-> turn[c].seq, ev |-> 0] /\ ~Known(i)
  BY <1>1 DEF IdsInv, IngestOK, At
<1>3. i \in RowsOf(c) /\ rows[i].chat = c
  <2>1. rows[i] \in RowOf
    BY <1>1, <1>2, ParametersOK DEF RowOf, Turn
  <2>. QED BY <1>1, <1>2, <2>1, AbsentIsNothing DEF RowsOf
<1>4. \A j \in Ids : Known(j)' => Known(j) \/ j = i
  BY IngestIds
<1>5. \A d \in Chats : RowsStay(d) /\ RowsKeep(d)
  BY <1>1, SameRows
<1>6. \A d \in Chats : d # c => NoneMet(d)
  BY <1>3, <1>4 DEF NoneMet, RowsOf
<1>7. \A d \in Chats : d # c => turn'[d] = turn[d] /\ cache'[d] = cache[d]
  BY DEF Ingest, Ends, Goes, Turns, TypeInv, TurnOK, CacheOK
<1>8. Calm(c)'
  <2>1. CASE cache[c] = Absent
    <3>1. cache'[c] = Absent
      BY <2>1 DEF Ingest
    <3>. QED BY <1>1, <2>1, <3>1, PlainStep, TurnAlone DEF CalmInv
  <2>2. CASE cache[c] # Absent
    <3>. DEFINE s == cache[c]
                n == Len(s) + 1
    <3>1. cache' = [cache EXCEPT ![c] = Append(@, e)] /\ Goes(c, "stream")
      BY <2>2 DEF Ingest
    <3>2. /\ s \in Seq(Prompt) /\ DOMAIN s = 1..Len(s) /\ Len(s) \in Nat
          /\ \A k \in DOMAIN s : k \in Nat /\ s[k].seq \in Nat
      BY <2>2, EntryType DEF TypeInv
    <3>3. cache'[c] = Append(s, e)
      BY <3>1 DEF TypeInv, CacheOK
    <3>. HIDE DEF e
    <3>4. /\ DOMAIN cache'[c] = DOMAIN s \cup {n} /\ cache'[c][n] = e
          /\ \A k \in DOMAIN s : cache'[c][k] = s[k] /\ k < n /\ k # n
      BY <3>2, <3>3
    <3>5. e.id = i /\ e.text = i /\ e.seq = turn[c].seq /\ e.ev = 0 /\ turn[c].seq \in Nat
      BY <1>1 DEF e, Turn
    <3>6. turn'[c] # Absent /\ turn'[c].at = "stream"
      <4>1. [turn[c] EXCEPT !.at = "stream"] \in Turn
        BY <1>1 DEF Turn
      <4>2. turn'[c] = [turn[c] EXCEPT !.at = "stream"]
        BY <3>1 DEF Goes, Turns, TypeInv, TurnOK
      <4>. QED BY <1>1, <4>1, <4>2, AbsentIsNothing DEF Turn
    <3>7. ASSUME Plain(c) PROVE Plain(c)'
      <4>1. \A k \in DOMAIN s : s[k].seq < turn[c].seq /\ s[k].seq # turn[c].seq
        BY <1>1, <3>2, <3>5, <3>7 DEF Plain, Fresh, At
      <4>2. \A j \in RowsOf(c) : rows[j].seq = turn[c].seq => j = i
        BY <1>2, <1>3, OneRow DEF TypeInv
      <4>3. RowsOf(c)' = RowsOf(c) /\ RowsOf(c) \in SUBSET Ids /\ rows[i].seq = turn[c].seq
        BY <1>1, <1>2 DEF RowsOf
      <4>4. Private(c)'
        <5>1. ASSUME NEW j \in RowsOf(c), NEW k \in DOMAIN cache'[c], rows[j].seq = cache'[c][k].seq
              PROVE  cache'[c][k].id = j \/ ~Known(j)'
          <6>1. CASE k = n
            BY <3>4, <3>5, <4>2, <5>1, <6>1
          <6>2. CASE k \in DOMAIN s
            <7>1. rows[j].seq = s[k].seq /\ j # i
              BY <3>4, <4>1, <4>3, <5>1, <6>2
            <7>. QED BY <1>4, <3>4, <3>7, <4>3, <6>2, <7>1 DEF Plain, Private
          <6>. QED BY <3>4, <6>1, <6>2
        <5>. QED BY <1>1, <4>3, <5>1 DEF Private
      <4>5. Ascends(c)'
        <5>1. \A k \in DOMAIN s : ~(n < k)
          BY <3>2
        <5>2. ~(n < n)
          BY <3>2
        <5>. QED BY <3>4, <3>5, <3>7, <4>1, <5>1, <5>2 DEF Plain, Ascends
      <4>6. Backed(c)'
        <5>1. ASSUME NEW k \in DOMAIN s
              PROVE  \E j \in RowsOf(c) : rows[j].seq = s[k].seq /\ rows[j].text = s[k].text /\ rows[j].ev = s[k].ev
          BY <1>1, <3>7 DEF Plain, Backed, Pending
        <5>. QED BY <1>1, <1>2, <1>3, <3>4, <3>5, <4>3, <5>1 DEF Backed
      <4>7. \A j \in RowsOf(c) : Shows(c, j)' <=> Shows(c, j) \/ j = i
        BY <1>1, <3>4, <3>5, <4>2, <4>3 DEF Shows
      <4>8. Entered(c)'
        BY <1>1, <3>7, <4>3, <4>7 DEF Plain, Entered
      <4>9. Severed(c)'
        <5>1. \A h \in Handlers : Cuts(req[h], c) => \A k \in DOMAIN req[h].todo : req[h].todo[k] # i
          BY <1>2 DEF Known, Cut, Cutting, Cuts
        <5>2. SUFFICES ASSUME NEW h \in Handlers, Cuts(req[h], c), NEW k \in DOMAIN req[h].todo,
                              NEW j, j = req[h].todo[k], j \in RowsOf(c)
                       PROVE  ~Shows(c, j)'
          BY <1>1, <4>3 DEF Severed
        <5>. QED BY <3>7, <4>7, <5>1, <5>2 DEF Plain, Severed
      <4>10. Fresh(c)' /\ Held(c)'
        BY <3>6 DEF Fresh, Held, At
      <4>. QED BY <4>4, <4>5, <4>6, <4>8, <4>9, <4>10 DEF Plain
    <3>. QED BY <1>1, <2>2, <3>7, PlainStep, TurnAlone DEF CalmInv
  <2>. QED BY <2>1, <2>2
<1>. QED BY <1>1, <1>5, <1>6, <1>7, <1>8, TurnCalm

\* The events of prompt i change, and are the turn's to write.
LEMMA LastingPlain ==
  ASSUME NEW c \in Chats, NEW i, cache[c] # Absent, Plain(c), Lasting(c, i), rows' = rows, NoneKnown, req' = req,
         turn'[c] # Absent, turn'[c].at \in {"stream", "rerun", "read"}, turn'[c].id = i,
         ~At(c, "ingest"), \A j : j # i => ~Pending(turn[c], j)
  PROVE  Plain(c)'
<1>1. EntriesStay(c)
  BY AbsentIsNothing DEF Lasting, EntriesStay
<1>2. RowsStay(c) /\ RowsKeep(c) /\ NoneMet(c) /\ CutsStay(c)
  BY SameRows, NoneMetAny DEF CutsStay
<1>3. Private(c)' /\ Ascends(c)' /\ Entered(c)' /\ Severed(c)'
  BY <1>1, <1>2, OrderStays
<1>4. Backed(c)'
  <2>1. ASSUME NEW k \in DOMAIN cache[c]
        PROVE  \/ Pending(turn'[c], cache[c][k].id)
               \/ ~Pending(turn[c], cache[c][k].id) /\ cache'[c][k].ev = cache[c][k].ev
    BY DEF Pending, Lasting
  <2>. QED BY <1>1, <1>2, <2>1, BackedStays
<1>5. Fresh(c)' /\ Held(c)'
  BY DEF Fresh, Held, At
<1>. QED BY <1>3, <1>4, <1>5 DEF Plain

LEMMA StreamCalm ==
  ASSUME TypeInv, TypeInv', IdsInv, CalmInv, NEW c \in Chats, Stream(c) \/ Finish(c) PROVE CalmInv'
<1>. DEFINE i == turn[c].id
<1>1. /\ turn[c] # Absent /\ turn[c].at \in {"stream", "rerun"} /\ i \in Ids
      /\ UNCHANGED <<chats, rows, req, odd>> /\ cache' = Appended(c, i)
      /\ turn' = turn \/ \E next \in {"end", "reset"} : turn' = [turn EXCEPT ![c] = Flush(i, next)]
  BY DEF Stream, Finish, At, TypeInv, TurnOK, Turns, Kept, tables
<1>2. NoneKnown
  BY StreamIds, FinishIds
<1>3. Lasting(c, i)
  BY <1>1, AppendedLasts DEF TypeInv
<1>4. \A d \in Chats : RowsStay(d) /\ NoneMet(d)
  BY <1>1, <1>2, SameRows, NoneMetAny
<1>5. /\ \A d \in Chats : d # c => cache'[d] = cache[d] /\ turn'[d] = turn[d]
      /\ turn'[c] # Absent /\ turn'[c].at \in {"stream", "rerun", "read"} /\ turn'[c].id = i
  <2>1. \A next \in {"end", "reset"} : Flush(i, next) # Absent /\ Flush(i, next).at = "read" /\ Flush(i, next).id = i
    BY <1>1, FlushType, AbsentIsNothing
  <2>2. \A d \in Chats : d # c => cache'[d] = cache[d]
    BY <1>3 DEF Lasting
  <2>3. CASE turn' = turn
    BY <1>1, <2>2, <2>3
  <2>4. ASSUME NEW next \in {"end", "reset"}, turn' = [turn EXCEPT ![c] = Flush(i, next)]
        PROVE  turn'[c] = Flush(i, next) /\ \A d \in Chats : d # c => turn'[d] = turn[d]
    BY <2>4, OneTurn
  <2>. QED BY <1>1, <2>1, <2>2, <2>3, <2>4
<1>6. ~At(c, "ingest") /\ \A j : j # i => ~Pending(turn[c], j)
  BY <1>1 DEF At, Pending
<1>. HIDE DEF i
<1>7. Plain(c) /\ cache[c] # Absent => Plain(c)'
  BY <1>1, <1>2, <1>3, <1>5, <1>6, LastingPlain
<1>8. cache'[c] # Absent => cache[c] # Absent
  BY <1>3 DEF Lasting
<1>9. Calm(c)'
  BY <1>1, <1>7, <1>8, PlainStep, TurnAlone DEF CalmInv
<1>. QED BY <1>1, <1>4, <1>5, <1>9, TurnCalm

LEMMA ResetCalm ==
  ASSUME TypeInv, TypeInv', IdsInv, CalmInv, NEW c \in Chats, Reset(c) \/ Retry(c) PROVE CalmInv'
<1>1. /\ UNCHANGED <<chats, rows, req>> /\ (turn[c] = Absent \/ turn[c].at = "reset")
      /\ odd \subseteq odd' /\ (c \notin odd' => (Reset(c) /\ turn[c] # Absent) \/ ~Forking(c))
  BY DEF Reset, Retry, At, Turns, Ends, Kept, tables, Touch
<1>2. NoneKnown
  BY ResetIds, RetryIds
<1>3. \A d \in Chats : RowsStay(d) /\ RowsKeep(d) /\ NoneMet(d)
  BY <1>1, <1>2, SameRows, NoneMetAny
<1>4. c \notin odd' => ~Forking(c)
  BY <1>1, TurnAlone DEF CalmInv
<1>5. ~At(c, "ingest") /\ \A j : ~Pending(turn[c], j)
  BY <1>1 DEF At, Pending
<1>6. CASE Ends(c) /\ UNCHANGED cache
  <2>1. turn'[c] = Absent /\ \A d \in Chats : d # c => turn'[d] = turn[d]
    BY <1>6, OneTurn DEF Ends, Turns
  <2>2. ASSUME Plain(c), cache[c] # Absent PROVE Plain(c)'
    <3>1. EntriesStay(c) /\ CutsStay(c)
      BY <1>1, <1>6, <2>2 DEF EntriesStay, CutsStay
    <3>2. Private(c)' /\ Ascends(c)' /\ Entered(c)' /\ Severed(c)'
      BY <1>3, <1>5, <2>2, <3>1, OrderStays
    <3>3. Backed(c)'
      BY <1>3, <1>5, <1>6, <2>2, <3>1, BackedStays
    <3>4. Fresh(c)' /\ Held(c)'
      BY <2>1 DEF Fresh, Held, At
    <3>. QED BY <3>2, <3>3, <3>4 DEF Plain
  <2>3. Calm(c)'
    BY <1>1, <1>4, <1>6, <2>2, PlainStep DEF CalmInv
  <2>. QED BY <1>1, <1>3, <1>6, <2>1, <2>3, TurnCalm
<1>7. CASE /\ cache[c] \notin {Absent, <<>>} /\ cache' = LastReset(c)
           /\ \E next \in {"rerun", "stream"} : turn' = [turn EXCEPT ![c] = Flush(Last(cache[c]).id, next)]
  <2>. DEFINE i == Last(cache[c]).id
  <2>1. Lasting(c, i) /\ Holds(c, i) /\ i \in Ids
    <3>1. Lasting(c, i) /\ Holds(c, i)
      BY <1>7, ResetLasts DEF IdsInv, EntriesOK, Cached, TypeInv
    <3>2. Last(cache[c]) \in Prompt
      BY <1>7, ResetType DEF TypeInv
    <3>. QED BY <3>1, <3>2 DEF Prompt
  <2>2. PICK next \in {"rerun", "stream"} : turn' = [turn EXCEPT ![c] = Flush(i, next)]
    BY <1>7
  <2>3. Flush(i, next) # Absent /\ Flush(i, next).at = "read" /\ Flush(i, next).id = i
    BY <2>1, FlushType, AbsentIsNothing
  <2>4. /\ turn'[c] # Absent /\ turn'[c].at = "read" /\ turn'[c].id = i
        /\ \A d \in Chats : d # c => turn'[d] = turn[d]
    BY <2>2, <2>3, OneTurn
  <2>. HIDE DEF i
  <2>5. Plain(c) => Plain(c)'
    BY <1>1, <1>2, <1>5, <1>7, <2>1, <2>4, LastingPlain
  <2>6. Calm(c)'
    BY <1>1, <1>4, <1>7, <2>5, PlainStep DEF CalmInv
  <2>7. \A d \in Chats : d # c => cache'[d] = cache[d]
    BY <2>1 DEF Lasting
  <2>. QED BY <1>1, <1>3, <2>4, <2>6, <2>7, TurnCalm
<1>. QED BY <1>6, <1>7 DEF Reset, Retry, Turns

\* Where a turn is after its flush.
LEMMA AfterTurn ==
  ASSUME TypeInv, NEW c \in Chats, turn[c] # Absent, turn[c].at \in {"read", "write"}, After(c)
  PROVE  /\ turn'[c] # Absent => turn'[c].at \in {"stream", "rerun", "reset"}
         /\ \A d \in Chats : d # c => turn'[d] = turn[d]
         /\ req' = req
<1>1. turn[c] \in Turn
  BY DEF TypeInv, TurnOK
<1>2. CASE Ends(c)
  BY <1>2, OneTurn DEF Ends, Turns
<1>3. CASE turn[c].next # "end" /\ Goes(c, turn[c].next)
  <2>. DEFINE t == [turn[c] EXCEPT !.at = turn[c].next]
  <2>1. t.at \in {"stream", "rerun", "reset"}
    BY <1>1, <1>3 DEF Turn
  <2>2. turn' = [turn EXCEPT ![c] = t] /\ req' = req
    BY <1>3 DEF Goes, Turns
  <2>. HIDE DEF t
  <2>. QED BY <2>1, <2>2, OneTurn
<1>. QED BY <1>2, <1>3 DEF After

LEMMA EventsAre ==
  ASSUME IdsInv, NEW c \in Chats, cache[c] # Absent, NEW k \in DOMAIN cache[c]
  PROVE  EventsOf(c, cache[c][k].id) = cache[c][k].ev
<1>1. \A l \in DOMAIN cache[c] : cache[c][l].id = cache[c][k].id => l = k
  BY DEF IdsInv, EntriesOK, Cached
<1>. QED BY <1>1 DEF EventsOf

LEMMA ReadCalm ==
  ASSUME TypeInv, TypeInv', IdsInv, CalmInv, NEW c \in Chats, Read(c) PROVE CalmInv'
<1>. DEFINE i == turn[c].id
<1>1. /\ turn[c] # Absent /\ turn[c].at = "read" /\ turn[c] \in Turn
      /\ UNCHANGED <<chats, rows, cache>>
      /\ odd' = IF \E d, e \in Holders(i) : d # e THEN odd \cup Holders(i) ELSE odd
  BY DEF Read, At, TypeInv, TurnOK, tables
<1>2. NoneKnown
  BY ReadIds
<1>3. \A d \in Chats : RowsStay(d) /\ RowsKeep(d) /\ NoneMet(d)
  BY <1>1, <1>2, SameRows, NoneMetAny
<1>4. cache[c] # Absent => EntriesStay(c)
  BY <1>1 DEF EntriesStay
<1>5. ~At(c, "ingest") /\ \A j : Pending(turn[c], j) <=> j = i
  BY <1>1 DEF At, Pending
<1>6. ASSUME NEW d \in Holders(i), Turns(c, [turn[c] EXCEPT !.at = "write", !.ev = EventsOf(d, i)])
      PROVE  CalmInv'
  <2>. DEFINE t == [turn[c] EXCEPT !.at = "write", !.ev = EventsOf(d, i)]
  <2>1. t.at = "write" /\ t.id = i /\ t.ev = EventsOf(d, i)
    BY <1>1 DEF Turn
  <2>2. turn' = [turn EXCEPT ![c] = t] /\ req' = req
    BY <1>6 DEF Turns
  <2>. HIDE DEF t
  <2>3. turn'[c] = t /\ \A e \in Chats : e # c => turn'[e] = turn[e]
    BY <2>2, OneTurn
  <2>4. t # Absent
    <3>1. turn'[c] \in Turn \cup {Absent}
      BY DEF TypeInv, TurnOK
    <3>2. t \in Turn
      <4>1. d \in Chats /\ cache[d] # Absent /\ \E k \in DOMAIN cache[d] : cache[d][k].id = i
        BY DEF Holders, Cached, Holds
      <4>2. PICK k \in DOMAIN cache[d] : cache[d][k].id = i
        BY <4>1
      <4>3. EventsOf(d, i) = cache[d][k].ev /\ cache[d][k] \in Prompt
        BY <4>1, <4>2, EventsAre, EntryType DEF TypeInv
      <4>4. EventsOf(d, i) \in 0..MaxEvents
        BY <4>3 DEF Prompt
      <4>. QED BY <1>1, <4>4 DEF t, Turn
    <3>. QED BY <3>2, AbsentIsNothing
  <2>5. ASSUME Plain(c), cache[c] # Absent, c \notin odd' PROVE Plain(c)'
    <3>1. CutsStay(c)
      BY <2>2 DEF CutsStay
    <3>2. Private(c)' /\ Ascends(c)' /\ Entered(c)' /\ Severed(c)'
      BY <1>3, <1>4, <1>5, <2>5, <3>1, OrderStays
    <3>3. Backed(c)'
      <4>1. \A j : Pending(turn[c], j) => Pending(turn'[c], j)
        BY <1>5, <2>1, <2>3, <2>4 DEF Pending
      <4>. QED BY <1>1, <1>3, <1>4, <2>5, <4>1, BackedStays
    <3>4. Fresh(c)'
      BY <2>1, <2>3 DEF Fresh, At
    <3>5. Held(c)'
      <4>1. ASSUME NEW k \in DOMAIN cache[c], cache[c][k].id = i PROVE cache[c][k].ev = EventsOf(d, i)
        <5>1. c \in Holders(i)
          BY <2>5, <4>1 DEF Holders, Cached, Holds
        <5>2. d = c
          BY <1>1, <2>5, <5>1
        <5>. QED BY <2>5, <4>1, <5>2, EventsAre
      <4>. QED BY <1>1, <2>1, <2>3, <4>1 DEF Held
    <3>. QED BY <3>2, <3>3, <3>4, <3>5 DEF Plain
  <2>6. Calm(c)'
    BY <1>1, <2>2, <2>5, PlainStep, TurnAlone DEF CalmInv
  <2>. QED BY <1>1, <1>3, <2>2, <2>3, <2>6, TurnCalm
<1>7. CASE Holders(i) = {} /\ After(c)
  <2>1. /\ turn'[c] # Absent => turn'[c].at \in {"stream", "rerun", "reset"}
        /\ \A d \in Chats : d # c => turn'[d] = turn[d]
        /\ req' = req
    BY <1>1, <1>7, AfterTurn
  <2>2. ASSUME Plain(c), cache[c] # Absent PROVE Plain(c)'
    <3>1. CutsStay(c)
      BY <2>1 DEF CutsStay
    <3>2. Private(c)' /\ Ascends(c)' /\ Entered(c)' /\ Severed(c)'
      BY <1>3, <1>4, <1>5, <2>2, <3>1, OrderStays
    <3>3. \A k \in DOMAIN cache[c] : cache[c][k].id # i
      BY <1>7, <2>2 DEF Holders, Cached, Holds
    <3>4. Backed(c)'
      BY <1>1, <1>3, <1>4, <1>5, <2>2, <3>3, BackedStays
    <3>5. Fresh(c)' /\ Held(c)'
      BY <2>1 DEF Fresh, Held, At
    <3>. QED BY <3>2, <3>4, <3>5 DEF Plain
  <2>3. Calm(c)'
    BY <1>1, <2>1, <2>2, PlainStep, TurnAlone DEF CalmInv
  <2>. QED BY <1>1, <1>3, <2>1, <2>3, TurnCalm
<1>. QED BY <1>6, <1>7 DEF Read

\* A write by id finds its own row in c, if c holds the prompt, or else
\* everybody concerned gets into odd.
LEMMA WriteCalm ==
  ASSUME TypeInv, TypeInv', IdsInv, CalmInv, NEW c \in Chats, Write(c) PROVE CalmInv'
<1>. DEFINE i == turn[c].id
            mine == rows[i] # Absent /\ rows[i].chat = c
<1>1. /\ turn[c] # Absent /\ turn[c].at = "write" /\ turn[c] \in Turn /\ i \in Ids /\ After(c)
      /\ UNCHANGED <<chats, cache>>
  BY DEF Write, At, TypeInv, TurnOK
<1>2. NoneKnown
  BY WriteIds
<1>3. \A d \in Chats : NoneMet(d)
  BY <1>2, NoneMetAny
<1>4. /\ turn'[c] # Absent => turn'[c].at \in {"stream", "rerun", "reset"}
      /\ \A d \in Chats : d # c => turn'[d] = turn[d]
      /\ req' = req
  BY <1>1, AfterTurn
<1>5. Known(i)
  BY <1>1 DEF Known, Turning
<1>6. ~At(c, "ingest") /\ \A j : Pending(turn[c], j) <=> j = i
  BY <1>1 DEF At, Pending
<1>7. \/ /\ rows' = IF rows[i] = Absent THEN rows ELSE [rows EXCEPT ![i].ev = turn[c].ev]
         /\ odd' = odd \cup (IF mine \/ Holders(i) = {} THEN {}
                             ELSE Holders(i) \cup {d \in Chats : i \in RowsOf(d)})
      \/ rows' = rows /\ odd' = odd \cup {c}
  BY DEF Write
<1>8. /\ \A j \in Ids : j # i => rows'[j] = rows[j]
      /\ rows[i] = Absent => rows'[i] = Absent
      /\ rows[i] # Absent => /\ rows'[i] # Absent /\ rows'[i].chat = rows[i].chat
                             /\ rows'[i].seq = rows[i].seq /\ rows'[i].text = rows[i].text
                             /\ c \notin odd' => rows'[i].ev = turn[c].ev
  <2>1. rows[i] # Absent => rows[i] \in RowOf
    BY <1>1 DEF TypeInv, RowsOK
  <2>2. CASE rows' = rows /\ rows[i] = Absent
    BY <2>2
  <2>3. CASE rows' = rows /\ odd' = odd \cup {c}
    BY <2>3
  <2>4. CASE rows[i] # Absent /\ rows' = [rows EXCEPT ![i].ev = turn[c].ev]
    <3>. DEFINE r == [rows[i] EXCEPT !.ev = turn[c].ev]
    <3>1. r \in RowOf /\ r.chat = rows[i].chat /\ r.seq = rows[i].seq /\ r.text = rows[i].text /\ r.ev = turn[c].ev
      BY <1>1, <2>1, <2>4 DEF RowOf, Turn
    <3>2. \A j \in Ids : rows'[j] = IF j = i THEN r ELSE rows[j]
      BY <2>4 DEF TypeInv, RowsOK
    <3>. HIDE DEF r
    <3>. QED BY <1>1, <2>4, <3>1, <3>2, AbsentIsNothing
  <2>. QED BY <1>7, <2>2, <2>3, <2>4
<1>9. \A d \in Chats : RowsKeep(d)
  BY <1>8 DEF RowsKeep, RowsOf
<1>10. odd \subseteq odd'
  BY <1>7
<1>11. ASSUME NEW d \in Chats, d # c, d \notin odd' PROVE RowsStay(d)
  <2>1. CASE i \in RowsOf(d)
    <3>1. Holders(i) = {} \/ rows' = rows
      BY <1>7, <1>11, <2>1 DEF RowsOf
    <3>. QED BY <1>5, <1>8, <1>9, <3>1 DEF RowsStay, RowsOf
  <2>2. CASE i \notin RowsOf(d)
    BY <1>8, <1>9, <2>2 DEF RowsStay, RowsOf
  <2>. QED BY <2>1, <2>2
<1>12. ASSUME Plain(c), cache[c] # Absent, c \notin odd' PROVE Plain(c)'
  <2>1. EntriesStay(c) /\ CutsStay(c)
    BY <1>1, <1>4, <1>12 DEF EntriesStay, CutsStay
  <2>2. Private(c)' /\ Ascends(c)' /\ Entered(c)' /\ Severed(c)'
    BY <1>3, <1>6, <1>9, <1>12, <2>1, OrderStays
  <2>3. Fresh(c)' /\ Held(c)'
    BY <1>4 DEF Fresh, Held, At
  <2>4. Backed(c)'
    <3>1. SUFFICES ASSUME NEW k \in DOMAIN cache[c]
                   PROVE  \E j \in RowsOf(c) : /\ rows'[j].seq = cache[c][k].seq
                                               /\ rows'[j].text = cache[c][k].text
                                               /\ rows'[j].ev = cache[c][k].ev
      BY <1>1, <1>9 DEF Backed, RowsKeep
    <3>2. PICK j \in RowsOf(c) : /\ rows[j].seq = cache[c][k].seq /\ rows[j].text = cache[c][k].text
                                 /\ rows[j].ev = cache[c][k].ev \/ cache[c][k].id = i
      BY <1>6, <1>12 DEF Plain, Backed
    <3>3. CASE cache[c][k].id # i
      <4>1. j # i /\ j \in Ids
        BY <1>5, <1>12, <3>2, <3>3 DEF Plain, Private, RowsOf
      <4>. QED BY <1>8, <3>2, <3>3, <4>1
    <3>4. CASE cache[c][k].id = i
      <4>1. c \in Holders(i)
        BY <1>12, <3>4 DEF Holders, Cached, Holds
      <4>2. mine /\ i \in RowsOf(c)
        BY <1>1, <1>7, <1>12, <4>1 DEF RowsOf
      <4>3. rows[i].seq = cache[c][k].seq /\ rows[i].text = cache[c][k].text
        BY <1>12, <3>4, <4>2 DEF IdsInv, EntriesOK, Cached
      <4>4. cache[c][k].ev = turn[c].ev
        BY <1>1, <1>12, <3>4 DEF Plain, Held, At
      <4>. QED BY <1>8, <1>12, <4>2, <4>3, <4>4
    <3>. QED BY <3>3, <3>4
  <2>. QED BY <2>2, <2>3, <2>4 DEF Plain
<1>13. Calm(c)'
  BY <1>1, <1>4, <1>10, <1>12, PlainStep, TurnAlone DEF CalmInv
<1>. QED BY <1>1, <1>3, <1>4, <1>10, <1>11, <1>13, TurnCalm

LEMMA HangUpTurnCalm ==
  ASSUME TypeInv, TypeInv', IdsInv, CalmInv, NEW c \in Chats, HangUpTurn(c) PROVE CalmInv'
<1>1. UNCHANGED <<chats, rows, cache, req>> /\ odd' = odd \cup {c} /\ turn' = [turn EXCEPT ![c] = Absent]
  BY DEF HangUpTurn, Ends, Turns, tables
<1>2. \A d \in Chats : d # c => turn'[d] = turn[d]
  BY <1>1, OneTurn
<1>3. \A d \in Chats : RowsStay(d) /\ NoneMet(d)
  BY <1>1, HangUpTurnIds, SameRows, NoneMetAny
<1>4. Calm(c)'
  BY <1>1 DEF Calm
<1>. QED BY <1>1, <1>2, <1>3, <1>4, TurnCalm

LEMMA RevertCalm ==
  ASSUME TypeInv, TypeInv', IdsInv, CalmInv, NEW c \in Chats, Revert(c) PROVE CalmInv'
<1>1. /\ UNCHANGED <<chats, rows, turn, req>> /\ odd' = odd \cup {c} /\ issued < MaxPrompts
      /\ \A d \in Chats : d # c => cache'[d] = cache[d]
  BY DEF Revert, tables, TypeInv, CacheOK
<1>2. \A j \in Ids : Known(j)' => Known(j) \/ j = issued + 1
  BY RevertIds
<1>3. rows[issued + 1] = Absent
  BY <1>1, FreshId DEF TypeInv
<1>4. \A d \in Chats : RowsStay(d) /\ NoneMet(d)
  BY <1>1, <1>2, <1>3, SameRows DEF NoneMet, RowsOf
<1>5. Calm(c)'
  BY <1>1 DEF Calm
<1>. QED BY <1>1, <1>4, <1>5, TurnCalm

\* A request's step leaves chat d alone.
LEMMA AsideCalm ==
  ASSUME TypeInv, CalmInv, NEW h \in Handlers, NEW q, req' = [req EXCEPT ![h] = q], turn' = turn,
         NEW d \in Chats, d \in odd => d \in odd', cache'[d] = cache[d],
         chats'[d] = chats[d] \/ ~Forking(d), RowsStay(d), NoneMet(d),
         \/ ~Touches(req[h], d) /\ ~Touches(q, d)
         \/ ~Forking(d) /\ ~Shapes(req[h], d) /\ ~Shapes(q, d)
  PROVE  Calm(d)'
<1>1. \A g \in Handlers : req'[g] = IF g = h THEN q ELSE req[g]
  BY DEF TypeInv, ReqOK
<1>2. Elsewhere(d)
  BY <1>1 DEF Elsewhere
<1>. QED BY <1>2, Undisturbed DEF CalmInv

\* Only a fork's requests are on a chat that is forked.
LEMMA NotForked ==
  ASSUME NEW c \in Chats, Calm(c), NEW h \in Handlers, Touches(req[h], c), req[h].op # "fork"
  PROVE  c \notin odd => ~Forking(c)
BY DEF Calm, Forked

LEMMA TruncateCalm ==
  ASSUME TypeInv, TypeInv', IdsInv, CalmInv,
         NEW h \in Handlers, NEW c \in Chats, NEW n \in Ids, Truncate(h, c, n)
  PROVE  CalmInv'
<1>. DEFINE s == cache[c]
<1>02. PICK high : high = {k \in DOMAIN s : s[k].seq >= n}
  OBVIOUS
<1>03. PICK low : low = {k \in DOMAIN s : s[k].seq < n}
  OBVIOUS
<1>04. PICK cut : cut = Picked(s, high)
  OBVIOUS
<1>05. PICK kept : kept = Picked(s, low)
  OBVIOUS
<1>. DEFINE q == [op |-> "truncate", at |-> "rows", chat |-> c, todo |-> [k \in DOMAIN cut |-> cut[k].id]]
<1>1. /\ UNCHANGED <<chats, rows, turn>> /\ s # Absent /\ req[h] = Absent
      /\ req' = [req EXCEPT ![h] = q] /\ cache' = [cache EXCEPT ![c] = kept]
      /\ odd' = IF Forking(c) THEN odd \cup {c} ELSE odd
  BY <1>02, <1>03, <1>04, <1>05 DEF Truncate, Begin, Cached, tables, Touch
<1>2. NoneKnown
  BY TruncateIds
<1>3. \A d \in Chats : RowsStay(d) /\ NoneMet(d)
  BY <1>1, <1>2, SameRows, NoneMetAny
<1>4. /\ s \in Seq(Prompt) /\ \A k \in DOMAIN s : k \in Nat /\ s[k].seq \in Nat /\ s[k].id \in Ids
      /\ n \in Nat /\ high \in SUBSET DOMAIN s /\ low \in SUBSET DOMAIN s
  BY <1>1, <1>02, <1>03, EntryType DEF TypeInv, Ids
<1>5. /\ \A k \in DOMAIN s : s[k].seq >= n => \E l \in DOMAIN cut : cut[l] = s[k]
      /\ \A l \in DOMAIN cut : \E k \in DOMAIN s : s[k].seq >= n /\ cut[l] = s[k]
  <2>1. \A k \in high : \E l \in DOMAIN Picked(s, high) : Picked(s, high)[l] = s[k]
    BY <1>4, PickedHas
  <2>2. \A l \in DOMAIN Picked(s, high) : \E k \in high : Picked(s, high)[l] = s[k]
    BY <1>4, PickedHas
  <2>. QED BY <1>02, <1>04, <2>1, <2>2
<1>6. /\ \A k \in DOMAIN s : s[k].seq < n => \E l \in DOMAIN kept : kept[l] = s[k]
      /\ \A l \in DOMAIN kept : \E k \in DOMAIN s : s[k].seq < n /\ kept[l] = s[k]
      /\ \A k, l \in DOMAIN kept : k < l => \E i, j \in DOMAIN s : i < j /\ kept[k] = s[i] /\ kept[l] = s[j]
  <2>1. \A k \in low : \E l \in DOMAIN Picked(s, low) : Picked(s, low)[l] = s[k]
    BY <1>4, PickedHas
  <2>2. \A l \in DOMAIN Picked(s, low) : \E k \in low : Picked(s, low)[l] = s[k]
    BY <1>4, PickedHas
  <2>3. \A k, l \in DOMAIN Picked(s, low) :
          k < l => \E i, j \in low : i < j /\ Picked(s, low)[k] = s[i] /\ Picked(s, low)[l] = s[j]
    BY <1>4, PickedHas
  <2>4. \A k, l \in DOMAIN kept : k < l => \E i, j \in low : i < j /\ kept[k] = s[i] /\ kept[l] = s[j]
    BY <1>05, <2>3
  <2>5. \A l \in DOMAIN kept : \E k \in low : kept[l] = s[k]
    BY <1>05, <2>2
  <2>6. \A k \in low : \E l \in DOMAIN kept : kept[l] = s[k]
    BY <1>05, <2>1
  <2>. QED BY <1>03, <2>4, <2>5, <2>6
<1>7. /\ q.op = "truncate" /\ q.chat = c /\ DOMAIN q.todo = DOMAIN cut
      /\ \A l \in DOMAIN cut : q.todo[l] = cut[l].id
      /\ q # Absent
  <2>1. cut \in Seq(Prompt)
    BY <1>04, <1>4, PickedFrom
  <2>2. DOMAIN cut = 1..Len(cut) /\ Len(cut) \in Nat /\ \A l \in DOMAIN cut : cut[l].id \in Ids
    <3>1. DOMAIN cut = 1..Len(cut) /\ Len(cut) \in Nat /\ \A l \in DOMAIN cut : cut[l] \in Prompt
      BY <2>1
    <3>. QED BY <3>1 DEF Prompt
  <2>3. [k \in DOMAIN cut |-> cut[k].id] \in Seq(Ids)
    BY <2>2
  <2>4. q \in Request
    BY <2>3 DEF Request
  <2>. QED BY <2>4, AbsentIsNothing
<1>8. cache'[c] = kept /\ \A d \in Chats : d # c => cache'[d] = cache[d]
  BY <1>1 DEF TypeInv, CacheOK
<1>. HIDE DEF q
<1>9. \A g \in Handlers : req'[g] = IF g = h THEN q ELSE req[g]
  BY <1>1 DEF TypeInv, ReqOK
<1>10. ASSUME NEW d \in Chats, d # c PROVE Calm(d)'
  <2>1. ~Touches(req[h], d) /\ ~Touches(q, d)
    BY <1>1, <1>7, <1>10 DEF Touches
  <2>. QED BY <1>1, <1>3, <1>8, <1>10, <2>1, AsideCalm
<1>11. ASSUME Plain(c) PROVE Plain(c)'
  <2>1. RowsOf(c)' = RowsOf(c) /\ RowsOf(c) \in SUBSET Ids
    BY <1>1 DEF RowsOf
  <2>2. \A l \in DOMAIN kept : \E k \in DOMAIN s : s[k].seq < n /\ kept[l] = s[k]
    BY <1>6
  <2>3. Private(c)'
    BY <1>1, <1>3, <1>8, <1>11, <2>1, <2>2 DEF Plain, Private, NoneMet
  <2>4. Ascends(c)'
    BY <1>6, <1>8, <1>11, <2>2 DEF Plain, Ascends
  <2>5. Backed(c)'
    BY <1>1, <1>8, <1>11, <2>1, <2>2 DEF Plain, Backed
  <2>6. \A i \in RowsOf(c) : Shows(c, i)' => Shows(c, i) /\ rows[i].seq < n
    BY <1>1, <1>8, <2>2 DEF Shows
  <2>7. \A i \in RowsOf(c) : Shows(c, i) /\ rows[i].seq < n => Shows(c, i)'
    BY <1>1, <1>6, <1>8 DEF Shows
  <2>8. Entered(c)'
    <3>1. SUFFICES ASSUME NEW i \in RowsOf(c)
                   PROVE  \/ Shows(c, i)'
                          \/ At(c, "ingest") /\ turn[c].id = i
                          \/ \E g \in Handlers : /\ Cuts(req'[g], c)
                                                 /\ \E k \in DOMAIN req'[g].todo :
                                                      req'[g].todo[k] = i \/ req'[g].todo[k] \notin RowsOf(c)
      BY <1>1, <2>1 DEF Entered, At
    <3>2. CASE Shows(c, i)
      <4>1. PICK k \in DOMAIN s : rows[i].seq = s[k].seq
        BY <3>2 DEF Shows
      <4>2. CASE s[k].seq < n
        BY <2>7, <3>2, <4>1, <4>2
      <4>3. CASE ~(s[k].seq < n)
        <5>1. s[k].seq >= n
          BY <1>4, <4>3
        <5>2. PICK l \in DOMAIN cut : cut[l] = s[k]
          BY <1>5, <5>1
        <5>3. req'[h].todo[l] = s[k].id /\ l \in DOMAIN req'[h].todo /\ Cuts(req'[h], c)
          BY <1>7, <1>9, <5>2 DEF Cuts
        <5>4. s[k].id \in RowsOf(c) => s[k].id = i
          <6>1. s[k].id \in RowsOf(c) => rows[s[k].id].seq = s[k].seq
            BY <1>1 DEF IdsInv, EntriesOK, Cached, RowsOf
          <6>. QED BY <4>1, <6>1, OneRow DEF TypeInv
        <5>. QED BY <5>3, <5>4
      <4>. QED BY <4>2, <4>3
    <3>3. CASE At(c, "ingest") /\ turn[c].id = i
      BY <3>3
    <3>4. CASE \E g \in Handlers : /\ Cuts(req[g], c)
                                   /\ \E k \in DOMAIN req[g].todo :
                                        req[g].todo[k] = i \/ req[g].todo[k] \notin RowsOf(c)
      <4>1. \A g \in Handlers : Cuts(req[g], c) => req'[g] = req[g]
        BY <1>1, <1>9 DEF Cuts
      <4>. QED BY <3>4, <4>1
    <3>. QED BY <1>11, <3>2, <3>3, <3>4 DEF Plain, Entered
  <2>9. Severed(c)'
    <3>1. SUFFICES ASSUME NEW g \in Handlers, Cuts(req'[g], c), NEW k \in DOMAIN req'[g].todo,
                          NEW j, j = req'[g].todo[k], j \in RowsOf(c), Shows(c, j)'
                   PROVE  FALSE
      BY <2>1 DEF Severed
    <3>2. CASE g = h
      <4>1. k \in DOMAIN cut /\ j = cut[k].id
        BY <1>7, <1>9, <3>1, <3>2
      <4>2. PICK l \in DOMAIN s : s[l].seq >= n /\ j = s[l].id
        BY <1>5, <4>1
      <4>3. rows[j].seq = s[l].seq
        BY <1>1, <3>1, <4>2 DEF IdsInv, EntriesOK, Cached, RowsOf
      <4>. QED BY <1>4, <2>6, <3>1, <4>2, <4>3
    <3>3. CASE g # h
      BY <1>9, <1>11, <2>6, <3>1, <3>3 DEF Plain, Severed
    <3>. QED BY <3>2, <3>3
  <2>10. Fresh(c)' /\ Held(c)'
    BY <1>1, <1>8, <1>11, <2>2 DEF Plain, Fresh, Held, At
  <2>. QED BY <2>3, <2>4, <2>5, <2>8, <2>9, <2>10 DEF Plain
<1>12. Calm(c)'
  <2>1. \A g \in Handlers : Touches(req'[g], c) /\ req'[g].op = "fork" => req'[g] = req[g]
    BY <1>7, <1>9
  <2>. QED BY <1>1, <1>11, <2>1, PlainStep DEF CalmInv
<1>. QED BY <1>10, <1>12 DEF CalmInv

LEMMA DeletePromptCalm ==
  ASSUME TypeInv, TypeInv', IdsInv, CalmInv, NEW h \in Handlers, DeletePrompt(h) PROVE CalmInv'
<1>. DEFINE r == req[h]
<1>0. /\ r # Absent /\ r.op = "truncate" /\ r \in Request /\ r.chat \in Chats
      /\ r.todo \in Seq(Ids) /\ r.todo # <<>> /\ Head(r.todo) \in Ids
      /\ UNCHANGED <<chats, cache, turn>>
  BY ServedType DEF DeletePrompt, Serves, TypeInv
<1>01. PICK c \in Chats : c = r.chat
  BY <1>0
<1>02. PICK i \in Ids : i = Head(r.todo)
  BY <1>0
<1>. DEFINE mine == rows[i] # Absent /\ rows[i].chat = c
            q == IF Len(r.todo) = 1 THEN Absent ELSE [r EXCEPT !.todo = Tail(r.todo)]
<1>1. /\ r # Absent /\ r.op = "truncate" /\ r \in Request /\ r.chat = c
      /\ r.todo \in Seq(Ids) /\ r.todo # <<>> /\ i = Head(r.todo)
      /\ UNCHANGED <<chats, cache, turn>>
  BY <1>0, <1>01, <1>02
<1>2. /\ req' = [req EXCEPT ![h] = q]
      /\ \/ /\ rows' = [rows EXCEPT ![i] = Absent]
            /\ odd' = IF mine THEN odd ELSE odd \cup {c} \cup {d \in Chats : i \in RowsOf(d)}
         \/ rows' = rows /\ odd' = odd \cup {c}
  BY <1>1 DEF DeletePrompt, Serving
<1>3. /\ q # Absent => Len(r.todo) # 1 /\ q.op = "truncate" /\ q.chat = c /\ q.todo = Tail(r.todo)
      /\ Len(r.todo) # 1 => q # Absent
  <2>1. Len(r.todo) # 1 => Tail(r.todo) \in Seq(Ids)
    BY <1>1, TailLeft
  <2>2. Len(r.todo) # 1 => q \in Request
    BY <1>1, <2>1 DEF Request
  <2>. QED BY <1>1, <2>2, AbsentIsNothing DEF Request
<1>4. NoneKnown
  BY DeletePromptIds
<1>5. \A d \in Chats : NoneMet(d)
  BY <1>4, NoneMetAny
<1>. HIDE DEF q
<1>6. \A g \in Handlers : req'[g] = IF g = h THEN q ELSE req[g]
  BY <1>2 DEF TypeInv, ReqOK
<1>7. ASSUME NEW d \in Chats, d # c, d \notin odd' PROVE Calm(d)'
  <2>1. rows' = rows \/ i \notin RowsOf(d)
    BY <1>2, <1>7 DEF RowsOf
  <2>2. RowsStay(d)
    <3>1. CASE rows' = rows
      BY <3>1, SameRows
    <3>2. CASE i \notin RowsOf(d) /\ rows' = [rows EXCEPT ![i] = Absent]
      <4>1. \A j \in Ids : rows'[j] = IF j = i THEN Absent ELSE rows[j]
        BY <3>2 DEF TypeInv, RowsOK
      <4>. QED BY <1>1, <3>2, <4>1 DEF RowsStay, RowsKeep, RowsOf
    <3>. QED BY <1>2, <2>1, <3>1, <3>2
  <2>3. ~Touches(r, d) /\ ~Touches(q, d)
    BY <1>1, <1>3, <1>7 DEF Touches
  <2>4. d \in odd => d \in odd'
    BY <1>2
  <2>. QED BY <1>1, <1>2, <1>5, <2>2, <2>3, <2>4, AsideCalm
<1>8. ASSUME c \notin odd', Plain(c), cache[c] # Absent PROVE Plain(c)'
  <2>1. mine /\ i \in RowsOf(c) /\ rows' = [rows EXCEPT ![i] = Absent]
    BY <1>1, <1>2, <1>8 DEF RowsOf
  <2>2. \A j \in Ids : rows'[j] = IF j = i THEN Absent ELSE rows[j]
    BY <2>1 DEF TypeInv, RowsOK
  <2>3. RowsOf(c)' = RowsOf(c) \ {i} /\ \A j \in RowsOf(c)' : rows'[j] = rows[j] /\ j \in RowsOf(c)
    BY <1>1, <2>2 DEF RowsOf
  <2>4. ~Shows(c, i)
    <3>1. i = r.todo[1] /\ 1 \in DOMAIN r.todo
      BY <1>1
    <3>. QED BY <1>1, <1>8, <2>1, <3>1 DEF Plain, Severed, Cuts
  <2>5. \A j \in RowsOf(c)' : Shows(c, j)' <=> Shows(c, j)
    BY <1>1, <2>3 DEF Shows
  <2>6. Private(c)' /\ Ascends(c)'
    BY <1>1, <1>5, <1>8, <2>3 DEF Plain, Private, Ascends, NoneMet
  <2>7. Backed(c)'
    <3>1. SUFFICES ASSUME NEW k \in DOMAIN cache[c]
                   PROVE  \E j \in RowsOf(c)' :
                            /\ rows'[j].seq = cache[c][k].seq /\ rows'[j].text = cache[c][k].text
                            /\ rows'[j].ev = cache[c][k].ev \/ Pending(turn[c], cache[c][k].id)
      BY <1>1 DEF Backed
    <3>2. PICK j \in RowsOf(c) :
            /\ rows[j].seq = cache[c][k].seq /\ rows[j].text = cache[c][k].text
            /\ rows[j].ev = cache[c][k].ev \/ Pending(turn[c], cache[c][k].id)
      BY <1>8 DEF Plain, Backed
    <3>3. j # i
      BY <2>4, <3>2 DEF Shows
    <3>. QED BY <2>3, <3>2, <3>3
  <2>8. \A l \in DOMAIN r.todo : l # 1 => l - 1 \in DOMAIN Tail(r.todo) /\ Tail(r.todo)[l - 1] = r.todo[l] /\ Len(r.todo) # 1
    <3>1. DOMAIN r.todo = 1..Len(r.todo) /\ Len(r.todo) \in Nat
      BY <1>1
    <3>2. Len(r.todo) # 1 => Len(Tail(r.todo)) = Len(r.todo) - 1 /\ Tail(r.todo) \in Seq(Ids)
      BY <1>1, TailLeft
    <3>3. Len(r.todo) # 1 => \A k \in DOMAIN Tail(r.todo) : Tail(r.todo)[k] = r.todo[k + 1]
      BY <1>1, TailLeft
    <3>4. Len(r.todo) # 1 => DOMAIN Tail(r.todo) = 1..(Len(r.todo) - 1)
      BY <3>2
    <3>. QED BY <3>1, <3>3, <3>4
  <2>9. \A l \in DOMAIN Tail(r.todo) : l + 1 \in DOMAIN r.todo /\ Tail(r.todo)[l] = r.todo[l + 1]
    BY <1>1
  <2>10. Entered(c)'
    <3>1. SUFFICES ASSUME NEW j \in RowsOf(c)'
                   PROVE  \/ Shows(c, j)'
                          \/ At(c, "ingest") /\ turn[c].id = j
                          \/ \E g \in Handlers : /\ Cuts(req'[g], c)
                                                 /\ \E k \in DOMAIN req'[g].todo :
                                                      req'[g].todo[k] = j \/ req'[g].todo[k] \notin RowsOf(c)'
      BY <1>1 DEF Entered, At
    <3>2. ASSUME NEW g \in Handlers, Cuts(req[g], c), NEW k \in DOMAIN req[g].todo,
                 req[g].todo[k] = j \/ req[g].todo[k] \notin RowsOf(c)
          PROVE  /\ Cuts(req'[g], c)
                 /\ \E l \in DOMAIN req'[g].todo :
                      req'[g].todo[l] = j \/ req'[g].todo[l] \notin RowsOf(c)'
      <4>1. CASE g # h
        BY <1>6, <2>3, <3>2, <4>1
      <4>2. CASE g = h
        <5>1. k # 1
          <6>1. i = r.todo[1] /\ i # j
            BY <1>1, <2>3
          <6>. QED BY <2>1, <3>2, <4>2, <6>1
        <5>2. Len(r.todo) # 1 /\ k - 1 \in DOMAIN Tail(r.todo) /\ Tail(r.todo)[k - 1] = r.todo[k]
          BY <2>8, <3>2, <4>2, <5>1
        <5>3. req'[h].todo = Tail(r.todo) /\ Cuts(req'[h], c)
          BY <1>3, <1>6, <5>2 DEF Cuts
        <5>. QED BY <2>3, <3>2, <4>2, <5>2, <5>3
      <4>. QED BY <4>1, <4>2
    <3>3. \/ Shows(c, j)
          \/ At(c, "ingest") /\ turn[c].id = j
          \/ \E g \in Handlers : /\ Cuts(req[g], c)
                                 /\ \E k \in DOMAIN req[g].todo :
                                      req[g].todo[k] = j \/ req[g].todo[k] \notin RowsOf(c)
      BY <1>8, <2>3 DEF Plain, Entered
    <3>. QED BY <2>5, <3>2, <3>3
  <2>11. Severed(c)'
    <3>1. SUFFICES ASSUME NEW g \in Handlers, Cuts(req'[g], c), NEW k \in DOMAIN req'[g].todo,
                          NEW j, j = req'[g].todo[k], j \in RowsOf(c)'
                   PROVE  ~Shows(c, j)'
      BY DEF Severed
    <3>2. Cuts(req[g], c) /\ \E l \in DOMAIN req[g].todo : req[g].todo[l] = j
      <4>1. CASE g # h
        BY <1>6, <3>1, <4>1
      <4>2. CASE g = h
        BY <1>1, <1>3, <1>6, <2>9, <3>1, <4>2 DEF Cuts
      <4>. QED BY <4>1, <4>2
    <3>. QED BY <1>8, <2>3, <2>5, <3>1, <3>2 DEF Plain, Severed
  <2>12. Fresh(c)' /\ Held(c)'
    BY <1>1, <1>8 DEF Plain, Fresh, Held, At
  <2>. QED BY <2>6, <2>7, <2>10, <2>11, <2>12 DEF Plain
<1>9. Calm(c)'
  <2>1. \A g \in Handlers : Touches(req'[g], c) /\ req'[g].op = "fork" => req'[g] = req[g]
    BY <1>3, <1>6 DEF Touches
  <2>2. c \in odd => c \in odd'
    BY <1>2
  <2>3. Touches(r, c)
    BY <1>1 DEF Touches
  <2>4. c \notin odd' => ~Forking(c)
    BY <1>1, <2>2, <2>3, NotForked DEF CalmInv
  <2>. QED BY <1>1, <1>8, <2>1, <2>2, <2>4, PlainStep DEF CalmInv
<1>10. \A d \in Chats : d \in odd' => Calm(d)'
  BY DEF Calm
<1>. QED BY <1>7, <1>9, <1>10 DEF CalmInv

\* Deletions and restores of a chat that is forked are known to differ.
LEMMA DeleteCalm ==
  ASSUME TypeInv, TypeInv', IdsInv, CalmInv, NEW h \in Handlers, NEW c \in Chats, Delete(h, c)
  PROVE  CalmInv'
<1>. DEFINE q == [op |-> "delete", at |-> "row", chat |-> c]
<1>1. /\ UNCHANGED <<chats, rows, cache, turn>> /\ req[h] = Absent /\ req' = [req EXCEPT ![h] = q]
      /\ odd' = IF Forking(c) THEN odd \cup {c} ELSE odd
  BY DEF Delete, Begin, tables, Touch
<1>2. q.op = "delete" /\ q.chat = c
  OBVIOUS
<1>. HIDE DEF q
<1>3. NoneKnown
  BY DeleteIds
<1>4. ASSUME NEW d \in Chats, d \notin odd' PROVE Calm(d)'
  <2>1. d # c \/ ~Forking(d)
    BY <1>1, <1>4
  <2>2. ~Shapes(req[h], d) /\ ~Shapes(q, d) /\ ~Touches(req[h], d) /\ (d # c => ~Touches(q, d))
    BY <1>1, <1>2 DEF Shapes, Touches
  <2>3. d \notin odd /\ RowsStay(d) /\ NoneMet(d)
    BY <1>1, <1>3, <1>4, SameRows, NoneMetAny
  <2>. QED BY <1>1, <2>1, <2>2, <2>3, AsideCalm
<1>. QED BY <1>4 DEF CalmInv, Calm

LEMMA RestoreCalm ==
  ASSUME TypeInv, TypeInv', IdsInv, CalmInv, NEW h \in Handlers, NEW c \in Chats, Restore(h, c)
  PROVE  CalmInv'
<1>. DEFINE q == [op |-> "restore", at |-> "ingest", chat |-> c]
<1>1. /\ UNCHANGED <<rows, cache, turn, odd>> /\ req[h] = Absent /\ req' = [req EXCEPT ![h] = q]
      /\ chats[c] = "removed" /\ chats' = [chats EXCEPT ![c] = "live"]
  BY DEF Restore, Begin
<1>2. q.op = "restore" /\ q.chat = c
  OBVIOUS
<1>. HIDE DEF q
<1>3. NoneKnown
  BY DeleteIds
<1>4. ASSUME NEW d \in Chats, d \notin odd' PROVE Calm(d)'
  <2>1. d # c \/ ~Forking(d)
    BY <1>1, <1>4 DEF CalmInv, Calm, Forked
  <2>2. ~Shapes(req[h], d) /\ ~Shapes(q, d) /\ ~Touches(req[h], d) /\ (d # c => ~Touches(q, d))
    BY <1>1, <1>2 DEF Shapes, Touches
  <2>3. d \notin odd /\ RowsStay(d) /\ NoneMet(d)
    BY <1>1, <1>3, <1>4, SameRows, NoneMetAny
  <2>4. d # c => chats'[d] = chats[d]
    BY <1>1 DEF TypeInv, RowsOK
  <2>. QED BY <1>1, <2>1, <2>2, <2>3, <2>4, AsideCalm
<1>. QED BY <1>4 DEF CalmInv, Calm

LEMMA DeleteChatCalm ==
  ASSUME TypeInv, TypeInv', IdsInv, CalmInv, NEW h \in Handlers, DeleteChat(h) PROVE CalmInv'
<1>0. /\ req[h] # Absent /\ req[h].op = "delete" /\ req[h] \in Request /\ req[h].chat \in Chats
  BY ServedType DEF DeleteChat, Serves, TypeInv
<1>01. PICK c \in Chats : c = req[h].chat
  BY <1>0
<1>. DEFINE q == [req[h] EXCEPT !.at = "evict"]
<1>1. /\ UNCHANGED <<rows, cache, turn, odd>> /\ req' = [req EXCEPT ![h] = q]
      /\ \A d \in Chats : d # c => chats'[d] = chats[d]
  BY <1>01 DEF DeleteChat, Serving, Kept, TypeInv, RowsOK
<1>2. q.op = "delete" /\ q.chat = c
  BY <1>0, <1>01 DEF Request
<1>. HIDE DEF q
<1>3. NoneKnown
  BY DeleteChatIds
<1>4. ASSUME NEW d \in Chats, d \notin odd' PROVE Calm(d)'
  <2>1. d # c \/ ~Forking(d)
    <3>1. Touches(req[h], c)
      BY <1>0, <1>01 DEF Touches
    <3>. QED BY <1>0, <1>1, <1>4, <3>1, NotForked DEF CalmInv
  <2>2. ~Shapes(req[h], d) /\ ~Shapes(q, d) /\ (d # c => ~Touches(req[h], d) /\ ~Touches(q, d))
    BY <1>0, <1>01, <1>2 DEF Shapes, Touches
  <2>3. d \notin odd /\ RowsStay(d) /\ NoneMet(d)
    BY <1>1, <1>3, <1>4, SameRows, NoneMetAny
  <2>. QED BY <1>1, <2>1, <2>2, <2>3, AsideCalm
<1>. QED BY <1>4 DEF CalmInv, Calm

\* A chat leaves the cache, or comes back to it without its prompts.
LEMMA EvictCalm ==
  ASSUME TypeInv, TypeInv', IdsInv, CalmInv, NEW h \in Handlers, Evict(h) \/ IngestChat(h) PROVE CalmInv'
<1>0. /\ req[h] # Absent /\ req[h].op \in {"delete", "restore"} /\ req[h].chat \in Chats
  BY ServedType DEF Evict, IngestChat, Serves, TypeInv
<1>01. PICK c \in Chats : c = req[h].chat
  BY <1>0
<1>1. /\ UNCHANGED <<chats, rows, turn>> /\ req' = [req EXCEPT ![h] = Absent]
      /\ \A d \in Chats : d # c => cache'[d] = cache[d]
      /\ (odd' = odd /\ cache'[c] = Absent) \/ odd' = odd \cup {c}
  BY <1>01 DEF Evict, IngestChat, Serving, Kept, tables, TypeInv, CacheOK
<1>2. NoneKnown
  BY EvictIds
<1>3. ASSUME NEW d \in Chats, d # c PROVE Calm(d)'
  <2>1. ~Touches(req[h], d) /\ ~Touches(Absent, d)
    BY <1>0, <1>01, <1>3 DEF Touches
  <2>2. RowsStay(d) /\ NoneMet(d)
    BY <1>1, <1>2, SameRows, NoneMetAny
  <2>. QED BY <1>1, <1>3, <2>1, <2>2, AsideCalm
<1>4. Calm(c)'
  <2>1. CASE odd' = odd \cup {c}
    BY <2>1 DEF Calm
  <2>2. CASE odd' = odd /\ cache'[c] = Absent
    <3>1. Touches(req[h], c)
      BY <1>0, <1>01 DEF Touches
    <3>2. c \notin odd' => ~Forking(c)
      BY <1>0, <2>2, <3>1, NotForked DEF CalmInv
    <3>3. \A g \in Handlers : req'[g] = IF g = h THEN Absent ELSE req[g]
      BY <1>1 DEF TypeInv, ReqOK
    <3>4. \A g \in Handlers : Touches(req'[g], c) => req'[g] = req[g]
      BY <3>3 DEF Touches
    <3>. QED BY <2>2, <3>2, <3>4, PlainStep DEF CalmInv
  <2>. QED BY <1>1, <2>1, <2>2
<1>. QED BY <1>3, <1>4 DEF CalmInv

LEMMA HangUpCalm ==
  ASSUME TypeInv, TypeInv', IdsInv, CalmInv, NEW h \in Handlers, HangUp(h) PROVE CalmInv'
<1>1. /\ UNCHANGED <<chats, rows, cache, turn>> /\ req[h] # Absent /\ req' = [req EXCEPT ![h] = Absent]
      /\ odd' = odd \cup {c \in Chats : h \in On(c)}
  BY DEF HangUp, Serving, tables
<1>2. NoneKnown
  BY HangUpIds
<1>3. ASSUME NEW d \in Chats, d \notin odd' PROVE Calm(d)'
  <2>1. ~Touches(req[h], d) /\ ~Touches(Absent, d)
    BY <1>1, <1>3 DEF Touches, On
  <2>2. d \notin odd /\ RowsStay(d) /\ NoneMet(d)
    BY <1>1, <1>2, <1>3, SameRows, NoneMetAny
  <2>. QED BY <1>1, <2>1, <2>2, AsideCalm
<1>. QED BY <1>3 DEF CalmInv, Calm

\* The copy starts out with the numbers of its source, and no rows.
LEMMA ForkCalm ==
  ASSUME TypeInv, TypeInv', IdsInv, CalmInv,
         NEW h \in Handlers, NEW c \in Chats, NEW n \in Ids, NEW t \in Chats, Fork(h, c, n, t)
  PROVE  CalmInv'
<1>01. PICK prefix : prefix = Picked(cache[c], {k \in DOMAIN cache[c] : cache[c][k].seq <= n})
  OBVIOUS
<1>. DEFINE q == [op |-> "fork", at |-> "create", chat |-> t, temp |-> t,
                  todo |-> prefix, seq |-> 0, id |-> 0]
<1>1. /\ UNCHANGED <<chats, rows, turn>> /\ req[h] = Absent /\ t \in Unused
      /\ req' = [req EXCEPT ![h] = q] /\ cache' = [cache EXCEPT ![t] = prefix]
      /\ odd' = IF \A k \in DOMAIN prefix : prefix[k].seq = k THEN odd \ {t} ELSE odd \cup {t}
  BY <1>01 DEF Fork, Begin, tables
<1>2. /\ q.op = "fork" /\ q.at = "create" /\ q.chat = t /\ q.temp = t /\ q.todo = prefix
      /\ q # Absent
  <2>1. cache[c] \in Seq(Prompt)
    BY DEF Fork, Cached, TypeInv, CacheOK
  <2>2. {k \in DOMAIN cache[c] : cache[c][k].seq <= n} \in SUBSET DOMAIN cache[c]
    OBVIOUS
  <2>3. prefix \in Seq(Prompt)
    BY <1>01, <2>1, <2>2, PickedFrom
  <2>4. q \in Request
    BY <2>3 DEF Request
  <2>. QED BY <2>4, AbsentIsNothing
<1>. HIDE DEF q
<1>3. /\ \A g \in Handlers : req'[g] = IF g = h THEN q ELSE req[g]
      /\ cache'[t] = prefix /\ \A d \in Chats : d # t => cache'[d] = cache[d]
  BY <1>1 DEF TypeInv, ReqOK, CacheOK
<1>4. NoneKnown
  BY ForkIds
<1>5. ASSUME NEW d \in Chats, d # t PROVE Calm(d)'
  <2>1. ~Touches(req[h], d) /\ ~Touches(q, d)
    BY <1>1, <1>2, <1>5 DEF Touches
  <2>2. (d \in odd => d \in odd') /\ RowsStay(d) /\ NoneMet(d)
    BY <1>1, <1>4, <1>5, SameRows, NoneMetAny
  <2>. QED BY <1>1, <1>3, <1>5, <2>1, <2>2, AsideCalm
<1>6. ASSUME t \notin odd' PROVE Calm(t)'
  <2>1. \A k \in DOMAIN prefix : prefix[k].seq = k
    BY <1>1, <1>6
  <2>2. /\ chats[t] = "none" /\ turn[t] = Absent /\ RowsOf(t) = {}
        /\ \A g \in Handlers : ~Touches(req[g], t)
    BY <1>1, UnusedChat
  <2>3. \A g \in Handlers : Touches(req'[g], t) => g = h
    BY <1>3, <2>2
  <2>4. Touches(req'[h], t)
    BY <1>2, <1>3 DEF Touches
  <2>5. Stage(h, t)'
    BY <1>1, <1>2, <1>3, <2>1, <2>2 DEF Stage, Numbered, RowsOf
  <2>6. Forked(t)'
    BY <1>1, <1>2, <1>3, <2>2, <2>3, <2>5 DEF Forked
  <2>7. Forking(t)'
    BY <1>2, <1>3, <2>4 DEF Forking, On, Touches
  <2>. QED BY <2>6, <2>7 DEF Calm
<1>7. t \in odd' => Calm(t)'
  BY DEF Calm
<1>. QED BY <1>5, <1>6, <1>7 DEF CalmInv

\* The fork of handler h, and the chat that it copies to.
LEMMA ForkOf ==
  ASSUME TypeInv, RegInv, NEW h \in Handlers, req[h] # Absent, req[h].op = "fork"
  PROVE  /\ req[h] \in Request /\ req[h].chat \in Chats /\ req[h].temp \in Chats
         /\ req[h].todo \in Seq(Prompt) /\ req[h].todo # <<>> /\ req[h].todo # Absent
         /\ req[h].at = "create" <=> req[h].chat = req[h].temp
<1>1. /\ req[h] \in Request /\ req[h].chat \in Chats /\ req[h].temp \in Chats
      /\ req[h].todo \in Seq(Prompt) /\ req[h].todo # <<>>
  BY ServedType DEF TypeInv
<1>2. req[h].at = "create" <=> req[h].chat = req[h].temp
  BY DEF RegInv, Named
<1>. QED BY <1>1, <1>2, AbsentIsNothing

LEMMA ForkStage ==
  ASSUME CalmInv, NEW h \in Handlers, req[h] # Absent, req[h].op = "fork",
         NEW c \in Chats, c \notin odd, Touches(req[h], c)
  PROVE  /\ turn[c] = Absent /\ chats[c] # "removed" /\ Stage(h, c)
         /\ \A g \in Handlers : Touches(req[g], c) => g = h
<1>1. Forking(c)
  BY DEF Forking, On, Touches
<1>2. Forked(c)
  BY <1>1 DEF CalmInv, Calm
<1>. QED BY <1>2 DEF Forked

\* The fork goes on to its next step, on a chat that only it is on.
LEMMA ForkGoes ==
  ASSUME NEW h \in Handlers, NEW c \in Chats, Touches(req'[h], c), req'[h].op = "fork",
         \A g \in Handlers : Touches(req'[g], c) => g = h,
         turn'[c] = Absent, chats'[c] # "removed", Stage(h, c)'
  PROVE  Calm(c)'
<1>1. Forked(c)'
  BY DEF Forked
<1>2. Forking(c)'
  BY DEF Forking, On, Touches
<1>. QED BY <1>1, <1>2 DEF Calm

\* The chat that it leaves behind.
LEMMA ForkLeaves ==
  ASSUME NEW c \in Chats, \A g \in Handlers : ~Touches(req'[g], c),
         cache'[c] # Absent => Plain(c)'
  PROVE  Calm(c)'
<1>1. ~Forking(c)'
  BY DEF Forking, On, Touches
<1>. QED BY <1>1 DEF Calm

LEMMA ForkCreateCalm ==
  ASSUME TypeInv, TypeInv', IdsInv, RegInv, CalmInv, NEW h \in Handlers, NEW f \in Chats, ForkCreate(h, f)
  PROVE  CalmInv'
<1>0. /\ req[h] # Absent /\ req[h].op = "fork" /\ req[h].at = "create"
      /\ UNCHANGED <<rows, cache, turn>>
  BY DEF ForkCreate, Serves
<1>1. /\ req[h] \in Request /\ req[h].temp \in Chats /\ req[h].chat = req[h].temp /\ f \in Unused
  BY <1>0, ForkOf DEF ForkCreate
<1>2. PICK t \in Chats : t = req[h].temp
  BY <1>1
<1>3. Touches(req[h], t) /\ t # f
  <2>1. Touches(req[h], t)
    BY <1>0, <1>2 DEF Touches
  <2>. QED BY <1>1, <2>1, UnusedChat
<1>4. NoneKnown
  BY ForkCreateIds
<1>5. \A d \in Chats : RowsStay(d) /\ NoneMet(d)
  BY <1>0, <1>4, SameRows, NoneMetAny
<1>6. CASE /\ chats' = [chats EXCEPT ![f] = "live"] /\ odd' = odd \ {f}
           /\ Serving(h, [req[h] EXCEPT !.at = "rekey", !.chat = f])
  <2>. DEFINE q == [req[h] EXCEPT !.at = "rekey", !.chat = f]
  <2>1. /\ q.op = "fork" /\ q.at = "rekey" /\ q.chat = f /\ q.temp = t /\ q.todo = req[h].todo
        /\ q # Absent
    <3>1. q \in Request
      BY <1>0, <1>1 DEF Request
    <3>. QED BY <1>0, <1>1, <1>2, <3>1, AbsentIsNothing DEF Request
  <2>2. req' = [req EXCEPT ![h] = q]
    BY <1>6 DEF Serving
  <2>. HIDE DEF q
  <2>3. /\ \A g \in Handlers : req'[g] = IF g = h THEN q ELSE req[g]
        /\ chats'[f] = "live" /\ \A d \in Chats : d # f => chats'[d] = chats[d]
    BY <1>6, <2>2 DEF TypeInv, ReqOK, RowsOK
  <2>4. ASSUME NEW d \in Chats, d \notin {f, t} PROVE Calm(d)'
    <3>1. ~Touches(req[h], d) /\ ~Touches(q, d)
      BY <1>1, <1>2, <2>1, <2>4 DEF Touches
    <3>. QED BY <1>0, <1>5, <1>6, <2>2, <2>3, <2>4, <3>1, AsideCalm
  <2>5. ASSUME t \notin odd' PROVE Calm(t)'
    <3>1. /\ turn[t] = Absent /\ chats[t] # "removed" /\ Stage(h, t)
          /\ \A g \in Handlers : Touches(req[g], t) => g = h
      BY <1>0, <1>3, <1>6, <2>5, ForkStage
    <3>2. Touches(req'[h], t) /\ req'[h].op = "fork" /\ \A g \in Handlers : Touches(req'[g], t) => g = h
      BY <2>1, <2>3, <3>1 DEF Touches
    <3>3. Stage(h, t)'
      BY <1>0, <1>2, <2>1, <2>3, <3>1 DEF Stage, RowsOf
    <3>. QED BY <1>0, <1>3, <2>3, <3>1, <3>2, <3>3, ForkGoes
  <2>6. Calm(f)'
    <3>1. /\ turn[f] = Absent /\ cache[f] = Absent /\ RowsOf(f) = {}
          /\ \A g \in Handlers : ~Touches(req[g], f)
      BY <1>1, UnusedChat
    <3>2. Touches(req'[h], f) /\ req'[h].op = "fork" /\ \A g \in Handlers : Touches(req'[g], f) => g = h
      BY <2>1, <2>3, <3>1 DEF Touches
    <3>3. Stage(h, f)'
      BY <1>0, <1>3, <2>1, <2>3, <3>1 DEF Stage, RowsOf
    <3>. QED BY <1>0, <2>3, <3>1, <3>2, <3>3, ForkGoes
  <2>. QED BY <2>4, <2>5, <2>6 DEF CalmInv, Calm
<1>7. CASE chats' = chats /\ odd' = odd \cup {req[h].temp} /\ Serving(h, Absent)
  <2>1. ASSUME NEW d \in Chats, d # t PROVE Calm(d)'
    <3>1. ~Touches(req[h], d) /\ ~Touches(Absent, d)
      BY <1>1, <1>2, <2>1 DEF Touches
    <3>. QED BY <1>0, <1>5, <1>7, <3>1, AsideCalm DEF Serving
  <2>. QED BY <1>2, <1>7, <2>1 DEF CalmInv, Calm
<1>. QED BY <1>6, <1>7 DEF ForkCreate

LEMMA RekeyCalm ==
  ASSUME TypeInv, TypeInv', IdsInv, RegInv, CalmInv, NEW h \in Handlers, Rekey(h) PROVE CalmInv'
<1>0. /\ req[h] # Absent /\ req[h].op = "fork" /\ req[h].at = "rekey"
      /\ UNCHANGED <<chats, rows, turn>>
  BY DEF Rekey, Serves, tables
<1>1. /\ req[h] \in Request /\ req[h].chat \in Chats /\ req[h].temp \in Chats /\ req[h].chat # req[h].temp
      /\ req[h].todo # Absent
  BY <1>0, ForkOf
<1>2. PICK f \in Chats, t \in Chats : f = req[h].chat /\ t = req[h].temp
  BY <1>1
<1>. DEFINE q == [req[h] EXCEPT !.at = "max"]
<1>3. /\ q.op = "fork" /\ q.at = "max" /\ q.chat = f /\ q.temp = t /\ q.todo = req[h].todo
      /\ q # Absent
  <2>1. q \in Request
    BY <1>0, <1>1 DEF Request
  <2>. QED BY <1>0, <1>1, <1>2, <2>1, AbsentIsNothing DEF Request
<1>4. /\ req' = [req EXCEPT ![h] = q]
      /\ cache' = IF cache[t] = Absent THEN cache ELSE [cache EXCEPT ![f] = cache[t], ![t] = Absent]
      /\ odd' = IF t \in odd THEN odd \cup {f} ELSE odd
  BY <1>2 DEF Rekey, Serving
<1>. HIDE DEF q
<1>5. /\ \A g \in Handlers : req'[g] = IF g = h THEN q ELSE req[g]
      /\ f # t /\ cache'[t] = Absent
      /\ cache[t] # Absent => cache'[f] = cache[t]
      /\ \A d \in Chats : d \notin {f, t} => cache'[d] = cache[d]
  BY <1>1, <1>2, <1>4 DEF TypeInv, ReqOK, CacheOK
<1>6. NoneKnown
  BY RekeyIds
<1>7. ASSUME NEW d \in Chats, d \notin {f, t} PROVE Calm(d)'
  <2>1. ~Touches(req[h], d) /\ ~Touches(q, d)
    BY <1>2, <1>3, <1>7 DEF Touches
  <2>2. (d \in odd => d \in odd') /\ RowsStay(d) /\ NoneMet(d)
    BY <1>0, <1>4, <1>6, SameRows, NoneMetAny
  <2>. QED BY <1>0, <1>4, <1>5, <1>7, <2>1, <2>2, AsideCalm
<1>8. ASSUME t \notin odd'
      PROVE  /\ turn[t] = Absent /\ chats[t] # "removed"
             /\ cache[t] = req[h].todo /\ Numbered(req[h].todo)
             /\ \A g \in Handlers : Touches(req[g], t) => g = h
  <2>1. t \notin odd /\ Touches(req[h], t)
    BY <1>0, <1>2, <1>4, <1>8 DEF Touches
  <2>. QED BY <1>0, <1>2, <2>1, ForkStage DEF Stage
<1>9. ASSUME t \notin odd' PROVE Calm(t)'
  <2>1. Touches(req'[h], t) /\ req'[h].op = "fork" /\ \A g \in Handlers : Touches(req'[g], t) => g = h
    BY <1>3, <1>5, <1>8, <1>9 DEF Touches
  <2>2. Stage(h, t)'
    BY <1>3, <1>5 DEF Stage
  <2>. QED BY <1>0, <1>8, <1>9, <2>1, <2>2, ForkGoes
<1>10. ASSUME f \notin odd' PROVE Calm(f)'
  <2>1. f \notin odd /\ t \notin odd' /\ Touches(req[h], f)
    BY <1>0, <1>2, <1>4, <1>5, <1>10 DEF Touches
  <2>2. /\ turn[f] = Absent /\ chats[f] # "removed" /\ RowsOf(f) = {}
        /\ \A g \in Handlers : Touches(req[g], f) => g = h
    BY <1>0, <1>2, <1>5, <2>1, ForkStage DEF Stage
  <2>3. Touches(req'[h], f) /\ req'[h].op = "fork" /\ \A g \in Handlers : Touches(req'[g], f) => g = h
    BY <1>3, <1>5, <2>2 DEF Touches
  <2>4. /\ cache'[f] = req'[h].todo /\ cache'[f] # Absent /\ Numbered(cache'[f]) /\ req'[h].at = "max"
        /\ RowsOf(f)' = {}
    BY <1>0, <1>1, <1>3, <1>5, <1>8, <2>1, <2>2 DEF RowsOf
  <2>5. cache'[f] \in Seq(Prompt)
    BY <2>4 DEF TypeInv, CacheOK
  <2>6. /\ Len(cache'[f]) = 0 + Len(req'[h].todo)
        /\ \A k \in DOMAIN req'[h].todo : req'[h].todo[k] = cache'[f][0 + k]
    BY <2>4, <2>5
  <2>7. Underway(h, f, 0)'
    BY <2>4, <2>6 DEF Underway
  <2>8. Stage(h, f)'
    <3>1. \E m \in Nat : Underway(h, f, m)'
      BY <2>7
    <3>. QED BY <1>3, <1>5, <3>1 DEF Stage
  <2>. QED BY <1>0, <2>2, <2>3, <2>8, ForkGoes
<1>. QED BY <1>7, <1>9, <1>10 DEF CalmInv, Calm

\* A step of a fork that is copying concerns no chat but its own.
LEMMA CopyCalm ==
  ASSUME TypeInv, CalmInv, NEW h \in Handlers, req[h] # Absent, req[h].op = "fork",
         req[h].at \notin {"create", "rekey"},
         NEW f \in Chats, f = req[h].chat, NEW t \in Chats, t = req[h].temp, f # t,
         NEW q, req' = [req EXCEPT ![h] = q],
         q # Absent => q.op = "fork" /\ q.chat = f /\ q.temp = t /\ q.at \notin {"create", "rekey"},
         UNCHANGED <<chats, cache, turn>>, odd \subseteq odd',
         \A d \in Chats : d # f => RowsStay(d) /\ NoneMet(d),
         f \notin odd' => Calm(f)'
  PROVE  CalmInv'
<1>1. \A g \in Handlers : req'[g] = IF g = h THEN q ELSE req[g]
  BY DEF TypeInv, ReqOK
<1>2. ASSUME NEW d \in Chats, d \notin {f, t} PROVE Calm(d)'
  <2>1. ~Touches(req[h], d) /\ ~Touches(q, d)
    BY <1>2 DEF Touches
  <2>. QED BY <1>2, <2>1, AsideCalm
<1>3. ASSUME t \notin odd' PROVE Calm(t)'
  <2>1. t \notin odd /\ Touches(req[h], t)
    BY <1>3 DEF Touches
  <2>2. /\ turn[t] = Absent /\ chats[t] # "removed" /\ cache[t] = Absent
        /\ \A g \in Handlers : Touches(req[g], t) => g = h
    BY <2>1, ForkStage DEF Stage
  <2>3. CASE q = Absent
    <3>1. \A g \in Handlers : ~Touches(req'[g], t)
      BY <1>1, <2>2, <2>3 DEF Touches
    <3>. QED BY <2>2, <3>1, ForkLeaves
  <2>4. CASE q # Absent
    <3>1. Touches(req'[h], t) /\ req'[h].op = "fork" /\ \A g \in Handlers : Touches(req'[g], t) => g = h
      BY <1>1, <2>2, <2>4 DEF Touches
    <3>2. Stage(h, t)'
      BY <1>1, <2>2, <2>4 DEF Stage
    <3>. QED BY <2>2, <3>1, <3>2, ForkGoes
  <2>. QED BY <2>3, <2>4
<1>. QED BY <1>2, <1>3 DEF CalmInv, Calm

\* What is known of the fork's own chat between two steps.
LEMMA CopyHas ==
  ASSUME TypeInv, RegInv, CalmInv, NEW h \in Handlers, req[h] # Absent, req[h].op = "fork",
         req[h].at \notin {"create", "rekey"},
         NEW f \in Chats, f = req[h].chat, f \notin odd
  PROVE  /\ turn[f] = Absent /\ chats[f] # "removed"
         /\ \A g \in Handlers : Touches(req[g], f) => g = h
         /\ \E m \in Nat : Underway(h, f, m)
<1>1. Touches(req[h], f)
  BY DEF Touches
<1>2. req[h].temp # f
  BY ForkOf
<1>. QED BY <1>1, <1>2, ForkStage DEF Stage

\* A chat whose numbers have no gap.
LEMMA NextNumber ==
  ASSUME TypeInv, NEW c \in Chats, NEW m \in Nat,
         \A i \in RowsOf(c) : rows[i].seq \in 1..m,
         \A k \in 1..m : \E i \in RowsOf(c) : rows[i].seq = k
  PROVE  NextSeq(c) = m + 1
<1>1. Seqs(c) = 1..m
  BY DEF Seqs
<1>2. CASE m = 0
  BY <1>1, <1>2 DEF NextSeq
<1>3. CASE m # 0
  <2>. DEFINE high == CHOOSE n \in Seqs(c) : \A l \in Seqs(c) : l <= n
  <2>1. m \in Seqs(c) /\ \A l \in Seqs(c) : l <= m
    BY <1>1, <1>3
  <2>2. high \in Seqs(c) /\ \A l \in Seqs(c) : l <= high
    BY <2>1
  <2>3. Seqs(c) # {}
    BY <2>1
  <2>4. NextSeq(c) = 1 + high
    BY <2>3 DEF NextSeq
  <2>. HIDE DEF high
  <2>5. high \in Nat /\ high <= m /\ m <= high
    BY <1>1, <2>1, <2>2
  <2>. QED BY <2>4, <2>5
<1>. QED BY <1>2, <1>3

LEMMA ForkNumberCalm ==
  ASSUME TypeInv, TypeInv', IdsInv, RegInv, CalmInv, NEW h \in Handlers, ForkNumber(h) PROVE CalmInv'
<1>0. /\ req[h] # Absent /\ req[h].op = "fork" /\ req[h].at = "max"
      /\ UNCHANGED <<chats, rows, cache, turn, odd>>
  BY DEF ForkNumber, Serves, tables, Kept
<1>1. /\ req[h] \in Request /\ req[h].chat \in Chats /\ req[h].temp \in Chats /\ req[h].chat # req[h].temp
  BY <1>0, ForkOf
<1>2. PICK f \in Chats, t \in Chats : f = req[h].chat /\ t = req[h].temp
  BY <1>1
<1>. DEFINE q == [req[h] EXCEPT !.at = "insert", !.seq = NextSeq(f)]
<1>3. /\ q.op = "fork" /\ q.at = "insert" /\ q.chat = f /\ q.temp = t /\ q.todo = req[h].todo
      /\ q.seq = NextSeq(f) /\ q # Absent
  <2>1. NextSeq(f) \in Nat
    BY NextSeqBeyond DEF TypeInv
  <2>2. q \in Request
    BY <1>0, <1>1, <2>1 DEF Request
  <2>. QED BY <1>0, <1>1, <1>2, <2>2, AbsentIsNothing DEF Request
<1>4. req' = [req EXCEPT ![h] = q]
  BY <1>2 DEF ForkNumber, Serving
<1>. HIDE DEF q
<1>5. \A g \in Handlers : req'[g] = IF g = h THEN q ELSE req[g]
  BY <1>4 DEF TypeInv, ReqOK
<1>6. NoneKnown
  BY ForkNumberIds
<1>7. \A d \in Chats : RowsStay(d) /\ NoneMet(d)
  BY <1>0, <1>6, SameRows, NoneMetAny
<1>8. ASSUME f \notin odd' PROVE Calm(f)'
  <2>1. /\ turn[f] = Absent /\ chats[f] # "removed" /\ \A g \in Handlers : Touches(req[g], f) => g = h
        /\ \E m \in Nat : Underway(h, f, m)
    BY <1>0, <1>2, <1>8, CopyHas
  <2>2. PICK m \in Nat : Underway(h, f, m)
    BY <2>1
  <2>3. NextSeq(f) = m + 1
    BY <1>0, <2>2, NextNumber DEF Underway
  <2>4. \A i \in RowsOf(f) : ~Known(i)'
    BY <1>7, <2>2 DEF Underway, NoneMet
  <2>5. Underway(h, f, m)'
    <3>1. RowsOf(f)' = RowsOf(f)
      BY <1>0 DEF RowsOf
    <3>2. req'[h].at = "insert" /\ req'[h].todo = req[h].todo /\ req'[h].seq = m + 1
      BY <1>3, <1>5, <2>3
    <3>3. \A i \in RowsOf(f) : /\ rows[i].seq \in 1..m /\ rows[i].text = cache[f][rows[i].seq].text
                               /\ rows[i].ev = cache[f][rows[i].seq].ev
      BY <1>0, <2>2 DEF Underway
    <3>4. /\ cache[f] # Absent /\ Numbered(cache[f]) /\ Len(cache[f]) = m + Len(req[h].todo)
          /\ \A k \in DOMAIN req[h].todo : req[h].todo[k] = cache[f][m + k]
          /\ \A k \in 1..m : \E i \in RowsOf(f) : rows[i].seq = k
      BY <2>2 DEF Underway
    <3>. QED BY <1>0, <2>4, <3>1, <3>2, <3>3, <3>4 DEF Underway
  <2>6. Stage(h, f)'
    BY <1>1, <1>2, <1>3, <1>5, <2>5 DEF Stage
  <2>7. Touches(req'[h], f) /\ req'[h].op = "fork" /\ \A g \in Handlers : Touches(req'[g], f) => g = h
    BY <1>3, <1>5, <2>1 DEF Touches
  <2>. QED BY <1>0, <2>1, <2>6, <2>7, ForkGoes
<1>. QED BY <1>0, <1>1, <1>2, <1>3, <1>4, <1>7, <1>8, CopyCalm

\* The fork goes on to the next prompt, if there is one.
LEMMA CopiedOf ==
  ASSUME TypeInv, NEW h \in Handlers, req[h] # Absent, req[h].op = "fork", Copied(h)
  PROVE  \E q : /\ req' = [req EXCEPT ![h] = q]
                /\ Len(req[h].todo) = 1 => q = Absent
                /\ Len(req[h].todo) # 1 =>
                     /\ q # Absent /\ q.op = "fork" /\ q.chat = req[h].chat /\ q.temp = req[h].temp
                     /\ q.at = "max" /\ q.todo = Tail(req[h].todo)
<1>. DEFINE q == [req[h] EXCEPT !.at = "max", !.todo = Tail(req[h].todo)]
<1>1. /\ req[h] \in Request /\ req[h].todo \in Seq(Prompt) /\ req[h].todo # <<>>
  BY ServedType DEF TypeInv
<1>2. CASE Len(req[h].todo) = 1
  BY <1>2 DEF Copied, Serving
<1>3. CASE Len(req[h].todo) # 1
  <2>1. Tail(req[h].todo) \in Seq(Prompt)
    BY <1>1, <1>3, TailLeft
  <2>2. /\ q.op = "fork" /\ q.chat = req[h].chat /\ q.temp = req[h].temp
        /\ q.at = "max" /\ q.todo = Tail(req[h].todo)
    BY <1>1 DEF Request
  <2>3. q \in Request
    BY <1>1, <2>1 DEF Request
  <2>4. q # Absent
    BY <2>3, AbsentIsNothing
  <2>5. req' = [req EXCEPT ![h] = q]
    BY <1>3 DEF Copied, Serving
  <2>. QED BY <1>3, <2>2, <2>4, <2>5
<1>. QED BY <1>2, <1>3

LEMMA ForkInsertCalm ==
  ASSUME TypeInv, TypeInv', IdsInv, RegInv, CalmInv, NEW h \in Handlers, ForkInsert(h) PROVE CalmInv'
<1>0. /\ req[h] # Absent /\ req[h].op = "fork" /\ req[h].at = "insert"
      /\ UNCHANGED <<chats, cache, turn>>
  BY DEF ForkInsert, Serves
<1>1. /\ req[h] \in Request /\ req[h].chat \in Chats /\ req[h].temp \in Chats /\ req[h].chat # req[h].temp
      /\ req[h].todo \in Seq(Prompt) /\ req[h].todo # <<>> /\ Head(req[h].todo) \in Prompt
  BY <1>0, ForkOf, ServedType DEF TypeInv
<1>2. PICK f \in Chats, t \in Chats : f = req[h].chat /\ t = req[h].temp
  BY <1>1
<1>3. NoneKnown
  BY ForkInsertIds
<1>4. \A d \in Chats : NoneMet(d)
  BY <1>3, NoneMetAny
<1>5. CASE /\ issued < MaxPrompts
           /\ issued' = issued + 1
           /\ rows' = [rows EXCEPT ![issued'] =
                [chat |-> req[h].chat, text |-> Head(req[h].todo).text, seq |-> req[h].seq, ev |-> 0]]
           /\ Serving(h, [req[h] EXCEPT !.at = "events", !.id = issued'])
           /\ UNCHANGED odd
  <2>1. PICK new \in Ids : new = issued' /\ rows[new] = Absent /\ ~Known(new)
    BY <1>5, FreshId DEF TypeInv
  <2>. DEFINE w == [chat |-> f, text |-> Head(req[h].todo).text, seq |-> req[h].seq, ev |-> 0]
              q == [req[h] EXCEPT !.at = "events", !.id = new]
  <2>2. /\ q.op = "fork" /\ q.at = "events" /\ q.chat = f /\ q.temp = t /\ q.todo = req[h].todo
        /\ q.id = new /\ q # Absent
    <3>1. q \in Request
      BY <1>0, <1>1 DEF Request
    <3>. QED BY <1>0, <1>1, <1>2, <3>1, AbsentIsNothing DEF Request
  <2>3. w.chat = f /\ w.seq = req[h].seq /\ w.text = Head(req[h].todo).text /\ w # Absent
    <3>1. req[h].seq \in Nat
      BY <1>0, <1>1 DEF Request
    <3>2. w \in RowOf
      BY <1>1, <3>1, ParametersOK DEF RowOf, Prompt
    <3>. QED BY <3>2, AbsentIsNothing
  <2>4. req' = [req EXCEPT ![h] = q] /\ rows' = [rows EXCEPT ![new] = w]
    BY <1>2, <1>5, <2>1 DEF Serving
  <2>. HIDE DEF q, w
  <2>5. /\ \A g \in Handlers : req'[g] = IF g = h THEN q ELSE req[g]
        /\ \A i \in Ids : rows'[i] = IF i = new THEN w ELSE rows[i]
    BY <2>4 DEF TypeInv, ReqOK, RowsOK
  <2>6. /\ RowsOf(f)' = RowsOf(f) \cup {new} /\ new \notin RowsOf(f)
        /\ \A i \in RowsOf(f) : rows'[i] = rows[i] /\ i # new
        /\ \A d \in Chats : d # f => RowsStay(d)
    BY <2>1, <2>3, <2>5 DEF RowsOf, RowsStay, RowsKeep
  <2>7. ASSUME f \notin odd' PROVE Calm(f)'
    <3>1. /\ turn[f] = Absent /\ chats[f] # "removed" /\ \A g \in Handlers : Touches(req[g], f) => g = h
          /\ \E m \in Nat : Underway(h, f, m)
      BY <1>0, <1>2, <1>5, <2>7, CopyHas
    <3>2. PICK m \in Nat : Underway(h, f, m)
      BY <3>1
    <3>3. /\ cache[f] # Absent /\ Numbered(cache[f]) /\ Len(cache[f]) = m + Len(req[h].todo)
          /\ \A k \in DOMAIN req[h].todo : req[h].todo[k] = cache[f][m + k]
          /\ \A k \in 1..m : \E i \in RowsOf(f) : rows[i].seq = k
          /\ req[h].seq = m + 1
          /\ \A i \in RowsOf(f) : /\ rows[i].seq \in 1..m /\ rows[i].text = cache[f][rows[i].seq].text
                                  /\ rows[i].ev = cache[f][rows[i].seq].ev
      BY <1>0, <3>2 DEF Underway
    <3>4. Head(req[h].todo) = cache[f][m + 1]
      <4>1. 1 \in DOMAIN req[h].todo /\ Head(req[h].todo) = req[h].todo[1]
        BY <1>1
      <4>. QED BY <3>3, <4>1
    <3>5. \A i \in RowsOf(f)' : ~Known(i)'
      <4>1. \A i \in RowsOf(f) : ~Known(i)'
        BY <1>4, <3>2 DEF Underway, NoneMet
      <4>2. ~Known(new)'
        BY <1>3, <2>1 DEF NoneKnown
      <4>. QED BY <2>6, <4>1, <4>2
    <3>6. \A k \in 1..m : \E i \in RowsOf(f)' : rows'[i].seq = k
      BY <2>6, <3>3
    <3>7. \A i \in RowsOf(f)' :
            IF i = new
              THEN rows'[i].seq = m + 1 /\ rows'[i].text = cache[f][m + 1].text
              ELSE /\ rows'[i].seq \in 1..m /\ rows'[i].text = cache[f][rows'[i].seq].text
                   /\ rows'[i].ev = cache[f][rows'[i].seq].ev
      BY <2>3, <2>5, <2>6, <3>3, <3>4
    <3>8. req'[h].at = "events" /\ req'[h].todo = req[h].todo /\ req'[h].id = new
      BY <2>2, <2>5
    <3>9. Underway(h, f, m)'
      BY <1>0, <3>3, <3>5, <3>6, <3>7, <3>8 DEF Underway
    <3>10. Stage(h, f)'
      BY <1>1, <1>2, <2>2, <2>5, <3>9 DEF Stage
    <3>11. Touches(req'[h], f) /\ req'[h].op = "fork" /\ \A g \in Handlers : Touches(req'[g], f) => g = h
      BY <2>2, <2>5, <3>1 DEF Touches
    <3>. QED BY <1>0, <3>1, <3>10, <3>11, ForkGoes
  <2>. QED BY <1>0, <1>1, <1>2, <1>4, <1>5, <2>2, <2>4, <2>6, <2>7, CopyCalm
<1>6. CASE Copied(h) /\ odd' = odd \cup {req[h].chat} /\ UNCHANGED rows
  <2>1. PICK q : /\ req' = [req EXCEPT ![h] = q]
                 /\ q # Absent => /\ q.op = "fork" /\ q.chat = f /\ q.temp = t /\ q.at = "max"
    BY <1>0, <1>2, <1>6, CopiedOf
  <2>2. \A d \in Chats : RowsStay(d)
    BY <1>6, SameRows
  <2>3. f \in odd'
    BY <1>2, <1>6
  <2>. QED BY <1>0, <1>1, <1>2, <1>4, <1>6, <2>1, <2>2, <2>3, CopyCalm
<1>. QED BY <1>5, <1>6 DEF ForkInsert

\* A chat whose entries are numbered through and whose rows are just those.
LEMMA NumberedPlainNext ==
  ASSUME NEW f \in Chats, turn'[f] = Absent, cache'[f] \in Seq(Prompt), Numbered(cache'[f]),
         \A h \in Handlers : ~Touches(req'[h], f),
         \A i \in RowsOf(f)' : /\ ~Known(i)' /\ rows'[i].seq \in DOMAIN cache'[f]
                               /\ rows'[i].text = cache'[f][rows'[i].seq].text
                               /\ rows'[i].ev = cache'[f][rows'[i].seq].ev,
         \A k \in DOMAIN cache'[f] : \E i \in RowsOf(f)' : rows'[i].seq = k
  PROVE  Plain(f)'
<1>1. \A k \in DOMAIN cache'[f] : cache'[f][k].seq = k
  BY DEF Numbered
<1>2. Private(f)' /\ Ascends(f)' /\ Backed(f)'
  BY <1>1 DEF Private, Ascends, Backed
<1>3. Entered(f)' /\ Severed(f)'
  BY <1>1 DEF Entered, Severed, Shows, Touches, Cuts
<1>4. Fresh(f)' /\ Held(f)'
  BY DEF Fresh, Held, At
<1>. QED BY <1>2, <1>3, <1>4 DEF Plain

LEMMA ForkEventsCalm ==
  ASSUME TypeInv, TypeInv', IdsInv, RegInv, CalmInv, NEW h \in Handlers, ForkEvents(h) PROVE CalmInv'
<1>0. /\ req[h] # Absent /\ req[h].op = "fork" /\ req[h].at = "events"
      /\ UNCHANGED <<chats, cache, turn>> /\ Copied(h)
  BY DEF ForkEvents, Serves
<1>1. /\ req[h] \in Request /\ req[h].chat \in Chats /\ req[h].temp \in Chats /\ req[h].chat # req[h].temp
      /\ req[h].todo \in Seq(Prompt) /\ req[h].todo # <<>>
      /\ req[h].id \in Ids /\ rows[req[h].id] # Absent /\ rows[req[h].id].chat = req[h].chat
  BY <1>0, ForkOf DEF TypeInv, ReqOK
<1>2. PICK f \in Chats, t \in Chats, new \in Ids : f = req[h].chat /\ t = req[h].temp /\ new = req[h].id
  BY <1>1
<1>3. NoneKnown
  BY ForkEventsIds
<1>4. \A d \in Chats : NoneMet(d)
  BY <1>3, NoneMetAny
<1>5. PICK q : /\ req' = [req EXCEPT ![h] = q]
               /\ Len(req[h].todo) = 1 => q = Absent
               /\ Len(req[h].todo) # 1 =>
                    /\ q # Absent /\ q.op = "fork" /\ q.chat = f /\ q.temp = t
                    /\ q.at = "max" /\ q.todo = Tail(req[h].todo)
  BY <1>0, <1>2, CopiedOf
<1>6. \A g \in Handlers : req'[g] = IF g = h THEN q ELSE req[g]
  BY <1>5 DEF TypeInv, ReqOK
<1>7. CASE rows' = rows /\ odd' = odd \cup {req[h].chat}
  <2>1. \A d \in Chats : RowsStay(d)
    BY <1>7, SameRows
  <2>2. f \in odd'
    BY <1>2, <1>7
  <2>. QED BY <1>0, <1>1, <1>2, <1>4, <1>5, <1>7, <2>1, <2>2, CopyCalm
<1>8. CASE rows' = [rows EXCEPT ![req[h].id].ev = Head(req[h].todo).ev] /\ UNCHANGED odd
  <2>1. /\ rows'[new].ev = Head(req[h].todo).ev /\ rows'[new].seq = rows[new].seq
        /\ rows'[new].text = rows[new].text /\ rows'[new].chat = rows[new].chat
        /\ \A i \in Ids : i # new => rows'[i] = rows[i]
    <3>1. rows[new] \in RowOf /\ DOMAIN rows = Ids
      BY <1>1, <1>2 DEF TypeInv, RowsOK
    <3>2. rows'[new] = [rows[new] EXCEPT !.ev = Head(req[h].todo).ev]
          /\ \A i \in Ids : i # new => rows'[i] = rows[i]
      BY <1>2, <1>8, <3>1
    <3>. QED BY <3>1, <3>2 DEF RowOf
  <2>2. rows'[new] # Absent
    <3>1. rows[new] \in RowOf
      BY <1>1, <1>2 DEF TypeInv, RowsOK
    <3>2. Head(req[h].todo).ev \in 0..MaxEvents
      BY <1>0, <1>1, ServedType DEF TypeInv, Prompt
    <3>3. rows'[new] \in RowOf
      BY <1>2, <1>8, <3>1, <3>2 DEF TypeInv, RowsOK, RowOf
    <3>. QED BY <3>3, AbsentIsNothing
  <2>3. /\ \A d \in Chats : RowsOf(d)' = RowsOf(d)
        /\ \A d \in Chats : d # f => new \notin RowsOf(d)
        /\ new \in RowsOf(f)
    BY <1>1, <1>2, <2>1, <2>2 DEF RowsOf
  <2>4. \A d \in Chats : d # f => RowsStay(d)
    BY <2>1, <2>3 DEF RowsStay, RowsKeep, RowsOf
  <2>5. ASSUME f \notin odd' PROVE Calm(f)'
    <3>1. /\ turn[f] = Absent /\ chats[f] # "removed" /\ \A g \in Handlers : Touches(req[g], f) => g = h
          /\ \E m \in Nat : Underway(h, f, m)
      BY <1>0, <1>2, <1>8, <2>5, CopyHas
    <3>2. PICK m \in Nat : Underway(h, f, m)
      BY <3>1
    <3>3. /\ cache[f] # Absent /\ Numbered(cache[f]) /\ Len(cache[f]) = m + Len(req[h].todo)
          /\ \A k \in DOMAIN req[h].todo : req[h].todo[k] = cache[f][m + k]
          /\ \A k \in 1..m : \E i \in RowsOf(f) : rows[i].seq = k
          /\ \A i \in RowsOf(f) :
               IF i = new
                 THEN rows[i].seq = m + 1 /\ rows[i].text = cache[f][m + 1].text
                 ELSE /\ rows[i].seq \in 1..m /\ rows[i].text = cache[f][rows[i].seq].text
                      /\ rows[i].ev = cache[f][rows[i].seq].ev
      BY <1>0, <1>2, <3>2 DEF Underway
    <3>4. Head(req[h].todo) = cache[f][m + 1]
      <4>1. 1 \in DOMAIN req[h].todo /\ Head(req[h].todo) = req[h].todo[1]
        BY <1>1
      <4>. QED BY <3>3, <4>1
    <3>5. \A i \in RowsOf(f) : /\ ~Known(i)'
                               /\ rows'[i].seq \in 1..(m + 1) /\ rows'[i].text = cache[f][rows'[i].seq].text
                               /\ rows'[i].ev = cache[f][rows'[i].seq].ev
      <4>1. \A i \in RowsOf(f) : i \in Ids /\ ~Known(i)'
        BY <1>4, <3>2 DEF Underway, NoneMet, RowsOf
      <4>2. \A i \in RowsOf(f) : i # new => /\ rows'[i].seq \in 1..(m + 1)
                                            /\ rows'[i].text = cache[f][rows'[i].seq].text
                                            /\ rows'[i].ev = cache[f][rows'[i].seq].ev
        BY <2>1, <3>3, <4>1
      <4>3. /\ rows'[new].seq \in 1..(m + 1) /\ rows'[new].text = cache[f][rows'[new].seq].text
            /\ rows'[new].ev = cache[f][rows'[new].seq].ev
        BY <2>1, <2>3, <3>3, <3>4
      <4>. QED BY <4>1, <4>2, <4>3
    <3>6. \A k \in 1..(m + 1) : \E i \in RowsOf(f) : rows'[i].seq = k
      <4>1. ASSUME NEW k \in 1..m PROVE \E i \in RowsOf(f) : rows'[i].seq = k
        <5>1. PICK i \in RowsOf(f) : rows[i].seq = k
          BY <3>3
        <5>2. i \in Ids
          BY DEF RowsOf
        <5>. QED BY <2>1, <5>1, <5>2
      <4>2. rows'[new].seq = m + 1
        BY <2>1, <2>3, <3>3
      <4>3. \A k \in 1..(m + 1) : k \in 1..m \/ k = m + 1
        OBVIOUS
      <4>. QED BY <2>3, <4>1, <4>2, <4>3
    <3>7. CASE Len(req[h].todo) = 1
      <4>1. \A g \in Handlers : ~Touches(req'[g], f)
        BY <1>5, <1>6, <3>1, <3>7 DEF Touches
      <4>2. cache[f] \in Seq(Prompt) /\ DOMAIN cache[f] = 1..(m + 1)
        BY <3>3, <3>7 DEF TypeInv, CacheOK
      <4>3. Plain(f)'
        <5>1. \A i \in RowsOf(f)' : /\ ~Known(i)' /\ rows'[i].seq \in DOMAIN cache'[f]
                                    /\ rows'[i].text = cache'[f][rows'[i].seq].text
                                    /\ rows'[i].ev = cache'[f][rows'[i].seq].ev
          BY <1>0, <2>3, <3>5, <4>2
        <5>2. \A k \in DOMAIN cache'[f] : \E i \in RowsOf(f)' : rows'[i].seq = k
          BY <1>0, <2>3, <3>6, <4>2
        <5>3. turn'[f] = Absent /\ cache'[f] \in Seq(Prompt) /\ Numbered(cache'[f])
          BY <1>0, <3>1, <3>3, <4>2
        <5>. QED BY <4>1, <5>1, <5>2, <5>3, NumberedPlainNext
      <4>. QED BY <4>1, <4>3, ForkLeaves
    <3>8. CASE Len(req[h].todo) # 1
      <4>1. req'[h].at = "max" /\ req'[h].todo = Tail(req[h].todo)
        BY <1>5, <1>6, <3>8
      <4>2. /\ Len(Tail(req[h].todo)) = Len(req[h].todo) - 1 /\ Len(req[h].todo) \in Nat
            /\ \A k \in DOMAIN Tail(req[h].todo) : /\ k \in Nat /\ k + 1 \in DOMAIN req[h].todo
                                                   /\ Tail(req[h].todo)[k] = req[h].todo[k + 1]
        <5>1. Tail(req[h].todo) \in Seq(Prompt)
          BY <1>1, <3>8, TailLeft
        <5>. QED BY <1>1, <3>8, <5>1, TailLeft
      <4>3. \A k \in DOMAIN Tail(req[h].todo) : Tail(req[h].todo)[k] = cache[f][(m + 1) + k]
        <5>1. ASSUME NEW k \in DOMAIN Tail(req[h].todo)
              PROVE  Tail(req[h].todo)[k] = cache[f][(m + 1) + k]
          <6>1. k \in Nat /\ m + (k + 1) = (m + 1) + k
            BY <4>2
          <6>2. req[h].todo[k + 1] = cache[f][m + (k + 1)]
            BY <3>3, <4>2
          <6>3. Tail(req[h].todo)[k] = req[h].todo[k + 1]
            BY <4>2
          <6>. QED BY <6>1, <6>2, <6>3
        <5>. QED BY <5>1
      <4>4. Len(cache[f]) = (m + 1) + Len(Tail(req[h].todo)) /\ m + 1 \in Nat
        <5>1. Len(cache[f]) = m + Len(req[h].todo)
          BY <3>3
        <5>2. PICK n \in Nat : n = Len(req[h].todo)
          BY <4>2
        <5>3. Len(Tail(req[h].todo)) = n - 1
          BY <4>2, <5>2
        <5>4. m + n = (m + 1) + (n - 1) /\ m + 1 \in Nat
          OBVIOUS
        <5>. QED BY <5>1, <5>2, <5>3, <5>4, Zenon
      <4>5. PICK l \in Nat : l = m + 1
        BY <4>4
      <4>6. Underway(h, f, l)'
        <5>1. cache'[f] # Absent /\ Numbered(cache'[f]) /\ Len(cache'[f]) = l + Len(req'[h].todo)
          BY <1>0, <3>3, <4>1, <4>4, <4>5
        <5>2. \A k \in DOMAIN req'[h].todo : req'[h].todo[k] = cache'[f][l + k]
          BY <1>0, <4>1, <4>3, <4>5
        <5>3. \A i \in RowsOf(f)' : /\ ~Known(i)' /\ rows'[i].seq \in 1..l
                                    /\ rows'[i].text = cache'[f][rows'[i].seq].text
                                    /\ rows'[i].ev = cache'[f][rows'[i].seq].ev
          BY <1>0, <2>3, <3>5, <4>5
        <5>4. \A k \in 1..l : \E i \in RowsOf(f)' : rows'[i].seq = k
          BY <2>3, <3>6, <4>5
        <5>. QED BY <4>1, <5>1, <5>2, <5>3, <5>4 DEF Underway
      <4>7. Stage(h, f)'
        BY <1>1, <1>2, <1>5, <1>6, <3>8, <4>6 DEF Stage
      <4>8. Touches(req'[h], f) /\ req'[h].op = "fork" /\ \A g \in Handlers : Touches(req'[g], f) => g = h
        BY <1>5, <1>6, <3>1, <3>8 DEF Touches
      <4>. QED BY <1>0, <3>1, <4>7, <4>8, ForkGoes
    <3>. QED BY <3>7, <3>8
  <2>. QED BY <1>0, <1>1, <1>2, <1>4, <1>5, <1>8, <2>4, <2>5, CopyCalm
<1>. QED BY <1>7, <1>8 DEF ForkEvents

\* After a restart every cached chat is what its rows were read back as.
LEMMA RestartCalm == ASSUME TypeInv, TypeInv', IdsInv, CalmInv, Restart PROVE CalmInv'
<1>1. /\ rows' = rows /\ \A c \in Chats : turn'[c] = Absent /\ cache'[c] \in {Hydrated(c), Absent}
      /\ \A h \in Handlers : req'[h] = Absent
  BY DEF Restart, tables
<1>2. ASSUME NEW c \in Chats PROVE Calm(c)'
  <2>1. \A h \in Handlers : ~Touches(req'[h], c)
    BY <1>1 DEF Touches
  <2>2. ASSUME cache'[c] # Absent PROVE Plain(c)'
    <3>1. cache'[c] = Hydrated(c) /\ RowsOf(c)' = RowsOf(c)
      BY <1>1, <2>2 DEF RowsOf
    <3>2. /\ \A k \in DOMAIN Hydrated(c) : \E i \in RowsOf(c) : Hydrated(c)[k] = ReadBack(i)
          /\ \A i \in RowsOf(c) : \E k \in DOMAIN Hydrated(c) : Hydrated(c)[k] = ReadBack(i)
          /\ \A k, l \in DOMAIN Hydrated(c) : k < l => Hydrated(c)[k].seq < Hydrated(c)[l].seq
      BY HydratedRows DEF TypeInv
    <3>3. \A i \in RowsOf(c) : /\ ReadBack(i).id = i /\ ReadBack(i).seq = rows[i].seq
                               /\ ReadBack(i).text = rows[i].text /\ ReadBack(i).ev = rows[i].ev
      BY DEF ReadBack
    <3>4. Private(c)'
      <4>1. SUFFICES ASSUME NEW i \in RowsOf(c), NEW k \in DOMAIN Hydrated(c),
                            rows[i].seq = Hydrated(c)[k].seq
                     PROVE  Hydrated(c)[k].id = i
        BY <1>1, <3>1 DEF Private
      <4>2. PICK j \in RowsOf(c) : Hydrated(c)[k] = ReadBack(j)
        BY <3>2
      <4>3. rows[i].seq = rows[j].seq
        BY <3>3, <4>1, <4>2
      <4>4. i = j
        BY <4>3, OneRow DEF TypeInv
      <4>. QED BY <3>3, <4>2, <4>4
    <3>5. Ascends(c)' /\ Backed(c)'
      BY <1>1, <3>1, <3>2, <3>3 DEF Ascends, Backed
    <3>6. Entered(c)' /\ Severed(c)'
      BY <1>1, <3>1, <3>2, <3>3 DEF Entered, Severed, Shows, Cuts
    <3>7. Fresh(c)' /\ Held(c)'
      BY <1>1 DEF Fresh, Held, At
    <3>. QED BY <3>4, <3>5, <3>6, <3>7 DEF Plain
  <2>. QED BY <2>1, <2>2, ForkLeaves
<1>. QED BY <1>2 DEF CalmInv

LEMMA NextCalm ==
  ASSUME TypeInv, TypeInv', IdsInv, RegInv, CalmInv, [Next]_vars PROVE CalmInv'
<1>1. CASE \E c \in Chats : Create(c) \/ Send(c) \/ TurnStep(c) \/ Retry(c) \/ Revert(c) \/ HangUpTurn(c)
  BY <1>1, CreateCalm, SendCalm, InsertCalm, IngestCalm, StreamCalm, ResetCalm, ReadCalm, WriteCalm,
     RevertCalm, HangUpTurnCalm DEF TurnStep
<1>2. CASE \E h \in Handlers, c \in Chats, n \in Ids :
             Truncate(h, c, n) \/ \E t \in Chats : Fork(h, c, n, t)
  BY <1>2, TruncateCalm, ForkCalm
<1>3. CASE \E h \in Handlers, c \in Chats : Delete(h, c) \/ Restore(h, c)
  BY <1>3, DeleteCalm, RestoreCalm
<1>4. CASE \E h \in Handlers : Serve(h) \/ HangUp(h)
  BY <1>4, DeletePromptCalm, DeleteChatCalm, EvictCalm, ForkCreateCalm, RekeyCalm, ForkNumberCalm,
     ForkInsertCalm, ForkEventsCalm, HangUpCalm DEF Serve
<1>5. CASE Restart
  BY <1>5, RestartCalm
<1>6. CASE UNCHANGED vars
  <2>1. /\ UNCHANGED <<chats, rows, cache, turn, req, odd>>
        /\ \A i \in Ids : Known(i)' => Known(i)
    BY <1>6 DEF vars, Known, Holders, Cached, Holds, Turning, Cut, Cutting
  <2>2. \A c \in Chats : Elsewhere(c)
    BY <2>1, SameRows DEF Elsewhere, NoneMet, RowsOf
  <2>. QED BY <2>2, Undisturbed DEF CalmInv
<1>. QED BY <1>1, <1>2, <1>3, <1>4, <1>5, <1>6 DEF Next

\* At rest the entries of a calm chat are what its rows are read back as.
LEMMA CalmShown ==
  ASSUME TypeInv, NEW c \in Chats, cache[c] # Absent, Plain(c), turn[c] = Absent,
         \A h \in Handlers : ~Cuts(req[h], c)
  PROVE  Shown(cache[c]) = Shown(Hydrated(c))
<1>1. PICK n \in Nat : n = Len(cache[c])
  BY EntryType DEF TypeInv
<1>2. /\ cache[c] \in Seq(Prompt) /\ DOMAIN cache[c] = 1..n
      /\ \A k \in 1..n : cache[c][k] \in Prompt /\ cache[c][k].seq \in Nat
  BY <1>1, EntryType DEF TypeInv
<1>3. \A k \in 1..n : \E i \in RowsOf(c) :
        rows[i].seq = cache[c][k].seq /\ rows[i].text = cache[c][k].text /\ rows[i].ev = cache[c][k].ev
  BY <1>2 DEF Plain, Backed, Pending
<1>4. \A i \in RowsOf(c) : \E k \in 1..n : rows[i].seq = cache[c][k].seq
  BY <1>2 DEF Plain, Entered, Shows, At
<1>5. PICK I : I = Seqs(c)
  OBVIOUS
<1>6. PICK number : number = [k \in 1..n |-> cache[c][k].seq]
  OBVIOUS
<1>7. I \in SUBSET Nat
  BY <1>5, SeqsOK DEF TypeInv
<1>8. number \in [1..n -> I] /\ \A m \in I : \E k \in 1..n : number[k] = m
  <2>1. \A k \in 1..n : cache[c][k].seq \in I
    BY <1>3, <1>5 DEF Seqs
  <2>2. \A m \in I : \E k \in 1..n : cache[c][k].seq = m
    BY <1>4, <1>5 DEF Seqs
  <2>. QED BY <1>6, <2>1, <2>2
<1>9. \A k, l \in 1..n : k < l => number[k] < number[l]
  BY <1>2, <1>6 DEF Plain, Ascends
<1>10. Cardinality(I) = n /\ \A k \in 1..n : Nth(I, k) = number[k]
  BY <1>7, <1>8, <1>9, NthUnique
<1>11. DOMAIN Hydrated(c) = 1..n /\ \A k \in 1..n : Hydrated(c)[k] = ReadBack(RowAt(c, cache[c][k].seq))
  BY <1>5, <1>6, <1>10 DEF Hydrated
<1>12. ASSUME NEW k \in 1..n
       PROVE  /\ Hydrated(c)[k].seq = cache[c][k].seq /\ Hydrated(c)[k].text = cache[c][k].text
              /\ Hydrated(c)[k].ev = cache[c][k].ev
  <2>1. PICK i \in RowsOf(c) :
          rows[i].seq = cache[c][k].seq /\ rows[i].text = cache[c][k].text /\ rows[i].ev = cache[c][k].ev
    BY <1>3
  <2>2. RowAt(c, cache[c][k].seq) \in RowsOf(c) /\ rows[RowAt(c, cache[c][k].seq)].seq = cache[c][k].seq
    BY <2>1 DEF RowAt
  <2>3. RowAt(c, cache[c][k].seq) = i
    BY <2>1, <2>2, OneRow DEF TypeInv
  <2>. QED BY <1>11, <2>1, <2>3 DEF ReadBack
<1>13. \A k \in 1..n : Hydrated(c)[k] \in Prompt
  <2>1. Hydrated(c) \in Seq(Prompt)
    BY HydratedRows DEF TypeInv
  <2>. QED BY <1>11, <2>1
<1>14. \A p, q \in Prompt : p.seq = q.seq /\ p.text = q.text /\ p.ev = q.ev
         => [p EXCEPT !.id = 0] = [q EXCEPT !.id = 0]
  BY DEF Prompt
<1>15. \A k \in 1..n : [cache[c][k] EXCEPT !.id = 0] = [Hydrated(c)[k] EXCEPT !.id = 0]
  BY <1>2, <1>12, <1>13, <1>14
<1>. QED BY <1>2, <1>11, <1>15 DEF Shown

\* A restart changes nothing that the user sees, for any number of chats,
\* prompts and requests under way: what the turns, truncations, forks and
\* deletions of a chat write to its rows, one statement at a time, is in the
\* end what they did to the cached prompts.
THEOREM RestartShowsTheSame == Spec => []SurvivesRestart
<1>. USE ParametersOK
<1>1. Init => RegInv /\ CalmInv
  BY DEF Init, RegInv, Registered, Named, Governs, CalmInv, Calm, Forking, On
<1>2. TypeInv /\ TypeInv' /\ IdsInv /\ RegInv /\ CalmInv /\ [Next]_vars => RegInv' /\ CalmInv'
  BY NextReg, NextCalm
<1>3. TypeInv /\ CalmInv => SurvivesRestart
  <2>1. SUFFICES ASSUME TypeInv, CalmInv, NEW c \in Chats, cache[c] # Absent, c \notin odd,
                        turn[c] = Absent, On(c) = {}
                 PROVE  Shown(cache[c]) = Shown(Hydrated(c))
    BY DEF SurvivesRestart, Cached, Settled
  <2>2. ~Forking(c) /\ \A h \in Handlers : ~Cuts(req[h], c)
    BY <2>1 DEF Forking, On, Cuts
  <2>3. Plain(c)
    BY <2>1, <2>2 DEF CalmInv, Calm
  <2>. QED BY <2>1, <2>2, <2>3, CalmShown
<1>. QED BY <1>1, <1>2, <1>3, BaseInvariance, PTL DEF Spec
=============================================================================
