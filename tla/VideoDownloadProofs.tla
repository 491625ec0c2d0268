------------------------ MODULE VideoDownloadProofs -------------------------
(***************************************************************************)
(* Proofs about VideoDownload and the pool of addresses it uses, for any   *)
(* number of addresses, goroutines, qualities, attempts and refreshes: the *)
(* pool never serves more callers than it has addresses, GetIP does not    *)
(* return the last address again while there is another (unless a sort     *)
(* moved the entries under it), and Download never reports a video that is *)
(* not on disk.                                                            *)
(***************************************************************************)
EXTENDS VideoDownload, FiniteSetTheorems, SequenceTheorems, TLAPS

---------------------------------------------------------------------------
(* The operators on orders of addresses *)

\* A sequence that lists some addresses, each of them once.
IsOrder(s) == s \in Seq(IPs) /\ \A j, k \in DOMAIN s: s[j] = s[k] => j = k

LEMMA OrderLength ==
    ASSUME NEW s, IsOrder(s)
    PROVE  Len(s) = Cardinality(ToSet(s)) /\ ToSet(s) \in SUBSET IPs
<1>1. s \in Seq(IPs) /\ DOMAIN s = 1 .. Len(s) /\ Len(s) \in Nat
  BY DEF IsOrder
<1>2. s \in [1 .. Len(s) -> ToSet(s)]
  BY <1>1 DEF ToSet
<1>3. s \in Injection(1 .. Len(s), ToSet(s))
  BY <1>1, <1>2 DEF IsOrder, Injection, IsInjective
<1>4. s \in Surjection(1 .. Len(s), ToSet(s))
  BY <1>1, <1>2 DEF Surjection, ToSet
<1>5. ExistsBijection(1 .. Len(s), ToSet(s))
  BY <1>3, <1>4 DEF ExistsBijection, Bijection
<1>6. ToSet(s) \in SUBSET IPs
  BY <1>1 DEF ToSet
<1> QED
  BY <1>1, <1>5, <1>6, FS_CountingElements

\* All orders of a set of addresses list all of them.
LEMMA OrdersList ==
    ASSUME NEW S \in SUBSET IPs, NEW s \in Orders(S)
    PROVE  IsOrder(s) /\ ToSet(s) = S
<1> DEFINE n == Cardinality(S)
<1>1. IsFiniteSet(S)
  BY PoolAssumption, FS_Subset
<1>2. n \in Nat
  BY <1>1, FS_CardinalityType
<1>3. s \in [1 .. n -> S] /\ \A j, k \in 1 .. n: j # k => s[j] # s[k]
  BY DEF Orders, SetToSeqs
<1> HIDE DEF n
<1>4. s \in Seq(IPs) /\ DOMAIN s = 1 .. n
  <2>1. s \in [1 .. n -> IPs]
    BY <1>3
  <2> QED
    BY <1>2, <2>1, <1>3, SeqDef
<1>5. s \in Injection(1 .. n, S)
  BY <1>3 DEF Injection, IsInjective
<1>6. Cardinality(1 .. n) = n
  <2>1. 1 \in Int /\ n \in Int
    BY <1>2
  <2>2. Cardinality(1 .. n) = IF 1 > n THEN 0 ELSE n - 1 + 1
    BY <2>1, FS_Interval
  <2> QED
    BY <1>2, <2>2
<1>7. s \in Surjection(1 .. n, S)
  BY <1>1, <1>5, <1>6, FS_Injection DEF n
<1>8. ToSet(s) = S
  BY <1>3, <1>4, <1>7 DEF Surjection, ToSet
<1> QED
  BY <1>3, <1>4, <1>8 DEF IsOrder

LEMMA IndexOfIs ==
    ASSUME NEW s, IsOrder(s), NEW i \in ToSet(s)
    PROVE  IndexOf(s, i) \in DOMAIN s /\ s[IndexOf(s, i)] = i
<1>1. \E k \in DOMAIN s: s[k] = i
  BY DEF ToSet
<1> QED
  BY <1>1 DEF IndexOf

\* ReleaseIP's LastUse: the entry becomes the last, and nothing is lost.
LEMMA MovedToEnd ==
    ASSUME NEW s, IsOrder(s), NEW i \in ToSet(s)
    PROVE  LET t == MoveToEnd(s, i)
           IN  IsOrder(t) /\ ToSet(t) = ToSet(s) /\ t # <<>> /\ t[Len(t)] = i
<1> DEFINE k == IndexOf(s, i)
           n == Len(s)
           a == SubSeq(s, 1, k - 1)
           b == SubSeq(s, k + 1, n)
           t == Append(a \o b, i)
<1>1. s \in Seq(IPs) /\ n \in Nat /\ DOMAIN s = 1 .. n
  BY DEF IsOrder
<1>2. k \in 1 .. n /\ s[k] = i /\ i \in IPs
  BY <1>1, IndexOfIs
<1>3. MoveToEnd(s, i) = t
  BY DEF MoveToEnd, RemoveAt
<1> HIDE DEF k, n
<1>4. a \in Seq(IPs) /\ Len(a) = k - 1 /\ \A j \in 1 .. k - 1: a[j] = s[j]
  <2>1. k - 1 \in 0 .. n
    BY <1>1, <1>2
  <2>2. \A j \in 1 .. k - 1: j \in 1 .. n
    BY <1>1, <1>2
  <2> QED
    BY <1>1, <1>2, <2>1, <2>2, SubSeqProperties DEF n
<1>5. b \in Seq(IPs) /\ Len(b) = n - k /\ \A j \in 1 .. n - k: b[j] = s[k + j]
  <2> DEFINE m == k + 1
  <2>1. m \in Int /\ n \in Int /\ n - m + 1 = n - k /\ (m <= n \/ n - k = 0)
    BY <1>1, <1>2
  <2>2. \A j \in m .. n: s[j] \in IPs
    BY <1>1, <1>2 DEF n
  <2> HIDE DEF m
  <2>3. /\ b \in Seq(IPs) /\ Len(b) = n - k
        /\ \A j \in 1 .. n - k: b[j] = s[m + j - 1]
    <3>1. /\ SubSeq(s, m, n) \in Seq(IPs)
          /\ Len(SubSeq(s, m, n)) = IF m <= n THEN n - m + 1 ELSE 0
          /\ \A j \in 1 .. n - m + 1: SubSeq(s, m, n)[j] = s[m + j - 1]
      BY <2>1, <2>2, SubSeqProperties
    <3> QED
      BY <2>1, <3>1 DEF b, m
  <2>4. \A j \in 1 .. n - k: (k + 1) + j - 1 = k + j
    BY <1>1, <1>2
  <2> QED
    BY <2>3, <2>4 DEF m
<1> HIDE DEF a, b
<1> DEFINE r == a \o b
<1>6. /\ r \in Seq(IPs) /\ Len(r) = n - 1
      /\ \A j \in 1 .. n - 1: r[j] = IF j < k THEN s[j] ELSE s[j + 1]
  <2>1. /\ r \in Seq(IPs) /\ Len(r) = Len(a) + Len(b)
        /\ \A j \in 1 .. Len(a) + Len(b): r[j] = IF j <= Len(a) THEN a[j] ELSE b[j - Len(a)]
    BY <1>4, <1>5, ConcatProperties
  <2>2. Len(r) = n - 1
    BY <1>1, <1>2, <1>4, <1>5, <2>1
  <2>3. ASSUME NEW j \in 1 .. n - 1 PROVE r[j] = IF j < k THEN s[j] ELSE s[j + 1]
    <3>1. r[j] = IF j <= k - 1 THEN a[j] ELSE b[j - (k - 1)]
      BY <1>1, <1>2, <1>4, <1>5, <2>1
    <3>2. CASE j < k
      BY <1>2, <1>4, <3>1, <3>2
    <3>3. CASE ~(j < k)
      <4>1. j - (k - 1) \in 1 .. n - k /\ k + (j - (k - 1)) = j + 1
        BY <1>1, <1>2, <3>3
      <4>2. r[j] = b[j - (k - 1)]
        BY <1>2, <3>1, <3>3
      <4> QED
        BY <1>5, <3>3, <4>1, <4>2
    <3> QED
      BY <3>2, <3>3
  <2> QED
    BY <2>1, <2>2, <2>3
<1> HIDE DEF r
<1>7. /\ t \in Seq(IPs) /\ Len(t) = n /\ DOMAIN t = 1 .. n
      /\ \A j \in 1 .. n: t[j] = IF j < k THEN s[j] ELSE IF j < n THEN s[j + 1] ELSE i
  <2>1. /\ t \in Seq(IPs) /\ Len(t) = Len(r) + 1
        /\ \A j \in 1 .. Len(r): t[j] = r[j] /\ t[Len(r) + 1] = i
    BY <1>2, <1>6, AppendProperties DEF r
  <2>2. t[Len(r) + 1] = i
    BY <1>2, <1>6, AppendProperties DEF r
  <2> HIDE DEF t
  <2> QED
    BY <1>1, <1>2, <1>6, <2>1, <2>2
<1> HIDE DEF t
<1>8. ASSUME NEW x \in 1 .. n, NEW y \in 1 .. n, t[x] = t[y] PROVE x = y
  <2>1. \A p, q \in 1 .. n: s[p] = s[q] => p = q
    BY <1>1 DEF IsOrder
  <2>2. \A p \in 1 .. n: p < n => p + 1 \in 1 .. n
    BY <1>1
  <2> QED
    BY <1>1, <1>2, <1>7, <1>8, <2>1, <2>2
<1>9. \A j \in 1 .. n: \E x \in 1 .. n: t[j] = s[x]
  BY <1>1, <1>2, <1>7
<1>10. \A x \in 1 .. n: \E j \in 1 .. n: t[j] = s[x]
  <2> TAKE x \in 1 .. n
  <2>1. CASE x < k
    BY <1>7, <2>1
  <2>2. CASE x = k
    <3>1. n \in 1 .. n /\ t[n] = i
      BY <1>1, <1>2, <1>7
    <3> QED
      BY <1>2, <2>2, <3>1
  <2>3. CASE x > k
    <3>1. x - 1 \in 1 .. n /\ ~(x - 1 < k) /\ x - 1 < n /\ (x - 1) + 1 = x
      BY <1>1, <1>2, <2>3
    <3> QED
      BY <1>7, <3>1
  <2> QED
    BY <1>2, <2>1, <2>2, <2>3
<1>11. ToSet(t) = ToSet(s)
  <2>1. ToSet(t) = {t[j]: j \in 1 .. n} /\ ToSet(s) = {s[x]: x \in 1 .. n}
    BY <1>1, <1>7 DEF ToSet
  <2>2. \A e: e \in ToSet(t) <=> e \in ToSet(s)
    <3>1. \A e: e \in ToSet(t) <=> \E j \in 1 .. n: t[j] = e
      BY <2>1, Zenon
    <3>2. \A e: e \in ToSet(s) <=> \E x \in 1 .. n: s[x] = e
      BY <2>1, Zenon
    <3> QED
      BY <1>9, <1>10, <3>1, <3>2, Zenon
  <2> QED
    BY <2>2
<1>12. t # <<>> /\ t[Len(t)] = i
  BY <1>1, <1>2, <1>7
<1> QED
  BY <1>3, <1>7, <1>8, <1>11, <1>12 DEF IsOrder

---------------------------------------------------------------------------
(* The pool's inductive invariant, in parts *)

\* The array and the order of LastUse list the same addresses, once each; only those
\* are marked.
OrderInv ==
    /\ IsOrder(slot) /\ IsOrder(lru) /\ ToSet(lru) = InPool
    /\ inUse \subseteq InPool /\ throttled \subseteq InPool

FieldTypes ==
    /\ array \in Nat /\ stopped \in BOOLEAN /\ timers \in Seq(Timer)
    /\ ptr \in [Callers -> Nat] /\ ip \in [Callers -> IPs \cup {NoIP}]
    /\ avoid \in [Callers -> IPs \cup {NoIP}] /\ released \in IPs \cup {NoIP}

PcTypes == pc \in [Callers -> Locations]

\* A pointer that is still to be read is one into the array, and what was read through
\* one is an address of the pool: it is refreshed only while nobody uses it.
PointerInv ==
    /\ \A c \in Callers: pc[c] = "cool" => ptr[c] \in DOMAIN slot
    /\ \A c \in Callers: pc[c] \in {"cmd", "ban"} => ip[c] \in InPool

\* The address that was released last has the latest LastUse.
ReleasedInv == released # NoIP => lru # <<>> /\ lru[Len(lru)] = released

\* The entry that a caller points to, and the address it read, is not the one to avoid.
TurnInv ==
    /\ \A c \in Callers: pc[c] = "cool" => slot[ptr[c]] # avoid[c]
    /\ NotTwiceInARow

PoolInv ==
    /\ OrderInv /\ FieldTypes /\ PcTypes /\ PointerInv /\ ReleasedInv /\ TurnInv
    /\ HoldersBounded

\* What a step of the program is to the pool: a caller that enters run or Download or
\* leaves it without an address, the pool's operations, or nothing.
Enter(c) ==
    /\ pc[c] \in {"idle", "get"}
    /\ \E l \in {"idle", "get"}: Goto(c, l)
    /\ UNCHANGED <<poolVars, timers, stopped, ptr, ip, avoid, released>>
Release(c) ==
    /\ pc[c] = "cmd"
    /\ \E l \in {"idle", "get", "ban"}: Goto(c, l)
    /\ ReleaseIP(c)
PoolStep ==
    \/ \E c \in Callers: Enter(c) \/ NextIP(c) \/ ReadIP(c) \/ Release(c) \/ SetThrottled(c)
    \/ Unban \/ Stop \/ \E S \in SUBSET IPs: Refresh(S)

LEMMA NextIsPoolStep == [Next]_vars => PoolStep \/ UNCHANGED ipVars
<1> SUFFICES ASSUME [Next]_vars, ~UNCHANGED ipVars PROVE PoolStep
  OBVIOUS
<1>a. Producer \in Callers /\ \A d \in Workers: d \in Callers
  BY DownloadAssumption DEF Workers
<1>b. \A c \in Callers: Enter(c) \/ NextIP(c) \/ ReadIP(c) \/ Release(c) \/ SetThrottled(c)
                            => PoolStep
  BY DEF PoolStep
<1>1. CASE Run
  BY <1>1, <1>a, <1>b DEF Run, Enter
<1>2. CASE ProducerStep
  <2>1. CASE RunCmd
    <3>1. \E l \in {"idle", "get", "ban"}: Goto(Producer, l)
      BY <2>1 DEF RunCmd
    <3> QED
      BY <2>1, <3>1, <1>a, <1>b DEF RunCmd, Release
  <2> QED
    BY <1>2, <2>1, <1>a, <1>b DEF ProducerStep
<1>3. ASSUME NEW d \in Workers, Download(d) PROVE PoolStep
  <2>1. \E l \in {"idle", "get"}: Goto(d, l)
    BY <1>3 DEF Download, Return
  <2> QED
    BY <1>3, <2>1, <1>a, <1>b DEF Download, Enter
<1>4. ASSUME NEW d \in Workers, Attempt(d) PROVE PoolStep
  <2>1. CASE remainingAttempts[d] > 0
    BY <1>4, <2>1, <1>a, <1>b DEF Attempt, GetAddress
  <2>2. CASE ~(remainingAttempts[d] > 0)
    BY <1>4, <2>2, <1>a, <1>b DEF Attempt, ReturnLastKnown, Enter
  <2> QED
    BY <2>1, <2>2
<1>5. ASSUME NEW d \in Workers, RawDownload(d) PROVE PoolStep
  <2>1. \E l \in {"idle", "get", "ban"}: Goto(d, l)
    BY <1>5 DEF RawDownload, Failed, Succeeded, ReduceResolution, WasThrottled, Return,
                ReturnLastKnown
  <2> QED
    BY <1>5, <2>1, <1>a, <1>b DEF RawDownload, Release
<1>6. ASSUME NEW d \in Workers, Ban(d) \/ ReadIP(d) PROVE PoolStep
  BY <1>6, <1>a, <1>b DEF Ban
<1>7. CASE Pool
  BY <1>7 DEF Pool, PoolStep
<1>8. ASSUME Over \/ (\E d \in Workers: Publish(d)) \/ UNCHANGED vars PROVE FALSE
  BY <1>8 DEF Over, Publish, vars
<1> QED
  BY <1>1, <1>2, <1>3, <1>4, <1>5, <1>6, <1>7, <1>8 DEF Next, WorkerStep

\* Only a refresh changes the pool's addresses; sorting keeps them.
LEMMA OrderNext ==
    ASSUME OrderInv, PointerInv, PoolStep
    PROVE  /\ OrderInv'
           /\ (~\E S \in SUBSET IPs: Refresh(S)) => InPool' = InPool /\ DOMAIN slot' = DOMAIN slot
<1>a. ASSUME UNCHANGED poolVars
      PROVE  OrderInv' /\ InPool' = InPool /\ DOMAIN slot' = DOMAIN slot
  BY <1>a DEF poolVars, OrderInv, InPool
<1>b. DOMAIN slot = DOMAIN lru
  <2>1. Len(slot) = Len(lru)
    BY OrderLength DEF OrderInv, InPool
  <2> QED
    BY <2>1 DEF OrderInv, IsOrder
<1>1. ASSUME NEW c \in Callers, Enter(c) \/ ReadIP(c)
      PROVE  OrderInv' /\ InPool' = InPool /\ DOMAIN slot' = DOMAIN slot
  BY <1>1, <1>a DEF Enter, ReadIP
<1>2. ASSUME NEW c \in Callers, NextIP(c)
      PROVE  OrderInv' /\ InPool' = InPool /\ DOMAIN slot' = DOMAIN slot
  <2>1. slot' = lru /\ lru' = lru /\ throttled' = throttled
    BY <1>2 DEF NextIP
  <2>2. InPool' = InPool
    BY <2>1 DEF OrderInv, InPool
  <2>3. inUse' \subseteq InPool
    <3>1. CASE AllThrottled \/ AllInUse
      BY <1>2, <3>1 DEF NextIP, OrderInv
    <3>2. CASE ~(AllThrottled \/ AllInUse)
      <4>1. PICK k \in DOMAIN lru: inUse' = Marked(lru[k])
        BY <1>2, <3>2 DEF NextIP
      <4>2. lru[k] \in InPool
        BY DEF OrderInv, ToSet
      <4> QED
        BY <4>1, <4>2 DEF OrderInv, Marked
    <3> QED
      BY <3>1, <3>2
  <2> QED
    BY <1>b, <2>1, <2>2, <2>3 DEF OrderInv
<1>3. ASSUME NEW c \in Callers, Release(c)
      PROVE  OrderInv' /\ InPool' = InPool /\ DOMAIN slot' = DOMAIN slot
  <2>1. /\ inUse' = inUse \ {ip[c]} /\ lru' = MoveToEnd(lru, ip[c])
        /\ UNCHANGED <<slot, throttled>> /\ pc[c] = "cmd"
    BY <1>3 DEF Release, ReleaseIP, Unmarked, Touched
  <2>2. ip[c] \in ToSet(lru)
    BY <2>1 DEF PointerInv, OrderInv
  <2>3. IsOrder(lru') /\ ToSet(lru') = ToSet(lru)
    BY <2>1, <2>2, MovedToEnd DEF OrderInv
  <2> QED
    BY <2>1, <2>3 DEF OrderInv, InPool
<1>4. ASSUME NEW c \in Callers, SetThrottled(c)
      PROVE  OrderInv' /\ InPool' = InPool /\ DOMAIN slot' = DOMAIN slot
  <2>1. ip[c] \in InPool /\ throttled' \in {throttled, throttled \cup {ip[c]}}
    BY <1>4 DEF SetThrottled, PointerInv
  <2> QED
    BY <1>4, <2>1 DEF SetThrottled, OrderInv, InPool
<1>5. CASE Unban
  <2>1. throttled' \subseteq throttled
    BY <1>5 DEF Unban
  <2> QED
    BY <1>5, <2>1 DEF Unban, OrderInv, InPool
<1>6. CASE Stop
  BY <1>6, <1>a DEF Stop
<1>7. ASSUME NEW S \in SUBSET IPs, Refresh(S) PROVE OrderInv'
  <2>1. slot' \in Orders(S) /\ lru' \in Orders(S) /\ inUse' \subseteq S /\ throttled' \subseteq S
    BY <1>7 DEF Refresh
  <2> QED
    BY <2>1, OrdersList DEF OrderInv, InPool
<1> QED
  BY <1>1, <1>2, <1>3, <1>4, <1>5, <1>6, <1>7 DEF PoolStep

LEMMA PcNext == PcTypes /\ PoolStep => PcTypes'
<1> SUFFICES ASSUME PcTypes, PoolStep PROVE PcTypes'
  OBVIOUS
<1>a. ASSUME NEW c \in Callers, NEW l \in Locations, Goto(c, l) PROVE PcTypes'
  BY <1>a DEF PcTypes, Goto
<1>b. ASSUME UNCHANGED pc PROVE PcTypes'
  BY <1>b DEF PcTypes
<1>c. \A l \in {"idle", "get", "cool", "cmd", "ban"}: l \in Locations
  BY DEF Locations
<1>1. ASSUME NEW c \in Callers, Enter(c) \/ ReadIP(c) \/ Release(c) \/ SetThrottled(c)
      PROVE  PcTypes'
  <2>1. \E l \in {"idle", "get", "cool", "cmd", "ban"}: Goto(c, l)
    BY <1>1 DEF Enter, ReadIP, Release, SetThrottled
  <2> QED
    BY <2>1, <1>a, <1>c
<1>2. ASSUME NEW c \in Callers, NextIP(c) PROVE PcTypes'
  <2>1. Goto(c, "idle") \/ Goto(c, "cool") \/ UNCHANGED pc
    BY <1>2 DEF NextIP, WaitOrGiveUp
  <2> QED
    BY <2>1, <1>a, <1>b, <1>c
<1>3. ASSUME Unban \/ Stop \/ \E S \in SUBSET IPs: Refresh(S) PROVE PcTypes'
  BY <1>3, <1>b DEF Unban, Stop, Refresh, callerVars
<1> QED
  BY <1>1, <1>2, <1>3 DEF PoolStep

LEMMA FieldNext == OrderInv /\ PointerInv /\ FieldTypes /\ PoolStep => FieldTypes'
<1> SUFFICES ASSUME OrderInv, PointerInv, FieldTypes, PoolStep PROVE FieldTypes'
  OBVIOUS
<1>a. ToSet(slot) \in SUBSET IPs /\ ToSet(lru) \in SUBSET IPs
  BY OrderLength DEF OrderInv
<1>1. ASSUME NEW c \in Callers, Enter(c) PROVE FieldTypes'
  BY <1>1 DEF Enter, FieldTypes, poolVars
<1>2. ASSUME NEW c \in Callers, NextIP(c) PROVE FieldTypes'
  <2>0. avoid' \in [Callers -> IPs \cup {NoIP}]
    BY <1>2 DEF NextIP, ToAvoid, FieldTypes
  <2>1. CASE AllThrottled \/ AllInUse
    BY <1>2, <2>0, <2>1 DEF NextIP, FieldTypes
  <2>2. CASE ~(AllThrottled \/ AllInUse)
    <3>1. PICK k \in DOMAIN lru: ptr' = [ptr EXCEPT ![c] = k]
      BY <1>2, <2>2 DEF NextIP
    <3>2. k \in Nat
      BY DEF OrderInv, IsOrder
    <3>3. ptr' \in [Callers -> Nat]
      BY <3>1, <3>2 DEF FieldTypes
    <3> QED
      BY <1>2, <2>0, <3>3 DEF NextIP, FieldTypes
  <2> QED
    BY <2>1, <2>2
<1>3. ASSUME NEW c \in Callers, ReadIP(c) PROVE FieldTypes'
  <2>1. slot[ptr[c]] \in IPs
    BY <1>3, <1>a DEF ReadIP, PointerInv, ToSet
  <2>2. ptr' \in [Callers -> Nat] /\ ip' \in [Callers -> IPs \cup {NoIP}]
    BY <1>3, <2>1 DEF ReadIP, FieldTypes
  <2> QED
    BY <1>3, <2>2 DEF ReadIP, FieldTypes, poolVars
<1>4. ASSUME NEW c \in Callers, Release(c) PROVE FieldTypes'
  <2>1. ip' \in {ip, [ip EXCEPT ![c] = NoIP]} /\ avoid' = [avoid EXCEPT ![c] = NoIP]
    BY <1>4 DEF Release, ReleaseIP
  <2>2. ip' \in [Callers -> IPs \cup {NoIP}] /\ avoid' \in [Callers -> IPs \cup {NoIP}]
    BY <2>1 DEF FieldTypes
  <2>3. released' \in IPs
    BY <1>4, <1>a DEF Release, ReleaseIP, PointerInv, InPool
  <2> QED
    BY <1>4, <2>2, <2>3 DEF Release, ReleaseIP, FieldTypes
<1>5. ASSUME NEW c \in Callers, SetThrottled(c) PROVE FieldTypes'
  <2>1. ip[c] \in ToSet(slot)
    BY <1>5 DEF SetThrottled, PointerInv, InPool
  <2>2. IndexOf(slot, ip[c]) \in Nat \ {0}
    BY <2>1, IndexOfIs DEF OrderInv, IsOrder
  <2> DEFINE t == [array |-> array, ip |-> ip[c], index |-> IndexOf(slot, ip[c])]
  <2>3. t \in Timer
    BY <1>a, <2>1, <2>2 DEF Timer, FieldTypes
  <2>4. timers' \in {timers, Append(timers, t)}
    BY <1>5 DEF SetThrottled
  <2> HIDE DEF t
  <2>5. timers' \in Seq(Timer)
    BY <2>3, <2>4, AppendProperties DEF FieldTypes
  <2>6. ip' \in [Callers -> IPs \cup {NoIP}]
    BY <1>5 DEF SetThrottled, FieldTypes
  <2> QED
    BY <1>5, <2>5, <2>6 DEF SetThrottled, FieldTypes
<1>6. CASE Unban
  <2>1. timers' \in Seq(Timer)
    BY <1>6, HeadTailProperties DEF Unban, FieldTypes
  <2> QED
    BY <1>6, <2>1 DEF Unban, FieldTypes, callerVars
<1>7. CASE Stop
  <2>1. stopped' \in BOOLEAN /\ timers' \in Seq(Timer)
    BY <1>7, EmptySeq DEF Stop
  <2> QED
    BY <1>7, <2>1 DEF Stop, FieldTypes, callerVars, poolVars
<1>8. ASSUME NEW S \in SUBSET IPs, Refresh(S) PROVE FieldTypes'
  BY <1>8 DEF Refresh, FieldTypes, callerVars
<1> QED
  BY <1>1, <1>2, <1>3, <1>4, <1>5, <1>6, <1>7, <1>8 DEF PoolStep

LEMMA PointerNext == OrderInv /\ PcTypes /\ FieldTypes /\ PointerInv /\ PoolStep => PointerInv'
<1> SUFFICES ASSUME OrderInv, PcTypes, FieldTypes, PointerInv, PoolStep PROVE PointerInv'
  OBVIOUS
<1>1. ASSUME NEW S \in SUBSET IPs, Refresh(S) PROVE PointerInv'
  BY <1>1 DEF Refresh, callerVars, PointerInv
<1>2. ASSUME ~\E S \in SUBSET IPs: Refresh(S) PROVE PointerInv'
  <2>1. InPool' = InPool /\ DOMAIN slot' = DOMAIN slot
    BY <1>2, OrderNext
  <2>a. ASSUME NEW c \in Callers, NEW l \in {"idle", "get"}, Goto(c, l),
               \A d \in Callers \ {c}: ptr'[d] = ptr[d] /\ ip'[d] = ip[d]
        PROVE  PointerInv'
    BY <2>1, <2>a DEF PointerInv, Goto, PcTypes
  <2>b. ASSUME UNCHANGED <<pc, ptr, ip>> PROVE PointerInv'
    BY <2>1, <2>b DEF PointerInv
  <2>2. ASSUME NEW c \in Callers, Enter(c) PROVE PointerInv'
    BY <2>2, <2>a DEF Enter
  <2>3. ASSUME NEW c \in Callers, NextIP(c) PROVE PointerInv'
    <3>1. CASE AllThrottled \/ AllInUse
      <4>1. UNCHANGED <<ptr, ip>> /\ (Goto(c, "idle") \/ UNCHANGED pc)
        BY <2>3, <3>1 DEF NextIP, WaitOrGiveUp
      <4> QED
        BY <2>a, <2>b, <4>1
    <3>2. CASE ~(AllThrottled \/ AllInUse)
      <4>1. PICK k \in DOMAIN lru: Goto(c, "cool") /\ ptr' = [ptr EXCEPT ![c] = k] /\ ip' = ip
        BY <2>3, <3>2 DEF NextIP
      <4>2. k \in DOMAIN slot'
        BY <2>3 DEF NextIP
      <4>3. \A d \in Callers \ {c}: pc'[d] = pc[d] /\ ptr'[d] = ptr[d]
        BY <4>1 DEF Goto, PcTypes, FieldTypes
      <4>4. pc'[c] = "cool" /\ ptr'[c] = k
        BY <4>1 DEF Goto, PcTypes, FieldTypes
      <4> QED
        BY <2>1, <4>1, <4>2, <4>3, <4>4 DEF PointerInv
    <3> QED
      BY <3>1, <3>2
  <2>4. ASSUME NEW c \in Callers, ReadIP(c) PROVE PointerInv'
    <3>1. slot[ptr[c]] \in InPool
      BY <2>4 DEF ReadIP, PointerInv, InPool, ToSet
    <3>2. /\ \A d \in Callers \ {c}: pc'[d] = pc[d] /\ ptr'[d] = ptr[d] /\ ip'[d] = ip[d]
          /\ pc'[c] = "cmd" /\ ip'[c] = slot[ptr[c]]
      BY <2>4 DEF ReadIP, Goto, PcTypes, FieldTypes
    <3> QED
      BY <2>1, <3>1, <3>2 DEF PointerInv
  <2>5. ASSUME NEW c \in Callers, Release(c) PROVE PointerInv'
    <3>1. PICK l \in {"idle", "get", "ban"}: Goto(c, l)
      BY <2>5 DEF Release
    <3>2. /\ \A d \in Callers \ {c}: pc'[d] = pc[d] /\ ptr'[d] = ptr[d] /\ ip'[d] = ip[d]
          /\ pc'[c] = l /\ (l = "ban" => ip'[c] = ip[c])
      BY <2>5, <3>1 DEF Release, ReleaseIP, Goto, PcTypes, FieldTypes
    <3>3. ip[c] \in InPool
      BY <2>5 DEF Release, PointerInv
    <3> QED
      BY <2>1, <3>2, <3>3 DEF PointerInv
  <2>6. ASSUME NEW c \in Callers, SetThrottled(c) PROVE PointerInv'
    <3>1. Goto(c, "get") /\ ip' = [ip EXCEPT ![c] = NoIP] /\ ptr' = ptr
      BY <2>6 DEF SetThrottled
    <3>2. \A d \in Callers \ {c}: ptr'[d] = ptr[d] /\ ip'[d] = ip[d]
      BY <3>1 DEF FieldTypes
    <3> QED
      BY <2>a, <3>1, <3>2
  <2>7. ASSUME Unban \/ Stop PROVE PointerInv'
    BY <2>7, <2>b DEF Unban, Stop, callerVars
  <2> QED
    BY <1>2, <2>2, <2>3, <2>4, <2>5, <2>6, <2>7 DEF PoolStep
<1> QED
  BY <1>1, <1>2

LEMMA ReleasedNext == OrderInv /\ PointerInv /\ ReleasedInv /\ PoolStep => ReleasedInv'
<1> SUFFICES ASSUME OrderInv, PointerInv, ReleasedInv, PoolStep PROVE ReleasedInv'
  OBVIOUS
<1>a. ASSUME UNCHANGED <<lru, released>> PROVE ReleasedInv'
  BY <1>a DEF ReleasedInv
<1>1. ASSUME NEW c \in Callers, Enter(c) \/ NextIP(c) \/ ReadIP(c) \/ SetThrottled(c)
      PROVE  ReleasedInv'
  BY <1>1, <1>a DEF Enter, NextIP, ReadIP, SetThrottled, poolVars
<1>2. ASSUME NEW c \in Callers, Release(c) PROVE ReleasedInv'
  <2>1. ip[c] \in ToSet(lru)
    BY <1>2 DEF Release, PointerInv, OrderInv
  <2>2. lru' = MoveToEnd(lru, ip[c]) /\ released' = ip[c]
    BY <1>2 DEF Release, ReleaseIP, Touched
  <2>3. lru' # <<>> /\ lru'[Len(lru')] = ip[c]
    BY <2>1, <2>2, MovedToEnd DEF OrderInv
  <2> QED
    BY <2>2, <2>3 DEF ReleasedInv
<1>3. ASSUME Unban \/ Stop PROVE ReleasedInv'
  BY <1>3, <1>a DEF Unban, Stop, poolVars
<1>4. ASSUME NEW S \in SUBSET IPs, Refresh(S) PROVE ReleasedInv'
  BY <1>4 DEF Refresh, ReleasedInv
<1> QED
  BY <1>1, <1>2, <1>3, <1>4 DEF PoolStep

\* The first free entry in the order of LastUse is not the one released last, unless that
\* is the only free one.
LEMMA FirstFreeTakesTurns ==
    ASSUME OrderInv, ReleasedInv,
           NEW i \in InPool \ {released}, Free(i),
           NEW k \in DOMAIN lru, \A j \in 1 .. k - 1: ~Free(lru[j])
    PROVE  lru[k] # released
<1> SUFFICES ASSUME lru[k] = released PROVE FALSE
  OBVIOUS
<1>1. lru \in Seq(IPs) /\ DOMAIN lru = 1 .. Len(lru) /\ Len(lru) \in Nat
  BY DEF OrderInv, IsOrder
<1>2. released # NoIP
  BY <1>1, PoolAssumption
<1>3. k = Len(lru)
  <2>1. lru # <<>> /\ lru[Len(lru)] = released
    BY <1>2 DEF ReleasedInv
  <2>2. Len(lru) \in DOMAIN lru
    BY <1>1
  <2> QED
    BY <2>1, <2>2 DEF OrderInv, IsOrder
<1>4. PICK j \in DOMAIN lru: lru[j] = i
  BY DEF OrderInv, ToSet
<1>5. j \in 1 .. k - 1
  BY <1>1, <1>3, <1>4
<1> QED
  BY <1>4, <1>5

LEMMA TurnNext ==
    ASSUME OrderInv, FieldTypes, PcTypes, PointerInv, OrderInv', PointerInv', ReleasedInv,
           TurnInv, PoolStep
    PROVE  TurnInv'
<1>a. \A c \in Callers: pc'[c] = "cool" => slot'[ptr'[c]] # NoIP
  BY PoolAssumption DEF PointerInv, OrderInv, IsOrder
<1>1. ASSUME NEW c \in Callers, NextIP(c) PROVE TurnInv'
  <2>1. /\ \A d \in Callers \ {c}: pc'[d] = pc[d] /\ ptr'[d] = ptr[d]
        /\ pc'[c] # "cmd" /\ ip' = ip /\ slot' = lru /\ avoid' = ToAvoid(c)
    BY <1>1 DEF NextIP, WaitOrGiveUp, Goto, PcTypes, FieldTypes
  <2>2. ASSUME NEW d \in Callers \ {c}, pc'[d] = "cool" PROVE slot'[ptr'[d]] # avoid'[d]
    <3>1. CASE lru[ptr[d]] # slot[ptr[d]]
      <4>1. avoid'[d] = NoIP
        BY <2>1, <2>2, <3>1 DEF ToAvoid
      <4> QED
        BY <1>a, <2>2, <4>1
    <3>2. CASE lru[ptr[d]] = slot[ptr[d]]
      BY <2>1, <2>2, <3>2 DEF ToAvoid, TurnInv
    <3> QED
      BY <3>1, <3>2
  <2>3. ASSUME NEW d \in Callers, pc'[d] = "cmd" PROVE ip'[d] # avoid'[d]
    BY <2>1, <2>3 DEF ToAvoid, TurnInv, NotTwiceInARow
  <2>4. ASSUME pc'[c] = "cool" PROVE slot'[ptr'[c]] # avoid'[c]
    <3>1. ~(AllThrottled \/ AllInUse)
      BY <1>1, <2>4 DEF NextIP, WaitOrGiveUp, Goto, PcTypes
    <3>2. PICK k \in DOMAIN lru: /\ \A j \in 1 .. k - 1: ~Free(lru[j])
                                 /\ ptr' = [ptr EXCEPT ![c] = k]
      BY <1>1, <3>1 DEF NextIP
    <3>3. slot'[ptr'[c]] = lru[k]
      BY <2>1, <3>2 DEF FieldTypes
    <3>4. CASE \E i \in InPool \ {released}: Free(i)
      <4>1. avoid'[c] = released
        BY <2>1, <3>4 DEF ToAvoid
      <4> QED
        BY <3>2, <3>3, <3>4, <4>1, FirstFreeTakesTurns
    <3>5. CASE ~\E i \in InPool \ {released}: Free(i)
      <4>1. avoid'[c] = NoIP
        BY <2>1, <3>5 DEF ToAvoid
      <4> QED
        BY <1>a, <2>4, <4>1
    <3> QED
      BY <3>4, <3>5
  <2> QED
    BY <2>2, <2>3, <2>4 DEF TurnInv, NotTwiceInARow
<1>2. ASSUME NEW c \in Callers, Enter(c) \/ SetThrottled(c) PROVE TurnInv'
  <2>1. /\ \A d \in Callers \ {c}: pc'[d] = pc[d] /\ ip'[d] = ip[d]
        /\ pc'[c] \in {"idle", "get"} /\ UNCHANGED <<slot, ptr, avoid>>
    BY <1>2 DEF Enter, SetThrottled, Goto, poolVars, PcTypes, FieldTypes
  <2> QED
    BY <2>1 DEF TurnInv, NotTwiceInARow
<1>3. ASSUME NEW c \in Callers, ReadIP(c) PROVE TurnInv'
  <2>1. /\ \A d \in Callers \ {c}: pc'[d] = pc[d] /\ ip'[d] = ip[d] /\ ptr'[d] = ptr[d]
        /\ pc[c] = "cool" /\ pc'[c] = "cmd" /\ ip'[c] = slot[ptr[c]]
        /\ UNCHANGED <<slot, avoid>>
    BY <1>3 DEF ReadIP, Goto, poolVars, PcTypes, FieldTypes
  <2> QED
    BY <2>1 DEF TurnInv, NotTwiceInARow
<1>4. ASSUME NEW c \in Callers, Release(c) PROVE TurnInv'
  <2>1. /\ \A d \in Callers \ {c}: /\ pc'[d] = pc[d] /\ ip'[d] = ip[d]
                                  /\ avoid'[d] = avoid[d]
        /\ pc'[c] \in {"idle", "get", "ban"} /\ UNCHANGED <<slot, ptr>>
    BY <1>4 DEF Release, ReleaseIP, Goto, PcTypes, FieldTypes
  <2> QED
    BY <2>1 DEF TurnInv, NotTwiceInARow
<1>5. ASSUME Unban \/ Stop PROVE TurnInv'
  BY <1>5 DEF Unban, Stop, poolVars, callerVars, TurnInv, NotTwiceInARow
<1>6. ASSUME NEW S \in SUBSET IPs, Refresh(S) PROVE TurnInv'
  BY <1>6 DEF Refresh, callerVars, TurnInv, NotTwiceInARow
<1> QED
  BY <1>1, <1>2, <1>3, <1>4, <1>5, <1>6 DEF PoolStep

\* The count of callers and the count of marked addresses move together.
LEMMA HoldersNext ==
    OrderInv /\ PcTypes /\ PointerInv /\ HoldersBounded /\ PoolStep => HoldersBounded'
<1> SUFFICES ASSUME OrderInv, PcTypes, PointerInv, HoldersBounded, PoolStep
             PROVE  HoldersBounded'
  OBVIOUS
<1>a. IsFiniteSet(Holders) /\ Cardinality(Holders) \in Nat
  <2>1. Holders \in SUBSET Callers
    BY DEF Holders
  <2> QED
    BY <2>1, PoolAssumption, FS_Subset, FS_CardinalityType
<1>b. IsFiniteSet(inUse) /\ Cardinality(inUse) \in Nat
  <2>1. inUse \in SUBSET IPs
    BY OrderLength DEF OrderInv, InPool
  <2> QED
    BY <2>1, PoolAssumption, FS_Subset, FS_CardinalityType
<1>c. ASSUME NEW c \in Callers, NEW l \in Locations, Goto(c, l)
      PROVE  Holders' = IF l \in {"cool", "cmd"} THEN Holders \cup {c} ELSE Holders \ {c}
  BY <1>c DEF Goto, Holders, PcTypes
<1>d. ASSUME Holders' = Holders, inUse' = inUse PROVE HoldersBounded'
  BY <1>d DEF HoldersBounded
<1>e. \A l \in {"idle", "get", "cool", "cmd", "ban"}: l \in Locations
  BY DEF Locations
<1>1. ASSUME NEW c \in Callers, Enter(c) \/ SetThrottled(c) PROVE HoldersBounded'
  <2>1. \E l \in {"idle", "get"}: Goto(c, l)
    BY <1>1 DEF Enter, SetThrottled
  <2>2. c \notin Holders
    BY <1>1 DEF Enter, SetThrottled, Holders
  <2>3. Holders' = Holders
    BY <1>c, <1>e, <2>1, <2>2
  <2>4. inUse' = inUse
    BY <1>1 DEF Enter, SetThrottled, poolVars
  <2> QED
    BY <1>d, <2>3, <2>4
<1>2. ASSUME NEW c \in Callers, NextIP(c) PROVE HoldersBounded'
  <2>1. c \notin Holders
    BY <1>2 DEF NextIP, Holders
  <2>2. CASE AllThrottled \/ AllInUse
    <3>1. inUse' = inUse /\ (Goto(c, "idle") \/ UNCHANGED pc)
      BY <1>2, <2>2 DEF NextIP, WaitOrGiveUp
    <3>2. Holders' = Holders
      BY <1>c, <1>e, <2>1, <3>1 DEF Holders
    <3> QED
      BY <1>d, <3>1, <3>2
  <2>3. CASE ~(AllThrottled \/ AllInUse)
    <3>1. PICK k \in DOMAIN lru: /\ Free(lru[k]) /\ Goto(c, "cool")
                                 /\ inUse' = inUse \cup {lru[k]}
      BY <1>2, <2>3 DEF NextIP, Marked
    <3>2. Holders' = Holders \cup {c}
      BY <1>c, <1>e, <3>1
    <3>3. Cardinality(Holders') = Cardinality(Holders) + 1
      BY <1>a, <2>1, <3>2, FS_AddElement
    <3>4. Cardinality(inUse') = Cardinality(inUse) + 1
      BY <1>b, <3>1, FS_AddElement DEF Free
    <3> QED
      BY <1>a, <1>b, <3>3, <3>4 DEF HoldersBounded
  <2> QED
    BY <2>2, <2>3
<1>3. ASSUME NEW c \in Callers, ReadIP(c) PROVE HoldersBounded'
  <2>1. Holders' = Holders
    BY <1>3, <1>c, <1>e DEF ReadIP, Holders
  <2> QED
    BY <1>3, <1>d, <2>1 DEF ReadIP, poolVars
<1>4. ASSUME NEW c \in Callers, Release(c) PROVE HoldersBounded'
  <2>1. c \in Holders /\ \E l \in {"idle", "get", "ban"}: Goto(c, l)
    BY <1>4 DEF Release, Holders
  <2>2. Holders' = Holders \ {c}
    BY <1>c, <1>e, <2>1
  <2>3. Cardinality(Holders') = Cardinality(Holders) - 1
    BY <1>a, <2>1, <2>2, FS_RemoveElement
  <2>4. inUse' = inUse \ {ip[c]}
    BY <1>4 DEF Release, ReleaseIP, Unmarked
  <2>5. Cardinality(inUse') \in {Cardinality(inUse), Cardinality(inUse) - 1}
    BY <1>b, <2>4, FS_RemoveElement
  <2> QED
    BY <1>a, <1>b, <2>3, <2>5 DEF HoldersBounded
<1>5. ASSUME Unban \/ Stop PROVE HoldersBounded'
  BY <1>5, <1>d DEF Unban, Stop, poolVars, callerVars, Holders
<1>6. ASSUME NEW S \in SUBSET IPs, Refresh(S) PROVE HoldersBounded'
  <2>1. Holders' = {}
    BY <1>6 DEF Refresh, callerVars, Holders
  <2>2. inUse' \in SUBSET inUse
    BY <1>6 DEF Refresh
  <2>3. Cardinality(inUse') \in Nat
    BY <1>b, <2>2, FS_Subset, FS_CardinalityType
  <2>4. Cardinality(Holders') = 0
    BY <2>1, FS_EmptySet
  <2> QED
    BY <2>3, <2>4 DEF HoldersBounded
<1> QED
  BY <1>1, <1>2, <1>3, <1>4, <1>5, <1>6 DEF PoolStep

LEMMA PoolInit == InitPool => PoolInv
<1> SUFFICES ASSUME InitPool PROVE PoolInv
  OBVIOUS
<1>1. OrderInv
  BY OrdersList DEF InitPool, OrderInv, InPool
<1>2. FieldTypes
  <2>1. timers \in Seq(Timer)
    BY EmptySeq DEF InitPool
  <2> QED
    BY <2>1 DEF InitPool, FieldTypes
<1>3. PcTypes /\ PointerInv /\ ReleasedInv /\ TurnInv
  BY DEF InitPool, PcTypes, PointerInv, ReleasedInv, TurnInv, NotTwiceInARow, Locations
<1>4. HoldersBounded
  <2>1. Holders = {} /\ inUse = {}
    BY DEF InitPool, Holders
  <2>2. Cardinality({}) = 0
    BY FS_EmptySet
  <2> QED
    BY <2>1, <2>2 DEF HoldersBounded
<1> QED
  BY <1>1, <1>2, <1>3, <1>4 DEF PoolInv

LEMMA PoolNext == PoolInv /\ [Next]_vars => PoolInv'
<1>1. ASSUME PoolInv, PoolStep PROVE PoolInv'
  BY <1>1, OrderNext, PcNext, FieldNext, PointerNext, ReleasedNext, TurnNext, HoldersNext
     DEF PoolInv
<1>2. ASSUME PoolInv, UNCHANGED ipVars PROVE PoolInv'
  <2>1. OrderInv' /\ FieldTypes'
    BY <1>2 DEF PoolInv, OrderInv, FieldTypes, InPool, ipVars, poolVars, callerVars
  <2>2. PcTypes' /\ PointerInv' /\ ReleasedInv' /\ TurnInv' /\ HoldersBounded'
    BY <1>2 DEF PoolInv, PcTypes, PointerInv, ReleasedInv, TurnInv, NotTwiceInARow,
                HoldersBounded, Holders, InPool, ipVars, poolVars, callerVars
  <2> QED
    BY <2>1, <2>2 DEF PoolInv
<1> QED
  BY <1>1, <1>2, NextIsPoolStep

LEMMA PoolKeepsTypes == PoolInv => PoolTypeOK
<1> SUFFICES ASSUME PoolInv PROVE PoolTypeOK
  OBVIOUS
<1>1. /\ Len(slot) = Cardinality(InPool) /\ Len(lru) = Len(slot) /\ ToSet(lru) = InPool
      /\ InPool \subseteq IPs /\ inUse \subseteq InPool /\ throttled \subseteq InPool
  BY OrderLength DEF PoolInv, OrderInv, InPool
<1>2. \A k \in DOMAIN timers: timers[k] \in Timer
  BY DEF PoolInv, FieldTypes
<1> QED
  BY <1>1, <1>2 DEF PoolInv, FieldTypes, PcTypes, PoolTypeOK

---------------------------------------------------------------------------
(* The loops of run and Download *)

WorkerTypes ==
    /\ remainingAttempts \in [Workers -> 0 .. Ladder]
    /\ qualityIndex \in [Workers -> 0 .. Ladder - 1]
    /\ file \in [Workers -> BOOLEAN]
    /\ result \in [Workers -> Results]

\* A worker at l, at quality q with n attempts left, its video on disk or not (f): in
\* the loop there is one attempt for every quality that is left, and it has no result.
LoopState(l, q, n, f, r) ==
    /\ r = "nil" => f
    /\ l = "idle" /\ r = "outOfLoop" => q = Ladder - 1
    /\ l # "idle" => r = "none" /\ q < Ladder - 1 /\ n = Ladder - q

LoopInv == \A d \in Workers:
    LoopState(pc[d], qualityIndex[d], remainingAttempts[d], file[d], result[d])

\* run has an attempt left while it is in its loop.
AttemptsInv ==
    /\ attempts \in 0 .. MaxAttempts
    /\ pc[Producer] # "idle" => attempts < MaxAttempts

DownloadInv == WorkerTypes /\ LoopInv /\ AttemptsInv

LEMMA WorkerSets ==
    ASSUME PcTypes, WorkerTypes, LoopInv, NEW d \in Workers, NEW l,
           NEW q \in 0 .. Ladder - 1, NEW n \in 0 .. Ladder, NEW f \in BOOLEAN,
           NEW r \in Results, LoopState(l, q, n, f, r),
           Goto(d, l), qualityIndex' = [qualityIndex EXCEPT ![d] = q],
           remainingAttempts' = [remainingAttempts EXCEPT ![d] = n],
           file' = [file EXCEPT ![d] = f], result' = [result EXCEPT ![d] = r]
    PROVE  WorkerTypes' /\ LoopInv'
<1>1. WorkerTypes'
  BY DEF WorkerTypes
<1>2. d \in Callers
  BY DEF Workers
<1>3. ASSUME NEW e \in Workers
      PROVE  LoopState(pc[e], qualityIndex[e], remainingAttempts[e], file[e], result[e])'
  <2>1. CASE e = d
    <3>1. /\ pc'[e] = l /\ qualityIndex'[e] = q /\ remainingAttempts'[e] = n
          /\ file'[e] = f /\ result'[e] = r
      BY <1>2, <2>1 DEF Goto, PcTypes, WorkerTypes
    <3> QED
      BY <3>1 DEF LoopState
  <2>2. CASE e # d
    <3>1. /\ pc'[e] = pc[e] /\ qualityIndex'[e] = qualityIndex[e]
          /\ remainingAttempts'[e] = remainingAttempts[e]
          /\ file'[e] = file[e] /\ result'[e] = result[e]
      BY <2>2 DEF Goto, PcTypes, WorkerTypes, Workers
    <3> QED
      BY <3>1 DEF LoopState, LoopInv
  <2> QED
    BY <2>1, <2>2
<1> QED
  BY <1>1, <1>3 DEF LoopInv

\* A step that leaves the workers in or out of their loops changes nothing for them.
LEMMA WorkerStays ==
    ASSUME WorkerTypes, LoopInv, UNCHANGED dlVars,
           \A d \in Workers: pc'[d] = pc[d] \/ (pc[d] # "idle" /\ pc'[d] # "idle")
    PROVE  WorkerTypes' /\ LoopInv'
<1>1. WorkerTypes'
  BY DEF WorkerTypes, dlVars
<1>2. ASSUME NEW e \in Workers
      PROVE  LoopState(pc[e], qualityIndex[e], remainingAttempts[e], file[e], result[e])'
  <2>1. LoopState(pc[e], qualityIndex[e], remainingAttempts[e], file[e], result[e])
    BY DEF LoopInv
  <2>2. pc'[e] = pc[e] \/ (pc[e] # "idle" /\ pc'[e] # "idle")
    OBVIOUS
  <2> QED
    BY <2>1, <2>2 DEF LoopState, dlVars
<1> QED
  BY <1>1, <1>2 DEF LoopInv

\* The command of a worker in its loop, with every way Download goes on.
LEMMA RawDownloadLoops ==
    ASSUME PcTypes, WorkerTypes, LoopInv, NEW d \in Workers, RawDownload(d)
    PROVE  WorkerTypes' /\ LoopInv'
<1> DEFINE q == qualityIndex[d]
           n == remainingAttempts[d]
<1>a. Ladder \in Nat /\ Ladder > 1
  BY DownloadAssumption
<1>b. d \in Callers /\ pc[d] = "cmd"
  BY DEF RawDownload, Workers
<1>c. /\ q \in 0 .. Ladder - 1 /\ n \in 0 .. Ladder /\ file[d] \in BOOLEAN
      /\ result[d] \in Results
  BY DEF WorkerTypes
<1>d. result[d] = "none" /\ q < Ladder - 1 /\ n = Ladder - q
  BY <1>b DEF LoopInv, LoopState
<1>e. /\ qualityIndex = [qualityIndex EXCEPT ![d] = q]
      /\ remainingAttempts = [remainingAttempts EXCEPT ![d] = n]
      /\ file = [file EXCEPT ![d] = file[d]] /\ result = [result EXCEPT ![d] = result[d]]
  BY DEF WorkerTypes
<1>f. 0 \in 0 .. Ladder - 1 /\ 0 \in 0 .. Ladder /\ TRUE \in BOOLEAN /\ FALSE \in BOOLEAN
  BY <1>a
<1>g. "none" \in Results /\ "nil" \in Results /\ "outOfLoop" \in Results
  BY DEF Results
<1>1. CASE Failed(d)
  <2>1. LoopState("idle", 0, 0, FALSE, "none")
    BY DEF LoopState
  <2> QED
    BY <1>1, <1>f, <1>g, <2>1, WorkerSets DEF Failed, Return, Delete, Quality, Remaining
<1>2. CASE Succeeded(d)
  <2>1. PICK there \in BOOLEAN: /\ file' = [file EXCEPT ![d] = there]
                                /\ (there /\ Return(d, "nil")) \/ Return(d, "none")
    BY <1>2 DEF Succeeded, FileIsThere
  <2>2. CASE there /\ Return(d, "nil")
    <3>1. LoopState("idle", 0, 0, there, "nil")
      BY <2>2 DEF LoopState
    <3> QED
      BY <2>1, <2>2, <3>1, <1>f, <1>g, WorkerSets DEF Return, Quality, Remaining
  <2>3. CASE Return(d, "none")
    <3>1. LoopState("idle", 0, 0, there, "none")
      BY DEF LoopState
    <3> QED
      BY <2>1, <2>3, <3>1, <1>f, <1>g, WorkerSets DEF Return, Quality, Remaining
  <2> QED
    BY <2>1, <2>2, <2>3
<1>3. CASE ReduceResolution(d)
  <2>1. file' = [file EXCEPT ![d] = FALSE]
    BY <1>3 DEF ReduceResolution, Delete
  <2>2. CASE LadderEnds(q + 1)
    <3>1. q + 1 = Ladder - 1 /\ q + 1 \in 0 .. Ladder - 1
      BY <1>a, <1>c, <1>d, <2>2 DEF LadderEnds
    <3>2. LoopState("idle", q + 1, 0, FALSE, "outOfLoop")
      BY <3>1 DEF LoopState
    <3>3. ReturnLastKnown(d, q + 1)
      BY <1>3, <2>2 DEF ReduceResolution
    <3> HIDE DEF q
    <3> QED
      BY <2>1, <3>1, <3>2, <3>3, <1>f, <1>g, WorkerSets
         DEF ReturnLastKnown, Quality, Remaining
  <2>3. CASE ~LadderEnds(q + 1)
    <3>1. /\ Goto(d, "get") /\ Quality(d, q + 1) /\ Remaining(d, n - 1) /\ UNCHANGED result
      BY <1>3, <2>3 DEF ReduceResolution, Left
    <3>2. /\ q + 1 \in 0 .. Ladder - 1 /\ n - 1 \in 0 .. Ladder
          /\ q + 1 < Ladder - 1 /\ n - 1 = Ladder - (q + 1)
      BY <1>a, <1>c, <1>d, <2>3 DEF LadderEnds
    <3>3. LoopState("get", q + 1, n - 1, FALSE, "none")
      BY <3>2 DEF LoopState
    <3>4. result' = [result EXCEPT ![d] = "none"]
      BY <1>d, <1>e, <3>1
    <3> HIDE DEF q, n
    <3> QED
      BY <2>1, <3>1, <3>2, <3>3, <3>4, <1>f, <1>g, WorkerSets DEF Quality, Remaining
  <2> QED
    BY <2>2, <2>3
<1>4. CASE WasThrottled(d)
  <2>1. Goto(d, "ban") /\ Remaining(d, n) /\ UNCHANGED <<qualityIndex, file, result>>
    <3>1. Refunded(Left(d)) = n
      BY <1>c DEF Refunded, Left
    <3> QED
      BY <1>4, <3>1 DEF WasThrottled
  <2>2. LoopState("ban", q, n, file[d], result[d])
    BY <1>d DEF LoopState
  <2> DEFINE f == file[d]
             r == result[d]
  <2>3. /\ qualityIndex' = [qualityIndex EXCEPT ![d] = q]
        /\ remainingAttempts' = [remainingAttempts EXCEPT ![d] = n]
        /\ file' = [file EXCEPT ![d] = f] /\ result' = [result EXCEPT ![d] = r]
    BY <2>1, <1>e DEF Remaining
  <2>4. /\ q \in 0 .. Ladder - 1 /\ n \in 0 .. Ladder /\ f \in BOOLEAN /\ r \in Results
        /\ LoopState("ban", q, n, f, r) /\ Goto(d, "ban")
    BY <1>c, <2>1, <2>2
  <2> HIDE DEF q, n, f, r
  <2> QED
    BY <2>3, <2>4, WorkerSets
<1> QED
  BY <1>1, <1>2, <1>3, <1>4 DEF RawDownload

LEMMA DownloadLoops ==
    ASSUME PcTypes, WorkerTypes, LoopInv, NEW d \in Workers, Download(d)
    PROVE  WorkerTypes' /\ LoopInv'
<1>a. Ladder \in Nat /\ Ladder > 1
  BY DownloadAssumption
<1>b. 0 \in 0 .. Ladder - 1 /\ 0 \in 0 .. Ladder /\ Ladder \in 0 .. Ladder
  BY <1>a
<1>c. "none" \in Results /\ "nil" \in Results
  BY DEF Results
<1>1. PICK there \in {file[d], FALSE}:
         /\ file' = [file EXCEPT ![d] = there]
         /\ \/ there /\ Return(d, "nil")
            \/ ~there /\ Return(d, "none")
            \/ /\ ~there /\ Goto(d, "get") /\ result' = [result EXCEPT ![d] = "none"]
               /\ Quality(d, 0) /\ Remaining(d, Ladder)
  BY DEF Download
<1>2. there \in BOOLEAN
  BY DEF WorkerTypes
<1>3. CASE there /\ Return(d, "nil")
  <2>1. LoopState("idle", 0, 0, there, "nil")
    BY <1>3 DEF LoopState
  <2> QED
    BY <1>1, <1>2, <1>3, <2>1, <1>b, <1>c, WorkerSets DEF Return, Quality, Remaining
<1>4. CASE Return(d, "none")
  <2>1. LoopState("idle", 0, 0, there, "none")
    BY DEF LoopState
  <2> QED
    BY <1>1, <1>2, <1>4, <2>1, <1>b, <1>c, WorkerSets DEF Return, Quality, Remaining
<1>5. CASE /\ Goto(d, "get") /\ result' = [result EXCEPT ![d] = "none"]
           /\ Quality(d, 0) /\ Remaining(d, Ladder)
  <2>1. LoopState("get", 0, Ladder, there, "none")
    BY <1>a DEF LoopState
  <2> QED
    BY <1>1, <1>2, <1>5, <2>1, <1>b, <1>c, WorkerSets DEF Quality, Remaining
<1> QED
  BY <1>1, <1>3, <1>4, <1>5

\* The last branch of Attempt, out of the loop with no attempt left, is never taken.
LEMMA AttemptLoops ==
    ASSUME PcTypes, WorkerTypes, LoopInv, NEW d \in Workers, Attempt(d)
    PROVE  WorkerTypes' /\ LoopInv'
<1>a. Ladder \in Nat /\ Ladder > 1
  BY DownloadAssumption
<1>b. d \in Callers /\ pc[d] = "get"
  BY DEF Attempt, Workers
<1>1. remainingAttempts[d] > 0
  <2>1. qualityIndex[d] < Ladder - 1 /\ remainingAttempts[d] = Ladder - qualityIndex[d]
    BY <1>b DEF LoopInv, LoopState
  <2>2. qualityIndex[d] \in 0 .. Ladder - 1
    BY DEF WorkerTypes
  <2> QED
    BY <1>a, <2>1, <2>2
<1>2. GetAddress(d)
  BY <1>1 DEF Attempt
<1>3. CASE pc'[d] = "idle"
  <2>1. Return(d, "none") /\ Delete(d)
    BY <1>2, <1>3 DEF GetAddress
  <2>2. LoopState("idle", 0, 0, FALSE, "none")
    BY DEF LoopState
  <2>3. 0 \in 0 .. Ladder - 1 /\ 0 \in 0 .. Ladder /\ FALSE \in BOOLEAN /\ "none" \in Results
    BY <1>a DEF Results
  <2> QED
    BY <2>1, <2>2, <2>3, WorkerSets DEF Return, Delete, Quality, Remaining
<1>4. CASE pc'[d] # "idle"
  <2>1. UNCHANGED dlVars
    BY <1>2, <1>4 DEF GetAddress
  <2>2. \A e \in Callers: e # d => pc'[e] = pc[e]
    BY <1>2 DEF GetAddress, NextIP, WaitOrGiveUp, Goto, PcTypes
  <2> QED
    BY <1>b, <1>4, <2>1, <2>2, WorkerStays DEF Workers
<1> QED
  BY <1>3, <1>4

LEMMA PublishLoops ==
    ASSUME PcTypes, WorkerTypes, LoopInv, NEW d \in Workers, Publish(d)
    PROVE  WorkerTypes' /\ LoopInv'
<1> DEFINE q == qualityIndex[d]
           n == remainingAttempts[d]
<1>1. d \in Callers /\ pc[d] = "idle" /\ UNCHANGED <<pc, qualityIndex, remainingAttempts>>
  BY DEF Publish, Workers, ipVars, callerVars
<1>2. Goto(d, "idle")
  BY <1>1 DEF Goto, PcTypes
<1>3. /\ qualityIndex' = [qualityIndex EXCEPT ![d] = q]
      /\ remainingAttempts' = [remainingAttempts EXCEPT ![d] = n]
      /\ q \in 0 .. Ladder - 1 /\ n \in 0 .. Ladder
  BY <1>1 DEF WorkerTypes
<1>4. PICK f \in BOOLEAN: file' = [file EXCEPT ![d] = f]
  <2>1. file' = file \/ file' = [file EXCEPT ![d] = FALSE]
    BY DEF Publish
  <2>2. file = [file EXCEPT ![d] = file[d]] /\ file[d] \in BOOLEAN
    BY DEF WorkerTypes
  <2> QED
    BY <2>1, <2>2
<1>5. result' = [result EXCEPT ![d] = "none"] /\ "none" \in Results
  BY DEF Publish, Results
<1>6. LoopState("idle", q, n, f, "none")
  BY DEF LoopState
<1> HIDE DEF q, n
<1> QED
  BY <1>2, <1>3, <1>4, <1>5, <1>6, WorkerSets

LEMMA LoopNext == PcTypes /\ WorkerTypes /\ LoopInv /\ [Next]_vars => WorkerTypes' /\ LoopInv'
<1> SUFFICES ASSUME PcTypes, WorkerTypes, LoopInv, [Next]_vars
             PROVE  WorkerTypes' /\ LoopInv'
  OBVIOUS
<1>a. Producer \notin Workers /\ Workers \subseteq Callers
  BY DEF Workers
<1>b. ASSUME UNCHANGED <<pc, dlVars>> PROVE WorkerTypes' /\ LoopInv'
  BY <1>b, WorkerStays
<1>c. ASSUME UNCHANGED dlVars, \A d \in Callers \ {Producer}: pc'[d] = pc[d]
      PROVE  WorkerTypes' /\ LoopInv'
  BY <1>c, WorkerStays DEF Workers
<1>1. CASE Run
  BY <1>1, <1>c DEF Run, Goto, PcTypes
<1>2. CASE ProducerStep
  <2>1. UNCHANGED dlVars
    BY <1>2 DEF ProducerStep, RunCmd
  <2>2. (\E l: Goto(Producer, l)) \/ UNCHANGED pc
    BY <1>2 DEF ProducerStep, RunCmd, NextIP, WaitOrGiveUp, ReadIP, SetThrottled
  <2>3. \A d \in Callers \ {Producer}: pc'[d] = pc[d]
    BY <2>2 DEF Goto, PcTypes
  <2> QED
    BY <1>c, <2>1, <2>3
<1>3. ASSUME NEW d \in Workers, Download(d) \/ Attempt(d) \/ RawDownload(d) \/ Publish(d)
      PROVE  WorkerTypes' /\ LoopInv'
  BY <1>3, DownloadLoops, AttemptLoops, RawDownloadLoops, PublishLoops
<1>4. ASSUME NEW d \in Workers, Ban(d) \/ (ReadIP(d) /\ UNCHANGED <<attempts, dlVars>>)
      PROVE  WorkerTypes' /\ LoopInv'
  <2>1. UNCHANGED dlVars /\ pc[d] # "idle"
    BY <1>4 DEF Ban, ReadIP, SetThrottled
  <2>2. Goto(d, "get") \/ Goto(d, "cmd")
    BY <1>4 DEF Ban, ReadIP, SetThrottled
  <2>3. \A e \in Workers: pc'[e] = pc[e] \/ (pc[e] # "idle" /\ pc'[e] # "idle")
    BY <1>a, <2>1, <2>2 DEF Goto, PcTypes
  <2> QED
    BY <2>1, <2>3, WorkerStays
<1>5. CASE Pool
  <2>1. UNCHANGED <<pc, dlVars>>
    BY <1>5 DEF Pool, Unban, Stop, Refresh, callerVars
  <2> QED
    BY <2>1, <1>b
<1>6. ASSUME Over \/ UNCHANGED vars PROVE WorkerTypes' /\ LoopInv'
  BY <1>6, <1>b DEF Over, vars, ipVars, callerVars
<1> QED
  BY <1>1, <1>2, <1>3, <1>4, <1>5, <1>6 DEF Next, WorkerStep

LEMMA AttemptsNext == PcTypes /\ AttemptsInv /\ [Next]_vars => AttemptsInv'
<1> SUFFICES ASSUME PcTypes, AttemptsInv, [Next]_vars PROVE AttemptsInv'
  OBVIOUS
<1>a. Producer \in Callers /\ MaxAttempts \in Nat /\ MaxAttempts > 0
  BY DownloadAssumption
<1>b. ASSUME attempts' = attempts, pc'[Producer] = pc[Producer] \/ pc[Producer] # "idle"
      PROVE  AttemptsInv'
  BY <1>b DEF AttemptsInv
<1>c. ASSUME NEW d \in Workers, NEW l, Goto(d, l) PROVE pc'[Producer] = pc[Producer]
  BY <1>a, <1>c DEF Goto, Workers, PcTypes
<1>1. CASE Run
  BY <1>1, <1>a DEF Run, AttemptsInv
<1>2. CASE ProducerStep
  <2>1. CASE RunCmd
    <3>1. CASE Goto(Producer, "idle") /\ UNCHANGED attempts
      BY <1>a, <3>1 DEF Goto, PcTypes, AttemptsInv
    <3>2. CASE Goto(Producer, "ban") /\ UNCHANGED attempts
      BY <2>1, <1>b, <3>2 DEF RunCmd
    <3>3. CASE /\ attempts' = attempts + 1
               /\ Goto(Producer, IF attempts + 1 < MaxAttempts THEN "get" ELSE "idle")
      <4>1. attempts \in 0 .. MaxAttempts /\ attempts < MaxAttempts
        BY <2>1 DEF RunCmd, AttemptsInv
      <4>2. pc'[Producer] = IF attempts + 1 < MaxAttempts THEN "get" ELSE "idle"
        BY <1>a, <3>3 DEF Goto, PcTypes
      <4> QED
        BY <1>a, <3>3, <4>1, <4>2 DEF AttemptsInv
    <3> QED
      BY <2>1, <3>1, <3>2, <3>3 DEF RunCmd
  <2>2. CASE (NextIP(Producer) \/ ReadIP(Producer) \/ SetThrottled(Producer))
                 /\ UNCHANGED <<attempts, dlVars>>
    BY <2>2, <1>b DEF NextIP, ReadIP, SetThrottled
  <2> QED
    BY <1>2, <2>1, <2>2 DEF ProducerStep
<1>3. ASSUME NEW d \in Workers, Download(d) \/ WorkerStep(d) PROVE AttemptsInv'
  <2>1. attempts' = attempts
    BY <1>3 DEF Download, WorkerStep, Attempt, RawDownload, Ban
  <2>2. (\E l: Goto(d, l)) \/ UNCHANGED pc
    BY <1>3 DEF Download, WorkerStep, Attempt, GetAddress, NextIP, WaitOrGiveUp, RawDownload,
                Ban, ReadIP, SetThrottled, Failed, Succeeded, ReduceResolution, WasThrottled,
                Return, ReturnLastKnown
  <2> QED
    BY <1>b, <1>c, <2>1, <2>2
<1>4. ASSUME Pool \/ Over \/ (\E d \in Workers: Publish(d)) \/ UNCHANGED vars
      PROVE  AttemptsInv'
  <2>1. attempts' = attempts /\ pc' = pc
    BY <1>4 DEF Pool, Unban, Stop, Refresh, Over, Publish, vars, ipVars, callerVars
  <2> QED
    BY <1>b, <2>1
<1> QED
  BY <1>1, <1>2, <1>3, <1>4 DEF Next

---------------------------------------------------------------------------
(* The theorems *)

\* The pool, the callers and the workers keep their types and the inductive invariant,
\* whatever is throttled, refreshed, interrupted or banned (ip_manager/throttle.go,
\* newYtDownload.go:180-338).
THEOREM DownloadInvariant == Spec => [](PoolInv /\ DownloadInv)
<1>1. Init => PoolInv /\ DownloadInv
  <2> SUFFICES ASSUME Init PROVE PoolInv /\ DownloadInv
    OBVIOUS
  <2>1. PoolInv
    BY PoolInit DEF Init
  <2>2. WorkerTypes /\ LoopInv
    <3>1. 0 \in 0 .. Ladder - 1 /\ 0 \in 0 .. Ladder /\ "none" \in Results
      BY DownloadAssumption DEF Results
    <3>2. WorkerTypes
      BY <3>1 DEF Init, WorkerTypes
    <3>3. LoopInv
      BY DEF Init, InitPool, LoopInv, LoopState, Workers
    <3> QED
      BY <3>2, <3>3
  <2>3. AttemptsInv
    BY DownloadAssumption DEF Init, InitPool, AttemptsInv
  <2> QED
    BY <2>1, <2>2, <2>3 DEF DownloadInv
<1>2. PoolInv /\ DownloadInv /\ [Next]_vars => (PoolInv /\ DownloadInv)'
  <2>1. PoolInv => PcTypes
    BY DEF PoolInv
  <2>2. PoolInv /\ DownloadInv /\ [Next]_vars => DownloadInv'
    BY <2>1, LoopNext, AttemptsNext DEF DownloadInv
  <2> QED
    BY <2>2, PoolNext
<1> QED
  BY <1>1, <1>2, PTL DEF Spec

\* The variables of the pool and of its callers keep their types.
THEOREM DownloadTypes == Spec => []TypeOK
<1>1. PoolInv /\ DownloadInv => TypeOK
  BY PoolKeepsTypes DEF DownloadInv, WorkerTypes, AttemptsInv, TypeOK
<1> QED
  BY DownloadInvariant, <1>1, PTL

\* However pointers into the array go astray, the pool never serves more callers than
\* it has marked addresses (throttle.go:195-255).
THEOREM PoolServesWithinMarks == Spec => []HoldersBounded
<1>1. PoolInv => HoldersBounded
  BY DEF PoolInv
<1> QED
  BY DownloadInvariant, <1>1, PTL

\* Download returns nil only with the video on disk (newYtDownload.go:203-209, 306-318).
THEOREM DownloadedIsThere == Spec => []DownloadedMeansFile
<1>1. DownloadInv => DownloadedMeansFile
  BY DEF DownloadInv, LoopInv, LoopState, DownloadedMeansFile
<1> QED
  BY DownloadInvariant, <1>1, PTL

\* Download gives its loop up only at the lowest quality (newYtDownload.go:277-338).
THEOREM LadderIsUsedUp == Spec => []GivesUpAtLadderEnd
<1>1. PoolInv /\ DownloadInv => GivesUpAtLadderEnd
  BY DEF DownloadInv, LoopInv, LoopState, GivesUpAtLadderEnd
<1> QED
  BY DownloadInvariant, <1>1, PTL

\* GetIP does not return the address that was released last while another one is free, as
\* throttle_test.go:25-31 asks, unless another caller's nextIP moved another entry under
\* the pointer before the read.
THEOREM AddressesTakeTurns == Spec => []NotTwiceInARow
<1>1. PoolInv => NotTwiceInARow
  BY DEF PoolInv, TurnInv
<1> QED
  BY DownloadInvariant, <1>1, PTL
=============================================================================
