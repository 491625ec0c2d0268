------------------------------ MODULE IPPool ------------------------------
(***************************************************************************)
(* The pool of source addresses (ip_manager): its operations and what it   *)
(* promises to the goroutines that use it.  VideoDownload is the program   *)
(* around it.                                                              *)
(*                                                                         *)
(* The pool is a Go slice of entries.  nextIP sorts it in place and hands  *)
(* out a POINTER to an element; GetIP reads the address through it after   *)
(* the lock was released, and SetThrottled's goroutine writes through one  *)
(* two days later.  So slot is the sequence of entries as they lie in the  *)
(* array, and a pointer is an index into it.  lru is the order of the      *)
(* entries' LastUse, which is what nextIP sorts by.  The flags of an entry *)
(* move with it, so they are kept per address.                             *)
(***************************************************************************)
EXTENDS Naturals, Sequences, FiniteSets, SequencesExt

CONSTANTS
    IPs,            \* addresses the host may have
    Callers,        \* goroutines that use the pool
    NoIP,
    MaxRefresh      \* bound: how often a new cycle refreshes the pool

ASSUME PoolAssumption ==
    /\ IsFiniteSet(IPs) /\ IPs # {} /\ NoIP \notin IPs
    /\ IsFiniteSet(Callers)
    /\ MaxRefresh \in Nat

VARIABLES
    slot, lru, inUse, throttled,    \* the pool
    array,          \* which array the slice points to; UpdateIps makes a new one
    timers,         \* pending unban goroutines, in the order of their timers
    stopped,        \* stopGrp
    pc, ptr, ip,    \* each caller: where it is, its *throttledIP, the address it was
                    \* given
    \* history
    avoid,          \* the address that the caller should not be given now, if any
    released        \* the address that was released last in this cycle

poolVars   == <<slot, lru, inUse, throttled, array>>
callerVars == <<pc, ptr, ip, avoid>>
ipVars == <<poolVars, timers, stopped, callerVars, released>>

InPool == ToSet(slot)
Free(i) == i \notin inUse /\ i \notin throttled
AllThrottled == \A i \in InPool: i \in throttled
AllInUse == \A i \in InPool: ~Free(i)
Orders(S) == SetToSeqs(S)
IndexOf(s, i) == CHOOSE k \in DOMAIN s: s[k] = i
MoveToEnd(s, i) ==
    IF i \in ToSet(s) THEN Append(RemoveAt(s, IndexOf(s, i)), i) ELSE s

\* The addresses of S follow each other in s as they do in t.
SameOrder(s, t, S) ==
    \A i, j \in S: IndexOf(s, i) < IndexOf(s, j) <=> IndexOf(t, i) < IndexOf(t, j)

Goto(c, l) == pc' = [pc EXCEPT ![c] = l]

---------------------------------------------------------------------------
\* GetIPPool: the addresses of the host, none of them used yet.
InitPool ==
    /\ slot \in Orders(IPs) /\ lru = slot
    /\ inUse = {} /\ throttled = {} /\ array = 0
    /\ timers = <<>> /\ stopped = FALSE
    /\ pc = [c \in Callers |-> "idle"] /\ ptr = [c \in Callers |-> 0]
    /\ ip = [c \in Callers |-> NoIP] /\ avoid = [c \in Callers |-> NoIP]
    /\ released = NoIP

\* Mutant: GetIP waits for an address without looking at the stop group.
WaitOrGiveUpNever(c) == UNCHANGED pc

\* No address can be had: GetIP (all in use) and its callers getIPFromPool and
\* getSourceAddress (all throttled) sleep and try again unless the group was stopped.
WaitOrGiveUp(c) == IF stopped THEN Goto(c, "idle") ELSE UNCHANGED pc

\* Mutant: the address is not marked as used.
MarkedNever(i) == inUse

Marked(i) == inUse \cup {i}

\* History: the caller that nextIP serves should not be given the address that was
\* released last if another one is free.  For a caller that still has to read through its
\* pointer that is off when the sort puts another entry there.
ToAvoid(c) == [d \in Callers |->
    IF d = c THEN IF \E i \in InPool \ {released}: Free(i) THEN released ELSE NoIP
    ELSE IF pc[d] = "cool" /\ lru[ptr[d]] # slot[ptr[d]] THEN NoIP ELSE avoid[d]]

\* nextIP, and what GetIP does with its errors.  The slice is sorted whatever
\* comes of it; the least recently used free address is taken.
NextIP(c) ==
    /\ pc[c] = "get"
    /\ slot' = lru
    /\ IF AllThrottled \/ AllInUse
       THEN WaitOrGiveUp(c) /\ UNCHANGED <<inUse, ptr>>
       ELSE \E k \in DOMAIN lru:
            /\ Free(lru[k]) /\ \A j \in 1 .. k - 1: ~Free(lru[j])
            /\ Goto(c, "cool")
            /\ inUse' = Marked(lru[k])
            /\ ptr' = [ptr EXCEPT ![c] = k]
    /\ avoid' = ToAvoid(c)
    /\ UNCHANGED <<lru, throttled, array, timers, stopped, ip, released>>

\* The end of GetIP, after the cool-down sleep if there was one: without the lock,
\* through the pointer.
ReadIP(c) ==
    /\ pc[c] = "cool"
    /\ Goto(c, "cmd")
    /\ ip' = [ip EXCEPT ![c] = slot[ptr[c]]] /\ ptr' = [ptr EXCEPT ![c] = 0]
    /\ UNCHANGED <<poolVars, timers, stopped, avoid, released>>

\* Mutant: LastUse is left as it was.
TouchedNever(i) == lru

\* Mutant: the released entry is added again instead of moved.
TouchedTwice(i) == Append(lru, i)

\* LastUse = time.Now().
Touched(i) == MoveToEnd(lru, i)

Unmarked(i) == inUse \ {i}

\* ReleaseIP, by the address that the caller read (it keeps it to have it banned).
ReleaseIP(c) ==
    /\ inUse' = Unmarked(ip[c]) /\ lru' = Touched(ip[c]) /\ released' = ip[c]
    /\ avoid' = [avoid EXCEPT ![c] = NoIP]
    /\ ip' = IF pc'[c] = "ban" THEN ip ELSE [ip EXCEPT ![c] = NoIP]
    /\ UNCHANGED <<slot, throttled, array, timers, stopped, ptr>>

\* SetThrottled: the flag, and a goroutine with a pointer to the element.  When the
\* group is stopped the goroutine ends at once.
SetThrottled(c) ==
    /\ pc[c] = "ban"
    /\ Goto(c, "get") /\ ip' = [ip EXCEPT ![c] = NoIP]
    /\ IF ip[c] \in throttled THEN UNCHANGED <<throttled, timers>>
       ELSE /\ throttled' = throttled \cup {ip[c]}
            /\ timers' = IF stopped THEN timers
                         ELSE Append(timers, [array |-> array, ip |-> ip[c],
                                              index |-> IndexOf(slot, ip[c])])
    /\ UNCHANGED <<slot, lru, inUse, array, stopped, ptr, avoid, released>>

\* unbanTimeout is over: the goroutine writes to the element it points to.
Unban ==
    /\ timers # <<>>
    /\ timers' = Tail(timers)
    /\ LET t == Head(timers) IN
       throttled' = IF t.array = array THEN throttled \ {slot[t.index]} ELSE throttled
    /\ UNCHANGED <<slot, lru, inUse, array, stopped, callerVars, released>>

\* The stop group is closed; the goroutines of SetThrottled end without unbanning.
Stop ==
    /\ ~stopped /\ stopped' = TRUE /\ timers' = <<>>
    /\ UNCHANGED <<poolVars, callerVars, released>>

\* FullCycle of the next channel, when no worker is left: ReleaseAll, then UpdateIps
\* with S the addresses the host has now.  Old elements are copied to a new array, in
\* their order, and the new ones come after them.
Refresh(S) ==
    /\ \A c \in Callers: pc[c] = "idle"
    /\ array < MaxRefresh /\ array' = array + 1
    /\ inUse' = inUse \cap throttled \cap S
    /\ throttled' = throttled \cap S
    /\ slot' \in {s \in Orders(S):
                    /\ SameOrder(s, slot, S \cap InPool)
                    /\ \A old \in S \cap InPool, new \in S \ InPool:
                          IndexOf(s, old) < IndexOf(s, new)}
    /\ lru' \in {l \in Orders(S): SameOrder(l, lru, S \cap InPool)}
    /\ released' = NoIP
    /\ UNCHANGED <<timers, stopped, callerVars>>

---------------------------------------------------------------------------
(* Properties *)

Locations == {"idle", "get", "cool", "cmd", "ban"}
Timer == [array: Nat, ip: IPs, index: Nat \ {0}]

\* Slots and LastUse order list the same addresses, once each; the callers' fields
\* have their types.
PoolTypeOK ==
    /\ Len(slot) = Cardinality(InPool) /\ Len(lru) = Len(slot) /\ ToSet(lru) = InPool
    /\ InPool \subseteq IPs /\ inUse \subseteq InPool /\ throttled \subseteq InPool
    /\ array \in Nat /\ stopped \in BOOLEAN
    /\ \A k \in DOMAIN timers: timers[k] \in Timer
    /\ pc \in [Callers -> Locations] /\ ptr \in [Callers -> Nat]
    /\ ip \in [Callers -> IPs \cup {NoIP}] /\ avoid \in [Callers -> IPs \cup {NoIP}]
    /\ released \in IPs \cup {NoIP}

Holders == {c \in Callers: pc[c] \in {"cool", "cmd"}}

\* There are never more callers holding an address than addresses marked as used:
\* however pointers go astray, the pool never serves more callers than it has
\* addresses.
HoldersBounded == Cardinality(Holders) <= Cardinality(inUse)

\* GetIP does not return the address that was released last while another one is free:
\* what throttle_test.go:25-31 asks of two calls in a row, here of all callers within a
\* cycle (an address that is new to the pool counts as used five minutes ago).  The one
\* exception is that another caller's nextIP sorts another entry under the pointer between
\* the unlock and the read (throttle.go:205, 250-254).
NotTwiceInARow == \A c \in Callers: pc[c] = "cmd" => ip[c] # avoid[c]

\* A caller that is inside run or Download when the stop group closes gets out of it, also when
\* every address is in use or throttled.
InterruptFreesCallers ==
    \A c \in Callers: (stopped /\ pc[c] # "idle") ~> pc[c] = "idle"

---------------------------------------------------------------------------
(* What a comment says, and what the code does not do *)

\* throttle.go:155: SetThrottled "schedules its unban for a future time": when the time is
\* over, it is the address that was throttled then that is not throttled any more.
UnbansItsOwn ==
    [][timers # <<>> /\ timers' = Tail(timers) /\ ~stopped' =>
            throttled' = throttled \ {Head(timers).ip}]_ipVars
===========================================================================
