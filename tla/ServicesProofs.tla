--------------------------- MODULE ServicesProofs ----------------------------
(***************************************************************************)
(* What serves the tasks from outside (MCServices), for every set of       *)
(* events, sockets, commands, tasks, downloads and media calls: the Feishu *)
(* ingress, the worker that receives its events, the phone, the background *)
(* browser and the media generator, each with its own inductive invariant. *)
(*                                                                         *)
(* The ingress.  The argument is about leases.  No two owners share one, a *)
(* current one has an owner that will end it, and whoever works on an      *)
(* event that may still get a task has a lease on it.  So while a task is  *)
(* being launched for an event, no other owner is at work on it, and no    *)
(* task has been committed for it: such an event has no lease any more.    *)
(***************************************************************************)
EXTENDS MCServices, SequenceTheorems, FiniteSetTheorems, TLAPS

-----------------------------------------------------------------------------
(* The inductive invariant.                                                *)

Request == [event : Events, token : 1 .. MaxDeliveries, place : Place,
            files : SUBSET Events, leases : SUBSET AllLeases]
Flush == [place : {"launch", "commit"}, files : SUBSET Events, leases : SUBSET AllLeases]

\* At most Remembered ids, none of them twice.
Memory(ids) == ids \in Seq(Events) /\ Len(ids) <= Remembered /\ IsInjective(ids)

\* The types of the variables.
Typed ==
    /\ requests \subseteq Request
    /\ flushing \subseteq Flush
    /\ pending = None \/ (pending \in Entry /\ pending.files # {})
    /\ leases \in [Events -> (1 .. MaxDeliveries) \cup {None}]
    /\ Memory(seen) /\ Memory(saved)
    /\ closed \in BOOLEAN
    /\ used \in [deliveries : 0 .. MaxDeliveries, faults : Nat]
    /\ tasks \in Seq(SUBSET Events)
    /\ lapsed \subseteq AllLeases
    /\ doubtful \subseteq Events /\ kept \subseteq Events

\* A request that downloads works for its own event; one that announces the files
\* it has handed over works for none.
Placed ==
    \A r \in requests :
        /\ r.place = "download" => r.files = {r.event}
        /\ r.place = "notify" => r.leases = {}

\* Who works on events that may become part of a task.
Working == {r \in requests : r.place # "notify"} \cup flushing
Waits == IF pending = None THEN {} ELSE {pending}

\* The leases an owner names were drawn for earlier deliveries.
Drawn == \A o \in Owners : \A l \in o.leases : l.token <= used.deliveries

\* No two owners name the same lease.
Apart ==
    /\ \A r, s \in requests : r # s => r.leases \cap s.leases = {}
    /\ \A f, g \in flushing : f # g => f.leases \cap g.leases = {}
    /\ \A r \in requests, f \in flushing : r.leases \cap f.leases = {}
    /\ \A o \in requests \cup flushing, p \in Waits : o.leases \cap p.leases = {}

\* An owner's lease is current, or has lapsed.
Valid == \A o \in Owners : \A l \in o.leases : Owns(l) \/ l \in lapsed

\* Until the queue is closed a current lease has an owner.
HasOwner == ~closed => \A e \in Events : leases[e] # None =>
    \E o \in Owners : Lease(e, leases[e]) \in o.leases

\* Whoever works on an event has a lease on it.
Covered ==
    \A o \in Working \cup Waits : \A e \in o.files : \E l \in o.leases : l.event = e

\* What the histories know: a lapsed lease makes its event doubtful, a committed
\* event has no lease, and the table of leases keeps to its limit.
Remembering ==
    /\ \A l \in lapsed : l.event \in doubtful
    /\ \A e \in ToSet(seen) : leases[e] = None
    /\ Cardinality({d \in Events : leases[d] # None}) <= MaxLeases

\* The task of an event was committed, or its owner is about to commit it.
Answered ==
    \A e \in Events \ doubtful : \A i \in DOMAIN tasks : e \in tasks[i] =>
        e \in ToSet(seen) \/ \E o \in Working : o.place = "commit" /\ e \in o.files

\* No event that can be relied on is in two tasks.
Once == \A e \in Events \ doubtful : \A i, j \in DOMAIN tasks :
    e \in tasks[i] /\ e \in tasks[j] => i = j

\* An owner commits what has a task.
Launched == \A o \in Working : o.place = "commit" =>
    \A e \in o.files : \E i \in DOMAIN tasks : e \in tasks[i]

\* An accepted event is with somebody who got past its download, or has its task.
Safe(e) ==
    \/ \E p \in Waits : e \in p.files
    \/ \E o \in Working : o.place # "download" /\ e \in o.files
    \/ \E i \in DOMAIN tasks : e \in tasks[i]
Kept == \A e \in kept : Safe(e)

Leasing == Placed /\ Drawn /\ Apart /\ Valid /\ HasOwner /\ Covered
Tasking == Answered /\ Once /\ Launched /\ Kept

IInv == Typed /\ Leasing /\ Remembering /\ Tasking

-----------------------------------------------------------------------------
(* The committed ids: a deque of bounded length.                           *)

\* SetToSeq lists the members of a finite set, each of them once.
LEMMA Listing ==
    ASSUME NEW S, IsFiniteSet(S)
    PROVE  /\ SetToSeq(S) \in Seq(S) /\ Len(SetToSeq(S)) = Cardinality(S)
           /\ IsInjective(SetToSeq(S)) /\ ToSet(SetToSeq(S)) = S
           /\ Cardinality(S) \in Nat
<1> DEFINE n == Cardinality(S)
<1>1. n \in Nat /\ ExistsBijection(1 .. n, S)
  BY FS_CardinalityType
<1>2. PICK f \in [1 .. n -> S] : IsInjective(f)
  BY <1>1 DEF ExistsBijection, Bijection, Injection
<1>3. SetToSeq(S) \in [1 .. n -> S] /\ IsInjective(SetToSeq(S))
  BY <1>2, Zenon DEF SetToSeq
<1>4. SetToSeq(S) \in Seq(S) /\ Len(SetToSeq(S)) = n
  BY <1>1, <1>3
<1>5. SetToSeq(S) \in Injection(1 .. n, S)
  BY <1>3 DEF Injection
<1>6. SetToSeq(S) \in Surjection(1 .. n, S)
  BY <1>1, <1>5, FS_Injection, FS_Interval
<1>7. ToSet(SetToSeq(S)) = S
  BY <1>3, <1>6 DEF ToSet, Surjection
<1> QED
  BY <1>1, <1>3, <1>4, <1>7

\* What a full deque keeps: the last ids, in their order.
LEMMA Deque ==
    ASSUME NEW ids \in Seq(Events), IsInjective(ids)
    PROVE  /\ Memory(Latest(ids))
           /\ ToSet(Latest(ids)) \subseteq ToSet(ids)
           /\ \A i \in 1 .. Len(ids) : i > Len(ids) - Remembered => ids[i] \in ToSet(Latest(ids))
<1>1. Remembered \in Nat \ {0} /\ Len(ids) \in Nat /\ DOMAIN ids = 1 .. Len(ids)
  BY IngressAssumption
<1>2. CASE Len(ids) <= Remembered
  <2>1. Latest(ids) = ids
    BY <1>1, <1>2 DEF Latest
  <2> QED
    BY <1>1, <1>2, <2>1 DEF Memory, ToSet
<1>3. CASE Len(ids) > Remembered
  <2> DEFINE k == Len(ids) - Remembered
             late == Latest(ids)
  <2>1. k \in Nat /\ late = SubSeq(ids, k + 1, Len(ids))
    BY <1>1, <1>3 DEF Latest
  <2>2. late \in Seq(Events) /\ Len(late) = Remembered /\ DOMAIN late = 1 .. Remembered
    BY <1>1, <1>3, <2>1
  <2>3. \A i \in 1 .. Remembered : late[i] = ids[k + i] /\ k + i \in 1 .. Len(ids)
    BY <1>1, <1>3, <2>1
  <2>4. IsInjective(late)
    <3> SUFFICES ASSUME NEW a \in DOMAIN late, NEW b \in DOMAIN late, late[a] = late[b]
                 PROVE  a = b
      BY DEF IsInjective
    <3>1. k + a = k + b
      BY <1>1, <2>2, <2>3 DEF IsInjective
    <3> QED
      BY <1>1, <2>1, <2>2, <3>1
  <2>5. ToSet(late) \subseteq ToSet(ids)
    <3> SUFFICES ASSUME NEW i \in DOMAIN late  PROVE late[i] \in ToSet(ids)
      BY DEF ToSet
    <3> QED
      BY <1>1, <2>2, <2>3 DEF ToSet
  <2>6. ASSUME NEW i \in 1 .. Len(ids), i > k  PROVE ids[i] \in ToSet(late)
    <3>1. i - k \in 1 .. Remembered /\ k + (i - k) = i
      BY <1>1, <2>1, <2>6
    <3> QED
      BY <2>2, <2>3, <3>1 DEF ToSet
  <2> QED
    BY <1>1, <2>2, <2>4, <2>5, <2>6 DEF Memory
<1> QED
  BY <1>1, <1>2, <1>3

\* What a commit adds is never dropped by the same commit: there are no more
\* reservations than remembered ids.
LEMMA Remembers ==
    ASSUME Memory(seen), NEW S \in SUBSET Events, S \cap ToSet(seen) = {},
           Cardinality(S) <= Remembered
    PROVE  LET ids == Latest(seen \o SetToSeq(S))
           IN  Memory(ids) /\ S \subseteq ToSet(ids) /\ ToSet(ids) \subseteq ToSet(seen) \cup S
<1> DEFINE new == SetToSeq(S)
           all == seen \o new
<1>1. IsFiniteSet(S)
  BY IngressAssumption, FS_Subset
<1>2. new \in Seq(Events) /\ IsInjective(new) /\ ToSet(new) = S /\ Len(new) <= Remembered
  BY <1>1, Listing
<1>3. seen \in Seq(Events) /\ IsInjective(seen) /\ Len(seen) \in Nat /\ Len(new) \in Nat /\ Remembered \in Nat
  BY <1>2, IngressAssumption DEF Memory
<1>4. /\ all \in Seq(Events) /\ Len(all) = Len(seen) + Len(new) /\ DOMAIN all = 1 .. Len(all)
      /\ \A i \in 1 .. Len(seen) : all[i] = seen[i] /\ all[i] \in ToSet(seen)
      /\ \A i \in 1 .. Len(new) : all[Len(seen) + i] = new[i] /\ new[i] \in S
  BY <1>2, <1>3 DEF ToSet
<1>5. \A i \in DOMAIN all : \/ i \in 1 .. Len(seen)
                            \/ \E j \in 1 .. Len(new) : i = Len(seen) + j
  <2> SUFFICES ASSUME NEW i \in DOMAIN all, i \notin 1 .. Len(seen)
               PROVE  \E j \in 1 .. Len(new) : i = Len(seen) + j
    OBVIOUS
  <2>1. i - Len(seen) \in 1 .. Len(new) /\ i = Len(seen) + (i - Len(seen))
    BY <1>3, <1>4
  <2> QED
    BY <2>1
<1>6. IsInjective(all)
  <2>1. \A i, j \in 1 .. Len(seen) : seen[i] = seen[j] => i = j
    BY <1>3 DEF IsInjective
  <2>2. \A i, j \in 1 .. Len(new) : new[i] = new[j] => i = j
    BY <1>2 DEF IsInjective
  <2>3. ASSUME NEW a \in DOMAIN all, NEW b \in DOMAIN all, all[a] = all[b]  PROVE a = b
    BY <1>4, <1>5, <2>1, <2>2, <2>3
  <2> QED
    BY <2>3 DEF IsInjective
<1>7. ToSet(all) \subseteq ToSet(seen) \cup S
  BY <1>4, <1>5 DEF ToSet
<1>8. S \subseteq ToSet(Latest(all))
  <2> SUFFICES ASSUME NEW e \in S  PROVE e \in ToSet(Latest(all))
    OBVIOUS
  <2>1. PICK j \in 1 .. Len(new) : new[j] = e
    BY <1>2 DEF ToSet
  <2>2. all[Len(seen) + j] = e /\ Len(seen) + j \in 1 .. Len(all) /\ Len(seen) + j > Len(all) - Remembered
    BY <1>2, <1>3, <1>4, <2>1
  <2> QED
    BY <1>4, <1>6, <2>2, Deque
<1> QED
  BY <1>4, <1>6, <1>7, <1>8, Deque

-----------------------------------------------------------------------------
(* The leases.                                                             *)

\* The current ones among ls end, and no others.
Ends(ls) ==
    /\ leases' \in [Events -> (1 .. MaxDeliveries) \cup {None}]
    /\ \A l \in ls : Owns(l) => leases'[l.event] = None
    /\ \A e \in Events : leases'[e] # leases[e] => leases'[e] = None /\ Lease(e, leases[e]) \in ls

\* A lease is its event and its token, so an owned one is the current one.
LEMMA Current ==
    ASSUME NEW l \in AllLeases, Owns(l)
    PROVE  l = Lease(l.event, leases[l.event]) /\ l.event \in Events /\ leases[l.event] # None
BY NoneAssumption DEF Owns, Lease, AllLeases

\* A roll-back ends what the caller still owns.
LEMMA ReleasedEnds ==
    ASSUME Typed, NEW ls \in SUBSET AllLeases, leases' = Released(ls)
    PROVE  Ends(ls)
<1>1. leases' \in [Events -> (1 .. MaxDeliveries) \cup {None}]
  BY DEF Typed, Released
<1>2. \A l \in ls : Owns(l) => leases'[l.event] = None
  BY DEF Released, AllLeases
<1>3. ASSUME NEW e \in Events, leases'[e] # leases[e]
      PROVE  leases'[e] = None /\ Lease(e, leases[e]) \in ls
  <2>1. PICK l \in ls : l.event = e /\ Owns(l)
    BY <1>3 DEF Released
  <2> QED
    BY <1>3, <2>1, Current DEF Released
<1> QED
  BY <1>1, <1>2, <1>3 DEF Ends

\* A commit ends what the task stands for: by then all of it is owned or committed.
LEMMA CommitEnds ==
    ASSUME Typed, NEW ls \in SUBSET AllLeases, Committable(ls), Commit(ls)
    PROVE  Ends(ls)
<1>1. leases' = [e \in Events |-> IF \E l \in ls : l.event = e THEN None ELSE leases[e]]
  BY DEF Commit
<1>2. leases' \in [Events -> (1 .. MaxDeliveries) \cup {None}]
  BY <1>1 DEF Typed
<1>3. \A l \in ls : Owns(l) => leases'[l.event] = None
  BY <1>1 DEF AllLeases
<1>4. ASSUME NEW e \in Events, leases'[e] # leases[e]
      PROVE  leases'[e] = None /\ Lease(e, leases[e]) \in ls
  <2>1. PICK l \in ls : l.event = e
    BY <1>1, <1>4
  <2>2. leases'[e] = None
    BY <1>1, <2>1
  <2>3. Owns(l)
    BY <1>4, <2>1, <2>2 DEF Committable
  <2> QED
    BY <2>1, <2>2, <2>3, Current
<1> QED
  BY <1>2, <1>3, <1>4 DEF Ends

\* What ends leaves room in the table.
LEMMA Shrinks ==
    ASSUME Cardinality({d \in Events : leases[d] # None}) <= MaxLeases,
           \A e \in Events : leases'[e] # None => leases[e] # None
    PROVE  Cardinality({d \in Events : leases'[d] # None}) <= MaxLeases
<1> DEFINE old == {d \in Events : leases[d] # None}
           new == {d \in Events : leases'[d] # None}
<1>1. new \in SUBSET old
  OBVIOUS
<1>2. IsFiniteSet(old)
  <2>1. old \in SUBSET Events
    OBVIOUS
  <2> QED
    BY <2>1, IngressAssumption, FS_Subset
<1>3. Cardinality(new) <= Cardinality(old) /\ IsFiniteSet(new)
  BY <1>1, <1>2, FS_Subset
<1>4. Cardinality(new) \in Nat /\ Cardinality(old) \in Nat /\ MaxLeases \in Nat
  BY <1>2, <1>3, FS_CardinalityType, IngressAssumption
<1> HIDE DEF old, new
<1>5. Cardinality(old) <= MaxLeases
  BY DEF old
<1>6. Cardinality(new) <= MaxLeases
  BY <1>3, <1>4, <1>5
<1> QED
  BY <1>6 DEF new

\* A commit makes every event of its task a committed one, or the bound on
\* remembered ids makes it doubtful.
LEMMA CommitRemembers ==
    ASSUME Typed, Remembering, NEW ls \in SUBSET AllLeases, Committable(ls), Commit(ls)
    PROVE  /\ Memory(seen') /\ Memory(saved')
           /\ \A l \in ls : l.event \in ToSet(seen') \cup doubtful'
           /\ ToSet(seen) \subseteq ToSet(seen') \cup doubtful'
           /\ ToSet(seen') \subseteq ToSet(seen) \cup {l.event : l \in ls}
           /\ doubtful \subseteq doubtful' /\ doubtful' \subseteq Events
<1> DEFINE S == Newly(ls)
<1>1. S \in SUBSET Events /\ S \cap ToSet(seen) = {} /\ S \subseteq {l.event : l \in ls}
  BY DEF Newly, AllLeases
<1>2. S \in SUBSET {d \in Events : leases[d] # None}
  <2> SUFFICES ASSUME NEW e \in S  PROVE e \in Events /\ leases[e] # None
    OBVIOUS
  <2>1. PICK l \in ls : l.event = e /\ e \notin ToSet(seen)
    BY DEF Newly
  <2> QED
    BY <2>1, Current DEF Committable
<1>3. Cardinality(S) <= Remembered
  <2> DEFINE old == {d \in Events : leases[d] # None}
  <2>1. old \in SUBSET Events
    OBVIOUS
  <2>2. IsFiniteSet(old)
    BY <2>1, IngressAssumption, FS_Subset
  <2>3. Cardinality(S) <= Cardinality(old) /\ IsFiniteSet(S)
    BY <1>2, <2>2, FS_Subset
  <2>4. Cardinality(old) <= MaxLeases
    BY DEF Remembering
  <2>5. Cardinality(S) \in Nat /\ Cardinality(old) \in Nat
    BY <2>2, <2>3, FS_CardinalityType
  <2> HIDE DEF old, S
  <2> QED
    BY <2>3, <2>4, <2>5, IngressAssumption
<1>4. seen' = Latest(seen \o SetToSeq(S)) /\ (saved' = saved \/ saved' = seen')
      /\ doubtful' = doubtful \cup (ToSet(seen) \ ToSet(seen'))
  BY DEF Commit
<1>5. Memory(seen) /\ Memory(saved) /\ doubtful \subseteq Events
  BY DEF Typed
<1> HIDE DEF S
<1>6. Memory(seen') /\ S \subseteq ToSet(seen') /\ ToSet(seen') \subseteq ToSet(seen) \cup S
  BY <1>1, <1>3, <1>4, <1>5, Remembers
<1>7. ToSet(seen) \subseteq Events
  BY <1>5 DEF Memory, ToSet
<1>8. \A l \in ls : l.event \in S \/ l.event \in ToSet(seen)
  BY DEF S, Newly
<1>9. Memory(saved')
  BY <1>4, <1>5, <1>6
<1> QED
  BY <1>1, <1>4, <1>5, <1>6, <1>7, <1>8, <1>9

-----------------------------------------------------------------------------
(* Owners that end, and owners that pass on what they hold.                *)

\* While the leases of one owner end, those of another stay as they are.
LEMMA OthersStay ==
    ASSUME Typed, NEW ls \in SUBSET AllLeases, Ends(ls), NEW l \in AllLeases, l \notin ls, Owns(l)
    PROVE  Owns(l)'
<1>1. l = Lease(l.event, leases[l.event]) /\ l.event \in Events
  BY Current
<1> QED
  BY <1>1 DEF Ends, Owns

\* A lease that is current afterwards is the one that was, and none of those that end.
LEMMA StillCurrent ==
    ASSUME Typed, NEW ls \in SUBSET AllLeases, Ends(ls), NEW e \in Events, leases'[e] # None
    PROVE  /\ leases[e] # None /\ leases'[e] = leases[e]
           /\ Lease(e, leases[e]) \in AllLeases /\ Lease(e, leases[e]) \notin ls
<1>1. leases'[e] = leases[e] /\ leases[e] \in Nat
  BY IngressAssumption DEF Ends, Typed
<1>2. Lease(e, leases[e]) \in AllLeases /\ Lease(e, leases[e]).event = e /\ Lease(e, leases[e]).token = leases[e]
  BY <1>1 DEF Lease, AllLeases
<1> QED
  BY <1>1, <1>2 DEF Ends, Owns

\* What an owner names are leases.
LEMMA OwnerTypes ==
    ASSUME Typed, NEW o \in Owners
    PROVE  o.leases \in SUBSET AllLeases /\ o.files \in SUBSET Events
BY DEF Typed, Owners, Request, Flush, Entry

\* A delivery that ends takes its own leases along and leaves the others alone.
LEMMA RequestEnds ==
    ASSUME Typed, Leasing, NEW r \in requests, requests' = requests \ {r}, Ends(r.leases),
           UNCHANGED <<flushing, pending, closed, lapsed, used>>
    PROVE  Leasing'
<1>1. Owners' \subseteq Owners /\ r \in Owners /\ r.leases \in SUBSET AllLeases
  BY DEF Owners, Typed, Request
<1>2. \A o \in Owners' : o.leases \cap r.leases = {}
  <2>1. \A o \in requests' : o.leases \cap r.leases = {}
    BY DEF Leasing, Apart
  <2>2. \A o \in flushing \cup Waits : o.leases \cap r.leases = {}
    BY DEF Leasing, Apart
  <2> QED
    BY <2>1, <2>2 DEF Owners, Waits
<1>3. Placed'
  BY DEF Leasing, Placed
<1>4. Drawn'
  BY <1>1 DEF Leasing, Drawn
<1>5. Apart'
  BY DEF Leasing, Apart, Waits
<1>6. Valid'
  <2> SUFFICES ASSUME NEW o \in Owners', NEW l \in o.leases  PROVE Owns(l)' \/ l \in lapsed'
    BY DEF Valid
  <2>1. o \in Owners /\ l \in AllLeases /\ l \notin r.leases
    BY <1>1, <1>2, OwnerTypes
  <2> QED
    BY <1>1, <2>1, OthersStay DEF Leasing, Valid
<1>7. HasOwner'
  <2> SUFFICES ASSUME ~closed, NEW e \in Events, leases'[e] # None
               PROVE  \E o \in Owners' : Lease(e, leases'[e]) \in o.leases
    BY DEF HasOwner, Lease
  <2>1. leases[e] # None /\ leases'[e] = leases[e] /\ Lease(e, leases[e]) \notin r.leases
    BY <1>1, StillCurrent
  <2>2. PICK o \in Owners : Lease(e, leases[e]) \in o.leases
    BY <2>1 DEF Leasing, HasOwner
  <2> QED
    BY <2>1, <2>2 DEF Owners
<1>8. Covered'
  BY DEF Leasing, Covered, Working, Waits
<1> QED
  BY <1>3, <1>4, <1>5, <1>6, <1>7, <1>8 DEF Leasing

\* So does a flush.
LEMMA FlushEnds ==
    ASSUME Typed, Leasing, NEW f \in flushing, flushing' = flushing \ {f}, Ends(f.leases),
           UNCHANGED <<requests, pending, closed, lapsed, used>>
    PROVE  Leasing'
<1>1. Owners' \subseteq Owners /\ f \in Owners /\ f.leases \in SUBSET AllLeases
  BY DEF Owners, Typed, Flush
<1>2. \A o \in Owners' : o.leases \cap f.leases = {}
  <2>1. \A o \in flushing' : o.leases \cap f.leases = {}
    BY DEF Leasing, Apart
  <2>2. \A o \in requests \cup Waits : o.leases \cap f.leases = {}
    BY DEF Leasing, Apart
  <2> QED
    BY <2>1, <2>2 DEF Owners, Waits
<1>3. Placed'
  BY DEF Leasing, Placed
<1>4. Drawn'
  BY <1>1 DEF Leasing, Drawn
<1>5. Apart'
  BY DEF Leasing, Apart, Waits
<1>6. Valid'
  <2> SUFFICES ASSUME NEW o \in Owners', NEW l \in o.leases  PROVE Owns(l)' \/ l \in lapsed'
    BY DEF Valid
  <2>1. o \in Owners /\ l \in AllLeases /\ l \notin f.leases
    BY <1>1, <1>2, OwnerTypes
  <2> QED
    BY <1>1, <2>1, OthersStay DEF Leasing, Valid
<1>7. HasOwner'
  <2> SUFFICES ASSUME ~closed, NEW e \in Events, leases'[e] # None
               PROVE  \E o \in Owners' : Lease(e, leases'[e]) \in o.leases
    BY DEF HasOwner, Lease
  <2>1. leases[e] # None /\ leases'[e] = leases[e] /\ Lease(e, leases[e]) \notin f.leases
    BY <1>1, StillCurrent
  <2>2. PICK o \in Owners : Lease(e, leases[e]) \in o.leases
    BY <2>1 DEF Leasing, HasOwner
  <2> QED
    BY <2>1, <2>2 DEF Owners
<1>8. Covered'
  BY DEF Leasing, Covered, Working, Waits
<1> QED
  BY <1>3, <1>4, <1>5, <1>6, <1>7, <1>8 DEF Leasing

\* A delivery that goes on to its next place keeps its leases.
LEMMA RequestMoves ==
    ASSUME Typed, Leasing, NEW r \in requests, NEW s \in Request, requests' = (requests \ {r}) \cup {s},
           s.leases = r.leases, s.files = r.files, r.place # "notify", s.place \notin {"download", "notify"},
           UNCHANGED <<leases, flushing, pending, closed, lapsed, used>>
    PROVE  Leasing'
<1>1. \A o \in Owners' : o = s \/ o \in Owners
  BY DEF Owners
<1>2. Placed'
  BY DEF Leasing, Placed
<1>3. Drawn'
  BY <1>1 DEF Leasing, Drawn, Owners
<1>4. Apart'
  BY DEF Leasing, Apart, Waits
<1>5. Valid'
  BY <1>1 DEF Leasing, Valid, Owners, Owns
<1>6. HasOwner'
  BY DEF Leasing, HasOwner, Owners, Lease
<1>7. Covered'
  <2>1. \A o \in Working' \cup Waits' : o = s \/ o \in Working \cup Waits
    BY DEF Working, Waits
  <2>2. r \in Working
    BY DEF Working
  <2> QED
    BY <2>1, <2>2 DEF Leasing, Covered
<1> QED
  BY <1>2, <1>3, <1>4, <1>5, <1>6, <1>7 DEF Leasing

\* So does a flush.
LEMMA FlushMoves ==
    ASSUME Typed, Leasing, NEW f \in flushing, NEW g \in Flush, flushing' = (flushing \ {f}) \cup {g},
           g.leases = f.leases, g.files = f.files,
           UNCHANGED <<leases, requests, pending, closed, lapsed, used>>
    PROVE  Leasing'
<1>1. \A o \in Owners' : o = g \/ o \in Owners
  BY DEF Owners
<1>2. Placed'
  BY DEF Leasing, Placed
<1>3. Drawn'
  BY <1>1 DEF Leasing, Drawn, Owners
<1>4. Apart'
  BY DEF Leasing, Apart, Waits
<1>5. Valid'
  BY <1>1 DEF Leasing, Valid, Owners, Owns
<1>6. HasOwner'
  BY DEF Leasing, HasOwner, Owners, Lease
<1>7. Covered'
  <2>1. \A o \in Working' \cup Waits' : o = g \/ o \in Working \cup Waits
    BY DEF Working, Waits
  <2>2. f \in Working
    BY DEF Working
  <2> QED
    BY <2>1, <2>2 DEF Leasing, Covered
<1> QED
  BY <1>2, <1>3, <1>4, <1>5, <1>6, <1>7 DEF Leasing

-----------------------------------------------------------------------------
(* Tasks.                                                                  *)

\* An event somebody is at work on has no task yet, unless it is doubtful: the
\* worker has its lease, and so has whoever is about to commit a task of it.
LEMMA NoTaskYet ==
    ASSUME Typed, Leasing, Remembering, Answered, NEW o \in Working, o.place # "commit",
           NEW e \in o.files, e \notin doubtful, NEW i \in DOMAIN tasks
    PROVE  e \notin tasks[i]
<1>1. \A w \in Working : w \in Owners /\ w.leases \in SUBSET AllLeases /\ w.files \in SUBSET Events
  BY OwnerTypes DEF Owners, Working
<1>2. ASSUME NEW w \in Working, e \in w.files
      PROVE  \E l \in w.leases : l = Lease(e, leases[e]) /\ leases[e] # None
  <2>1. PICK l \in w.leases : l.event = e
    BY <1>2 DEF Leasing, Covered
  <2>2. Owns(l) /\ l \in AllLeases
    BY <1>1, <2>1 DEF Leasing, Valid, Remembering
  <2> QED
    BY <2>1, <2>2, Current
<1>3. Lease(e, leases[e]) \in o.leases /\ leases[e] # None
  BY <1>2
<1>4. e \notin ToSet(seen) /\ e \in Events
  BY <1>1, <1>3 DEF Remembering
<1>5. ASSUME e \in tasks[i]  PROVE FALSE
  <2>1. PICK c \in Working : c.place = "commit" /\ e \in c.files
    BY <1>4, <1>5 DEF Answered
  <2>2. Lease(e, leases[e]) \in c.leases /\ c # o
    BY <1>2, <2>1
  <2> QED
    BY <1>3, <2>2 DEF Leasing, Apart, Working
<1> QED
  BY <1>5

\* A launch: its owner is now the one that commits.
LEMMA TaskCreated ==
    ASSUME Typed, Leasing, Remembering, Tasking, NEW o \in Working, o.place # "commit",
           NEW c, c.place = "commit", c.files = o.files,
           (Working \ {o}) \cup {c} \subseteq Working', Working' \subseteq Working \cup {c},
           Waits' = Waits, tasks' = Append(tasks, o.files), UNCHANGED <<seen, doubtful, kept>>
    PROVE  Tasking'
<1>1. o.files \in SUBSET Events /\ o \in Owners
  BY OwnerTypes DEF Owners, Working
<1>2. /\ tasks \in Seq(SUBSET Events) /\ Len(tasks) \in Nat
      /\ DOMAIN tasks = 1 .. Len(tasks) /\ DOMAIN tasks' = 1 .. Len(tasks) + 1
      /\ \A i \in DOMAIN tasks : i \in DOMAIN tasks' /\ tasks'[i] = tasks[i]
      /\ Len(tasks) + 1 \in DOMAIN tasks' /\ tasks'[Len(tasks) + 1] = o.files
      /\ \A i \in DOMAIN tasks' : i \in DOMAIN tasks \/ i = Len(tasks) + 1
  BY <1>1 DEF Typed
<1>3. Answered'
  <2> SUFFICES ASSUME NEW e \in Events \ doubtful, NEW i \in DOMAIN tasks', e \in tasks'[i]
               PROVE  e \in ToSet(seen) \/ \E w \in Working' : w.place = "commit" /\ e \in w.files
    BY DEF Answered
  <2>1. CASE i \in DOMAIN tasks
    BY <1>2, <2>1 DEF Tasking, Answered
  <2>2. CASE i = Len(tasks) + 1
    BY <1>2, <2>2
  <2> QED
    BY <1>2, <2>1, <2>2
<1>4. Once'
  <2>1. \A e \in Events \ doubtful : \A i, j \in DOMAIN tasks : e \in tasks[i] /\ e \in tasks[j] => i = j
    BY DEF Tasking, Once
  <2>2. \A e \in Events \ doubtful : e \in o.files => \A i \in DOMAIN tasks : e \notin tasks[i]
    BY NoTaskYet DEF Tasking
  <2> QED
    BY <1>2, <2>1, <2>2 DEF Once
<1>5. Launched'
  <2> SUFFICES ASSUME NEW w \in Working', w.place = "commit", NEW e \in w.files
               PROVE  \E i \in DOMAIN tasks' : e \in tasks'[i]
    BY DEF Launched
  <2> QED
    BY <1>2 DEF Tasking, Launched
<1>6. Kept'
  <2> SUFFICES ASSUME NEW e \in kept  PROVE Safe(e)'
    BY DEF Kept
  <2>1. Safe(e)
    BY DEF Tasking, Kept
  <2>2. CASE \E i \in DOMAIN tasks : e \in tasks[i]
    BY <1>2, <2>2 DEF Safe
  <2>3. CASE \E p \in Waits : e \in p.files
    BY <2>3 DEF Safe
  <2>4. CASE \E w \in Working : w.place # "download" /\ e \in w.files
    <3>1. PICK w \in Working : w.place # "download" /\ e \in w.files
      BY <2>4
    <3>2. \E v \in Working' : v.place # "download" /\ e \in v.files
      BY <3>1
    <3> QED
      BY <3>2 DEF Safe
  <2> QED
    BY <2>1, <2>2, <2>3, <2>4 DEF Safe
<1> QED
  BY <1>3, <1>4, <1>5, <1>6 DEF Tasking

\* As long as nobody starts or stops committing, the tasks are as before.
LEMMA TasksStay ==
    ASSUME Tasking, UNCHANGED <<seen, tasks>>, doubtful \subseteq doubtful',
           \A w : w.place = "commit" => (w \in Working' <=> w \in Working)
    PROVE  Answered' /\ Once' /\ Launched'
<1>1. Answered'
  BY DEF Tasking, Answered
<1>2. Once'
  BY DEF Tasking, Once
<1>3. Launched'
  BY DEF Tasking, Launched
<1> QED
  BY <1>1, <1>2, <1>3

\* An owner that gives up: what it had accepted is no longer kept.
LEMMA TaskRefused ==
    ASSUME Tasking, NEW o \in Working, o.place # "commit",
           Working \ {o} \subseteq Working', Working' \subseteq Working, Waits' = Waits,
           \/ kept' = kept \ o.files
           \/ kept' = kept /\ o.place = "download",
           UNCHANGED <<seen, tasks, doubtful>>
    PROVE  Tasking'
<1>1. Answered' /\ Once' /\ Launched'
  BY TasksStay
<1>2. Kept'
  <2> SUFFICES ASSUME NEW e \in kept'  PROVE Safe(e)'
    BY DEF Kept
  <2>1. Safe(e) /\ (e \in o.files => o.place = "download")
    BY DEF Tasking, Kept
  <2> QED
    BY <2>1 DEF Safe
<1> QED
  BY <1>1, <1>2 DEF Tasking

\* An owner that has committed, or could not: its events are remembered or doubtful.
LEMMA TaskSettled ==
    ASSUME Tasking, NEW o \in Working, o.place = "commit",
           Working \ {o} \subseteq Working', Working' \subseteq Working, Waits' = Waits,
           \A e \in o.files : e \in ToSet(seen') \cup doubtful',
           ToSet(seen) \subseteq ToSet(seen') \cup doubtful', doubtful \subseteq doubtful',
           kept' \subseteq kept \cup o.files, UNCHANGED tasks
    PROVE  Tasking'
<1>1. Answered'
  <2> SUFFICES ASSUME NEW e \in Events \ doubtful', NEW i \in DOMAIN tasks, e \in tasks[i]
               PROVE  e \in ToSet(seen') \/ \E w \in Working' : w.place = "commit" /\ e \in w.files
    BY DEF Answered, ToSet
  <2>1. e \in ToSet(seen) \/ \E w \in Working : w.place = "commit" /\ e \in w.files
    BY DEF Tasking, Answered
  <2> QED
    BY <2>1
<1>2. Once'
  BY DEF Tasking, Once
<1>3. Launched'
  BY DEF Tasking, Launched
<1>4. Kept'
  <2> SUFFICES ASSUME NEW e \in kept'  PROVE Safe(e)'
    BY DEF Kept
  <2>1. \A d \in o.files : \E i \in DOMAIN tasks : d \in tasks[i]
    BY DEF Tasking, Launched
  <2>2. Safe(e) \/ e \in o.files
    BY DEF Tasking, Kept
  <2> QED
    BY <2>1, <2>2 DEF Safe
<1> QED
  BY <1>1, <1>2, <1>3, <1>4 DEF Tasking

-----------------------------------------------------------------------------
(* The steps of a delivery.                                                *)

\* The place, leases and files of an owner, as its own facts.
LEMMA RequestTypes ==
    ASSUME Typed, NEW r \in requests
    PROVE  /\ r \in Request /\ r.leases \in SUBSET AllLeases /\ r.files \in SUBSET Events
           /\ r \in Owners /\ (r.place # "notify" => r \in Working)
           /\ r.event \in Events
BY DEF Typed, Request, Owners, Working

\* What a flush in progress is made of.
LEMMA FlushTypes ==
    ASSUME Typed, NEW f \in flushing
    PROVE  /\ f \in Flush /\ f.leases \in SUBSET AllLeases /\ f.files \in SUBSET Events
           /\ f \in Owners /\ f \in Working
BY DEF Typed, Flush, Owners, Working

\* A download that fails.
LEMMA DownloadFailsStep ==
    ASSUME IInv, NEW r \in requests, DownloadFails(r)  PROVE IInv'
<1>1. /\ r.place = "download" /\ leases' = Released(r.leases) /\ requests' = requests \ {r}
      /\ UNCHANGED <<seen, pending, flushing, closed, saved, used, tasks, doubtful, kept, lapsed>>
  BY DEF DownloadFails
<1>2. Typed /\ Leasing /\ Remembering /\ Tasking
  BY DEF IInv
<1>3. Ends(r.leases) /\ r \in Working
  BY <1>1, <1>2, RequestTypes, ReleasedEnds
<1>4. Typed'
  BY <1>1, <1>2, <1>3 DEF Typed, Memory, Ends
<1>5. Leasing'
  BY <1>1, <1>2, <1>3, RequestEnds
<1>6. \A e \in Events : leases'[e] # None => leases[e] # None
  BY <1>3 DEF Ends
<1>7. Remembering'
  BY <1>1, <1>2, <1>6, Shrinks DEF Remembering, ToSet, Typed, Memory
<1>8. Tasking'
  <2>1. Working \ {r} \subseteq Working' /\ Working' \subseteq Working /\ Waits' = Waits
    BY <1>1 DEF Working, Waits
  <2> QED
    BY <1>1, <1>2, <1>3, <2>1, TaskRefused
<1> QED
  BY <1>4, <1>5, <1>7, <1>8 DEF IInv

\* The announcement was sent.
LEMMA NotifiedStep ==
    ASSUME IInv, NEW r \in requests, Notified(r)  PROVE IInv'
<1>1. /\ r.place = "notify" /\ requests' = requests \ {r}
      /\ UNCHANGED <<leases, seen, pending, flushing, closed, saved, used, tasks, doubtful, kept, lapsed>>
  BY DEF Notified
<1>2. Typed /\ Leasing /\ Remembering /\ Tasking
  BY DEF IInv
<1>3. r.leases = {}
  BY <1>1, <1>2 DEF Leasing, Placed
<1>4. Typed'
  BY <1>1, <1>2 DEF Typed, Memory
<1>5. Ends(r.leases)
  BY <1>1, <1>2, <1>3 DEF Ends, Typed
<1>6. Leasing'
  BY <1>1, <1>2, <1>5, RequestEnds
<1>7. Remembering'
  BY <1>1, <1>2 DEF Remembering
<1>8. Tasking'
  <2>1. Working' = Working /\ Waits' = Waits
    BY <1>1 DEF Working, Waits
  <2>2. Answered' /\ Once' /\ Launched'
    BY <1>1, <1>2, <2>1, TasksStay
  <2>3. Kept'
    BY <1>1, <1>2, <2>1 DEF Tasking, Kept, Safe
  <2> QED
    BY <2>2, <2>3 DEF Tasking
<1> QED
  BY <1>4, <1>6, <1>7, <1>8 DEF IInv

\* The task is created, or refused and the event may be sent again.
LEMMA LaunchStep ==
    ASSUME IInv, NEW r \in requests, Launch(r)  PROVE IInv'
<1>1. /\ r.place = "launch"
      /\ UNCHANGED <<seen, pending, flushing, closed, saved, used, doubtful, lapsed>>
  BY DEF Launch
<1>2. Typed /\ Leasing /\ Remembering /\ Tasking
  BY DEF IInv
<1>3. r \in Request /\ r \in Working /\ r.leases \in SUBSET AllLeases /\ r.files \in SUBSET Events
  BY <1>1, <1>2, RequestTypes
<1>4. Waits' = Waits
  BY <1>1 DEF Waits
<1>5. CASE /\ tasks' = Append(tasks, r.files)
           /\ requests' = (requests \ {r}) \cup {[r EXCEPT !.place = "commit"]}
           /\ UNCHANGED <<leases, kept>>
  <2> DEFINE c == [r EXCEPT !.place = "commit"]
  <2>1. c \in Request /\ c.place = "commit" /\ c.files = r.files /\ c.leases = r.leases
    BY <1>3 DEF Request, Place
  <2> HIDE DEF c
  <2>2. requests' = (requests \ {r}) \cup {c}
    BY <1>5 DEF c
  <2>3. Typed'
    <3>1. tasks' \in Seq(SUBSET Events)
      BY <1>2, <1>3, <1>5 DEF Typed
    <3> QED
      BY <1>1, <1>2, <1>5, <2>1, <2>2, <3>1 DEF Typed, Memory
  <2>4. Leasing'
    BY <1>1, <1>2, <1>5, <2>1, <2>2, RequestMoves
  <2>5. Remembering'
    BY <1>1, <1>2, <1>5 DEF Remembering
  <2>6. (Working \ {r}) \cup {c} \subseteq Working' /\ Working' \subseteq Working \cup {c}
    BY <1>1, <2>1, <2>2 DEF Working
  <2>7. Tasking'
    BY <1>1, <1>2, <1>3, <1>4, <1>5, <2>1, <2>6, TaskCreated
  <2> QED
    BY <2>3, <2>4, <2>5, <2>7 DEF IInv
<1>6. CASE /\ leases' = Released(r.leases) /\ requests' = requests \ {r}
           /\ kept' = kept \ r.files /\ UNCHANGED tasks
  <2>1. Ends(r.leases)
    BY <1>2, <1>3, <1>6, ReleasedEnds
  <2>2. Typed'
    BY <1>1, <1>2, <1>6, <2>1 DEF Typed, Memory, Ends
  <2>3. Leasing'
    BY <1>1, <1>2, <1>6, <2>1, RequestEnds
  <2>4. \A e \in Events : leases'[e] # None => leases[e] # None
    BY <2>1 DEF Ends
  <2>5. Remembering'
    BY <1>1, <1>2, <1>6, <2>4, Shrinks DEF Remembering, ToSet, Typed, Memory
  <2>6. Working \ {r} \subseteq Working' /\ Working' \subseteq Working
    BY <1>1, <1>6 DEF Working
  <2>7. Tasking'
    BY <1>1, <1>2, <1>3, <1>4, <1>6, <2>6, TaskRefused
  <2> QED
    BY <2>2, <2>3, <2>5, <2>7 DEF IInv
<1> QED
  BY <1>5, <1>6 DEF Launch

\* The task is there: its events are committed, or made doubtful by a lost lease.
LEMMA CommitTaskStep ==
    ASSUME IInv, NEW r \in requests, CommitTask(r)  PROVE IInv'
<1>1. /\ r.place = "commit" /\ requests' = requests \ {r}
      /\ UNCHANGED <<pending, flushing, closed, used, tasks, lapsed>>
  BY DEF CommitTask
<1>2. Typed /\ Leasing /\ Remembering /\ Tasking
  BY DEF IInv
<1>3. r \in Request /\ r \in Working /\ r.leases \in SUBSET AllLeases /\ r.files \in SUBSET Events
  BY <1>1, <1>2, RequestTypes
<1>4. Working \ {r} \subseteq Working' /\ Working' \subseteq Working /\ Waits' = Waits
  BY <1>1 DEF Working, Waits
<1>5. CASE Committable(r.leases)
  <2>1. Commit(r.leases) /\ kept' = kept \cup r.files
    BY <1>5 DEF CommitTask
  <2>2. Ends(r.leases)
    BY <1>2, <1>3, <1>5, <2>1, CommitEnds
  <2>3. /\ Memory(seen') /\ Memory(saved')
        /\ \A l \in r.leases : l.event \in ToSet(seen') \cup doubtful'
        /\ ToSet(seen) \subseteq ToSet(seen') \cup doubtful'
        /\ ToSet(seen') \subseteq ToSet(seen) \cup {l.event : l \in r.leases}
        /\ doubtful \subseteq doubtful' /\ doubtful' \subseteq Events
    BY <1>2, <1>3, <1>5, <2>1, CommitRemembers
  <2>4. Typed'
    BY <1>1, <1>2, <1>3, <2>1, <2>2, <2>3 DEF Typed, Memory, Ends
  <2>5. Leasing'
    BY <1>1, <1>2, <2>2, RequestEnds
  <2>6. Remembering'
    <3>1. \A e \in Events : leases'[e] # None => leases[e] # None
      BY <2>2 DEF Ends
    <3>2. \A e \in ToSet(seen') : leases'[e] = None
      <4>1. \A e \in Events : (\E l \in r.leases : l.event = e) => leases'[e] = None
        BY <2>1 DEF Commit
      <4>2. \A e \in ToSet(seen') : e \in Events
        BY <2>3 DEF Memory, ToSet
      <4> QED
        BY <1>2, <2>3, <3>1, <4>1, <4>2 DEF Remembering
    <3> QED
      BY <1>1, <1>2, <2>3, <3>1, <3>2, Shrinks DEF Remembering
  <2>7. \A e \in r.files : e \in ToSet(seen') \cup doubtful'
    BY <1>2, <1>3, <2>3 DEF Leasing, Covered
  <2>8. Tasking'
    BY <1>1, <1>2, <1>3, <1>4, <2>1, <2>3, <2>7, TaskSettled
  <2> QED
    BY <2>4, <2>5, <2>6, <2>8 DEF IInv
<1>6. CASE ~Committable(r.leases)
  <2>1. leases' = Released(r.leases) /\ doubtful' = doubtful \cup r.files /\ UNCHANGED <<seen, saved, kept>>
    BY <1>6 DEF CommitTask
  <2>2. Ends(r.leases)
    BY <1>2, <1>3, <2>1, ReleasedEnds
  <2>3. Typed'
    BY <1>1, <1>2, <1>3, <2>1, <2>2 DEF Typed, Memory, Ends
  <2>4. Leasing'
    BY <1>1, <1>2, <2>2, RequestEnds
  <2>5. \A e \in Events : leases'[e] # None => leases[e] # None
    BY <2>2 DEF Ends
  <2>6. Remembering'
    BY <1>1, <1>2, <2>1, <2>5, Shrinks DEF Remembering, ToSet, Typed, Memory
  <2>7. Tasking'
    BY <1>1, <1>2, <1>3, <1>4, <2>1, TaskSettled
  <2> QED
    BY <2>3, <2>4, <2>6, <2>7 DEF IInv
<1> QED
  BY <1>5, <1>6

-----------------------------------------------------------------------------
(* The entry that waits, and its flush.                                    *)

\* The timer takes the entry out of the queue, with its files and its leases.
LEMMA TimerFiresStep ==
    ASSUME IInv, TimerFires  PROVE IInv'
<1> DEFINE f == [place |-> "launch", files |-> pending.files, leases |-> pending.leases]
<1>1. /\ pending # None /\ flushing' = flushing \cup {f} /\ pending' = None
      /\ UNCHANGED <<requests, leases, seen, closed, saved, used, tasks, doubtful, kept, lapsed>>
  BY DEF TimerFires
<1>2. Typed /\ Leasing /\ Remembering /\ Tasking
  BY DEF IInv
<1>3. pending \in Entry
  BY <1>1, <1>2 DEF Typed
<1>4. f \in Flush /\ f.place = "launch" /\ f.files = pending.files /\ f.leases = pending.leases
  BY <1>3 DEF Flush, Entry
<1> HIDE DEF f
<1>5. Waits = {pending} /\ Waits' = {} /\ pending \in Owners
  BY <1>1 DEF Waits, Owners
<1>6. \A o \in Owners' : o = f \/ o \in Owners
  BY <1>1 DEF Owners
<1>7. Typed'
  BY <1>1, <1>2, <1>4 DEF Typed, Memory
<1>8. Leasing'
  <2>1. Placed'
    BY <1>1, <1>2 DEF Leasing, Placed
  <2>2. Drawn'
    BY <1>1, <1>2, <1>4, <1>5, <1>6 DEF Leasing, Drawn
  <2>3. Apart'
    BY <1>1, <1>2, <1>4, <1>5 DEF Leasing, Apart
  <2>4. Valid'
    BY <1>1, <1>2, <1>4, <1>5, <1>6 DEF Leasing, Valid, Owns
  <2>5. HasOwner'
    BY <1>1, <1>2, <1>4, <1>5 DEF Leasing, HasOwner, Owners, Lease
  <2>6. Covered'
    BY <1>1, <1>2, <1>4, <1>5 DEF Leasing, Covered, Working
  <2> QED
    BY <2>1, <2>2, <2>3, <2>4, <2>5, <2>6 DEF Leasing
<1>9. Remembering'
  BY <1>1, <1>2 DEF Remembering
<1>10. Tasking'
  <2>1. \A w : w.place = "commit" => (w \in Working' <=> w \in Working)
    BY <1>1, <1>4 DEF Working
  <2>2. Answered' /\ Once' /\ Launched'
    BY <1>1, <1>2, <2>1, TasksStay
  <2>3. Working' = Working \cup {f}
    BY <1>1 DEF Working
  <2>4. Kept'
    BY <1>1, <1>2, <1>4, <1>5, <2>3 DEF Tasking, Kept, Safe
  <2> QED
    BY <2>2, <2>4 DEF Tasking
<1> QED
  BY <1>7, <1>8, <1>9, <1>10 DEF IInv

\* The queue is dropped; its leases are left to lapse.
LEMMA CloseStep ==
    ASSUME IInv, Close  PROVE IInv'
<1>1. /\ closed' = TRUE /\ pending' = None
      /\ kept' = IF pending = None THEN kept ELSE kept \ pending.files
      /\ UNCHANGED <<requests, leases, seen, flushing, saved, used, tasks, doubtful, lapsed>>
  BY DEF Close
<1>2. Typed /\ Leasing /\ Remembering /\ Tasking
  BY DEF IInv
<1>3. Owners' \subseteq Owners /\ Waits' = {} /\ Working' = Working
  BY <1>1 DEF Owners, Waits, Working
<1>4. Typed'
  BY <1>1, <1>2 DEF Typed, Memory
<1>5. Leasing'
  <2>1. Placed' /\ HasOwner'
    BY <1>1, <1>2 DEF Leasing, Placed, HasOwner
  <2>2. Drawn'
    BY <1>1, <1>2, <1>3 DEF Leasing, Drawn
  <2>3. Apart'
    BY <1>1, <1>2, <1>3 DEF Leasing, Apart
  <2>4. Valid'
    BY <1>1, <1>2, <1>3 DEF Leasing, Valid, Owns
  <2>5. Covered'
    BY <1>2, <1>3 DEF Leasing, Covered
  <2> QED
    BY <2>1, <2>2, <2>3, <2>4, <2>5 DEF Leasing
<1>6. Remembering'
  BY <1>1, <1>2 DEF Remembering
<1>7. Tasking'
  <2>1. Answered' /\ Once' /\ Launched'
    BY <1>1, <1>2, <1>3, TasksStay
  <2>2. Kept'
    BY <1>1, <1>2, <1>3 DEF Tasking, Kept, Safe, Waits
  <2> QED
    BY <2>1, <2>2 DEF Tasking
<1> QED
  BY <1>4, <1>5, <1>6, <1>7 DEF IInv

\* The callback of the timer creates the task, or is refused one.
LEMMA FlushLaunchStep ==
    ASSUME IInv, NEW f \in flushing, FlushLaunch(f)  PROVE IInv'
<1>1. /\ f.place = "launch"
      /\ UNCHANGED <<requests, seen, pending, closed, saved, used, doubtful, lapsed>>
  BY DEF FlushLaunch
<1>2. Typed /\ Leasing /\ Remembering /\ Tasking
  BY DEF IInv
<1>3. f \in Flush /\ f \in Working /\ f.leases \in SUBSET AllLeases /\ f.files \in SUBSET Events
  BY <1>2, FlushTypes
<1>4. Waits' = Waits
  BY <1>1 DEF Waits
<1>5. CASE /\ tasks' = Append(tasks, f.files)
           /\ flushing' = (flushing \ {f}) \cup {[f EXCEPT !.place = "commit"]}
           /\ UNCHANGED <<leases, kept>>
  <2> DEFINE c == [f EXCEPT !.place = "commit"]
  <2>1. c \in Flush /\ c.place = "commit" /\ c.files = f.files /\ c.leases = f.leases
    BY <1>3 DEF Flush
  <2> HIDE DEF c
  <2>2. flushing' = (flushing \ {f}) \cup {c}
    BY <1>5 DEF c
  <2>3. Typed'
    <3>1. tasks' \in Seq(SUBSET Events)
      BY <1>2, <1>3, <1>5 DEF Typed
    <3> QED
      BY <1>1, <1>2, <1>5, <2>1, <2>2, <3>1 DEF Typed, Memory
  <2>4. Leasing'
    BY <1>1, <1>2, <1>5, <2>1, <2>2, FlushMoves
  <2>5. Remembering'
    BY <1>1, <1>2, <1>5 DEF Remembering
  <2>6. (Working \ {f}) \cup {c} \subseteq Working' /\ Working' \subseteq Working \cup {c}
    BY <1>1, <2>1, <2>2 DEF Working
  <2>7. Tasking'
    BY <1>1, <1>2, <1>3, <1>4, <1>5, <2>1, <2>6, TaskCreated
  <2> QED
    BY <2>3, <2>4, <2>5, <2>7 DEF IInv
<1>6. CASE /\ leases' = Released(f.leases) /\ flushing' = flushing \ {f}
           /\ kept' = kept \ f.files /\ UNCHANGED tasks
  <2>1. Ends(f.leases)
    BY <1>2, <1>3, <1>6, ReleasedEnds
  <2>2. Typed'
    BY <1>1, <1>2, <1>6, <2>1 DEF Typed, Memory, Ends
  <2>3. Leasing'
    BY <1>1, <1>2, <1>6, <2>1, FlushEnds
  <2>4. \A e \in Events : leases'[e] # None => leases[e] # None
    BY <2>1 DEF Ends
  <2>5. Remembering'
    BY <1>1, <1>2, <1>6, <2>4, Shrinks DEF Remembering, ToSet, Typed, Memory
  <2>6. Working \ {f} \subseteq Working' /\ Working' \subseteq Working
    BY <1>1, <1>6 DEF Working
  <2>7. Tasking'
    BY <1>1, <1>2, <1>3, <1>4, <1>6, <2>6, TaskRefused
  <2> QED
    BY <2>2, <2>3, <2>5, <2>7 DEF IInv
<1> QED
  BY <1>5, <1>6 DEF FlushLaunch
\* The callback of the timer commits the events of its task.
LEMMA FlushCommitStep ==
    ASSUME IInv, NEW f \in flushing, FlushCommit(f)  PROVE IInv'
<1>1. /\ f.place = "commit" /\ flushing' = flushing \ {f}
      /\ UNCHANGED <<requests, pending, closed, used, tasks, kept, lapsed>>
  BY DEF FlushCommit
<1>2. Typed /\ Leasing /\ Remembering /\ Tasking
  BY DEF IInv
<1>3. f \in Flush /\ f \in Working /\ f.leases \in SUBSET AllLeases /\ f.files \in SUBSET Events
  BY <1>2, FlushTypes
<1>4. Working \ {f} \subseteq Working' /\ Working' \subseteq Working /\ Waits' = Waits
  BY <1>1 DEF Working, Waits
<1>5. CASE Committable(f.leases)
  <2>1. Commit(f.leases)
    BY <1>5 DEF FlushCommit
  <2>2. Ends(f.leases)
    BY <1>2, <1>3, <1>5, <2>1, CommitEnds
  <2>3. /\ Memory(seen') /\ Memory(saved')
        /\ \A l \in f.leases : l.event \in ToSet(seen') \cup doubtful'
        /\ ToSet(seen) \subseteq ToSet(seen') \cup doubtful'
        /\ ToSet(seen') \subseteq ToSet(seen) \cup {l.event : l \in f.leases}
        /\ doubtful \subseteq doubtful' /\ doubtful' \subseteq Events
    BY <1>2, <1>3, <1>5, <2>1, CommitRemembers
  <2>4. Typed'
    BY <1>1, <1>2, <1>3, <2>1, <2>2, <2>3 DEF Typed, Memory, Ends
  <2>5. Leasing'
    BY <1>1, <1>2, <2>2, FlushEnds
  <2>6. Remembering'
    <3>1. \A e \in Events : leases'[e] # None => leases[e] # None
      BY <2>2 DEF Ends
    <3>2. \A e \in ToSet(seen') : leases'[e] = None
      <4>1. \A e \in Events : (\E l \in f.leases : l.event = e) => leases'[e] = None
        BY <2>1 DEF Commit
      <4>2. \A e \in ToSet(seen') : e \in Events
        BY <2>3 DEF Memory, ToSet
      <4> QED
        BY <1>2, <2>3, <3>1, <4>1, <4>2 DEF Remembering
    <3> QED
      BY <1>1, <1>2, <2>3, <3>1, <3>2, Shrinks DEF Remembering
  <2>7. \A e \in f.files : e \in ToSet(seen') \cup doubtful'
    BY <1>2, <1>3, <2>3 DEF Leasing, Covered
  <2>8. Tasking'
    BY <1>1, <1>2, <1>3, <1>4, <2>1, <2>3, <2>7, TaskSettled
  <2> QED
    BY <2>4, <2>5, <2>6, <2>8 DEF IInv
<1>6. CASE ~Committable(f.leases)
  <2>1. leases' = Released(f.leases) /\ doubtful' = doubtful \cup f.files /\ UNCHANGED <<seen, saved>>
    BY <1>6 DEF FlushCommit
  <2>2. Ends(f.leases)
    BY <1>2, <1>3, <2>1, ReleasedEnds
  <2>3. Typed'
    BY <1>1, <1>2, <1>3, <2>1, <2>2 DEF Typed, Memory, Ends
  <2>4. Leasing'
    BY <1>1, <1>2, <2>2, FlushEnds
  <2>5. \A e \in Events : leases'[e] # None => leases[e] # None
    BY <2>2 DEF Ends
  <2>6. Remembering'
    BY <1>1, <1>2, <2>1, <2>5, Shrinks DEF Remembering, ToSet, Typed, Memory
  <2>7. Tasking'
    BY <1>1, <1>2, <1>3, <1>4, <2>1, TaskSettled
  <2> QED
    BY <2>3, <2>4, <2>6, <2>7 DEF IInv
<1> QED
  BY <1>5, <1>6

-----------------------------------------------------------------------------
(* A delivery that meets the entry that waits.                             *)

\* A text takes what waits, with its files and its leases, and is ready to launch.
LEMMA TextTakes ==
    ASSUME Typed, NEW others, NEW r \in Request, "text" \in Contents[r.event], Take(others, r)
    PROVE  \E s \in Request :
              /\ requests' = others \cup {s} /\ pending' = None /\ s.place = "launch"
              /\ \A l : l \in s.leases <=> l \in r.leases \/ \E p \in Waits : l \in p.leases
              /\ \A e : e \in s.files <=> e \in r.files \/ \E p \in Waits : e \in p.files
<1>1. requests' = others \cup {Joined(r)} /\ pending' = None
  BY DEF Take
<1>2. CASE pending # None
  <2>1. pending \in Entry /\ Waits = {pending}
    BY <1>2 DEF Typed, Waits
  <2>2. Joined(r) = [r EXCEPT !.place = "launch", !.files = @ \cup pending.files, !.leases = @ \cup pending.leases]
    BY <1>2 DEF Joined
  <2>3. /\ Joined(r) \in Request /\ Joined(r).place = "launch"
        /\ Joined(r).files = r.files \cup pending.files
        /\ Joined(r).leases = r.leases \cup pending.leases
    BY <2>1, <2>2 DEF Request, Entry, Place
  <2> QED
    BY <1>1, <2>1, <2>3
<1>3. CASE pending = None
  <2>1. Waits = {} /\ Joined(r) = [r EXCEPT !.place = "launch"]
    BY <1>3 DEF Joined, Waits
  <2>2. /\ Joined(r) \in Request /\ Joined(r).place = "launch"
        /\ Joined(r).files = r.files /\ Joined(r).leases = r.leases
    BY <2>1 DEF Request, Place
  <2> QED
    BY <1>1, <2>1, <2>2
<1> QED
  BY <1>2, <1>3

\* Files with a text: the delivery takes what waits.
LEMMA DownloadedText ==
    ASSUME IInv, NEW r \in requests, r.place = "download", "text" \in Contents[r.event],
           Take(requests \ {r}, r),
           UNCHANGED <<leases, kept, seen, flushing, closed, saved, used, tasks, doubtful, lapsed>>
    PROVE  IInv'
<1>1. Typed /\ Leasing /\ Remembering /\ Tasking
  BY DEF IInv
<1>2. r \in Request /\ r \in Owners /\ r \in Working
  BY <1>1, RequestTypes
<1>3. PICK s \in Request :
         /\ requests' = (requests \ {r}) \cup {s} /\ pending' = None /\ s.place = "launch"
         /\ \A l : l \in s.leases <=> l \in r.leases \/ \E p \in Waits : l \in p.leases
         /\ \A e : e \in s.files <=> e \in r.files \/ \E p \in Waits : e \in p.files
  BY <1>1, <1>2, TextTakes
<1>4. Waits' = {} /\ Waits \subseteq Owners
  BY <1>3 DEF Waits, Owners
<1>5. \A o \in Owners' : o = s \/ o \in Owners
  BY <1>3 DEF Owners
<1>6. Typed'
  BY <1>1, <1>3 DEF Typed, Memory
<1>7. Leasing'
  <2>1. Placed'
    BY <1>1, <1>3 DEF Leasing, Placed
  <2>2. Drawn'
    BY <1>1, <1>2, <1>3, <1>4, <1>5 DEF Leasing, Drawn
  <2>3. Apart'
    <3>1. \A o \in (requests \ {r}) \cup flushing : \A l \in o.leases : l \notin s.leases
      BY <1>1, <1>3 DEF Leasing, Apart
    <3>2. \A q \in requests' : q = s \/ (q \in requests /\ q # r)
      BY <1>3
    <3>3. \A q1, q2 \in requests' : q1 # q2 => q1.leases \cap q2.leases = {}
      BY <1>1, <3>1, <3>2 DEF Leasing, Apart
    <3>4. \A q \in requests', f \in flushing : q.leases \cap f.leases = {}
      BY <1>1, <3>1, <3>2 DEF Leasing, Apart
    <3> QED
      BY <1>1, <1>4, <3>3, <3>4 DEF Leasing, Apart
  <2>4. Valid'
    BY <1>1, <1>2, <1>3, <1>4, <1>5 DEF Leasing, Valid, Owns
  <2>5. HasOwner'
    <3>1. ASSUME NEW o \in Owners, NEW l \in o.leases  PROVE \E q \in Owners' : l \in q.leases
      BY <1>3, <3>1 DEF Owners, Waits
    <3> QED
      BY <1>1, <3>1 DEF Leasing, HasOwner, Lease
  <2>6. Covered'
    <3>1. \A o \in Working' : o = s \/ o \in Working
      BY <1>3 DEF Working
    <3>2. \A e \in s.files : \E l \in s.leases : l.event = e
      BY <1>1, <1>2, <1>3 DEF Leasing, Covered
    <3> QED
      BY <1>1, <1>4, <3>1, <3>2 DEF Leasing, Covered
  <2> QED
    BY <2>1, <2>2, <2>3, <2>4, <2>5, <2>6 DEF Leasing
<1>8. Remembering'
  BY <1>1 DEF Remembering
<1>9. Tasking'
  <2>1. \A w : w.place = "commit" => (w \in Working' <=> w \in Working)
    BY <1>3 DEF Working
  <2>2. Answered' /\ Once' /\ Launched'
    BY <1>1, <2>1, TasksStay
  <2>3. s \in Working' /\ \A w \in Working : w.place # "download" => w \in Working'
    BY <1>3 DEF Working
  <2>4. Kept'
    BY <1>1, <1>3, <2>3 DEF Tasking, Kept, Safe
  <2> QED
    BY <2>2, <2>4 DEF Tasking
<1> QED
  BY <1>6, <1>7, <1>8, <1>9 DEF IInv

\* Files alone join what waits, or begin to wait and are announced.
LEMMA DownloadedFiles ==
    ASSUME IInv, NEW r \in requests, r.place = "download",
           pending' = Staged(r.files, r.leases),
           requests' = IF pending = None
                       THEN (requests \ {r}) \cup {[r EXCEPT !.place = "notify", !.leases = {}]}
                       ELSE requests \ {r},
           kept' = kept \cup {r.event},
           UNCHANGED <<leases, seen, flushing, closed, saved, used, tasks, doubtful, lapsed>>
    PROVE  IInv'
<1> DEFINE n == [r EXCEPT !.place = "notify", !.leases = {}]
<1>1. Typed /\ Leasing /\ Remembering /\ Tasking
  BY DEF IInv
<1>2. /\ r \in Request /\ r \in Owners /\ r \in Working /\ r.event \in Events
      /\ r.leases \in SUBSET AllLeases /\ r.files \in SUBSET Events /\ r.files = {r.event}
  BY <1>1, RequestTypes DEF Leasing, Placed
<1>3. n \in Request /\ n.place = "notify" /\ n.leases = {}
  BY <1>2 DEF Request, Place
<1> HIDE DEF n
<1>4. /\ requests' \subseteq (requests \ {r}) \cup {n}
      /\ requests \ {r} \subseteq requests'
  BY DEF n
<1>5. /\ pending' \in Entry /\ pending' # None /\ pending'.files # {}
      /\ \A l : l \in pending'.leases <=> l \in r.leases \/ \E p \in Waits : l \in p.leases
      /\ \A e : e \in pending'.files <=> e \in r.files \/ \E p \in Waits : e \in p.files
  <2>1. CASE pending = None
    <3>1. pending' = [files |-> r.files, leases |-> r.leases] /\ Waits = {}
      BY <2>1 DEF Staged, Waits
    <3>2. pending' \in Entry /\ pending'.files = r.files /\ pending'.leases = r.leases
      BY <1>2, <3>1 DEF Entry
    <3>3. pending' # None
      BY <3>2, NoneAssumption
    <3> QED
      BY <1>2, <3>1, <3>2, <3>3
  <2>2. CASE pending # None
    <3>1. /\ pending' = [files |-> pending.files \cup r.files, leases |-> pending.leases \cup r.leases]
          /\ Waits = {pending} /\ pending \in Entry
      BY <1>1, <2>2 DEF Staged, Waits, Typed
    <3> QED
      BY <1>2, <3>1, NoneAssumption DEF Entry
  <2> QED
    BY <2>1, <2>2
<1>6. Waits' = {pending'} /\ Waits \subseteq Owners
  BY <1>5 DEF Waits, Owners
<1>7. \A o \in Owners' : o \in {n, pending'} \/ o \in Owners
  BY <1>4 DEF Owners
<1>8. Typed'
  BY <1>1, <1>2, <1>3, <1>4, <1>5 DEF Typed, Memory
<1>9. Leasing'
  <2>1. Placed'
    BY <1>1, <1>3, <1>4 DEF Leasing, Placed
  <2>2. Drawn'
    BY <1>1, <1>2, <1>3, <1>5, <1>6, <1>7 DEF Leasing, Drawn
  <2>3. Apart'
    <3>1. \A o \in (requests \ {r}) \cup flushing : \A l \in o.leases : l \notin pending'.leases
      BY <1>1, <1>5 DEF Leasing, Apart
    <3>2. \A q \in requests' : q.leases = {} \/ (q \in requests /\ q # r)
      BY <1>3, <1>4
    <3>3. \A q1, q2 \in requests' : q1 # q2 => q1.leases \cap q2.leases = {}
      BY <1>1, <3>2 DEF Leasing, Apart
    <3>4. \A q \in requests', f \in flushing : q.leases \cap f.leases = {}
      BY <1>1, <3>2 DEF Leasing, Apart
    <3>5. \A o \in requests' \cup flushing : o.leases \cap pending'.leases = {}
      BY <3>1, <3>2
    <3> QED
      BY <1>1, <1>6, <3>3, <3>4, <3>5 DEF Leasing, Apart
  <2>4. Valid'
    BY <1>1, <1>2, <1>3, <1>5, <1>6, <1>7 DEF Leasing, Valid, Owns
  <2>5. HasOwner'
    <3>1. ASSUME NEW o \in Owners, NEW l \in o.leases  PROVE \E q \in Owners' : l \in q.leases
      BY <1>4, <1>5, <3>1 DEF Owners, Waits
    <3> QED
      BY <1>1, <3>1 DEF Leasing, HasOwner, Lease
  <2>6. Covered'
    <3>1. \A o \in Working' : o \in Working
      BY <1>3, <1>4 DEF Working
    <3>2. ASSUME NEW e \in pending'.files  PROVE \E l \in pending'.leases : l.event = e
      <4>1. PICK o \in {r} \cup Waits : e \in o.files
        BY <1>5
      <4>2. PICK l \in o.leases : l.event = e
        BY <1>1, <1>2, <4>1 DEF Leasing, Covered
      <4> QED
        BY <1>5, <4>1, <4>2
    <3> QED
      BY <1>1, <1>6, <3>1, <3>2 DEF Leasing, Covered
  <2> QED
    BY <2>1, <2>2, <2>3, <2>4, <2>5, <2>6 DEF Leasing
<1>10. Remembering'
  BY <1>1 DEF Remembering
<1>11. Tasking'
  <2>1. \A w : w.place = "commit" => (w \in Working' <=> w \in Working)
    BY <1>3, <1>4 DEF Working
  <2>2. Answered' /\ Once' /\ Launched'
    BY <1>1, <2>1, TasksStay
  <2>3. \A w \in Working : w.place # "download" => w \in Working'
    BY <1>4 DEF Working
  <2>4. Kept'
    BY <1>1, <1>2, <1>5, <1>6, <2>3 DEF Tasking, Kept, Safe
  <2> QED
    BY <2>2, <2>4 DEF Tasking
<1> QED
  BY <1>8, <1>9, <1>10, <1>11 DEF IInv

\* The end of a download, in its three cases.
LEMMA DownloadedStep ==
    ASSUME IInv, NEW r \in requests, Downloaded(r)  PROVE IInv'
<1>1. r.place = "download" /\ UNCHANGED <<seen, flushing, closed, saved, used, tasks, doubtful, lapsed>>
  BY DEF Downloaded
<1>2. CASE "text" \in Contents[r.event] /\ Take(requests \ {r}, r) /\ UNCHANGED <<leases, kept>>
  BY <1>1, <1>2, DownloadedText
<1>3. CASE /\ pending' = Staged(r.files, r.leases)
           /\ IF pending = None
              THEN requests' = (requests \ {r}) \cup {[r EXCEPT !.place = "notify", !.leases = {}]}
              ELSE requests' = requests \ {r}
           /\ kept' = kept \cup {r.event} /\ UNCHANGED leases
  BY <1>1, <1>3, DownloadedFiles
<1>4. CASE leases' = Released(r.leases) /\ requests' = requests \ {r} /\ UNCHANGED <<pending, kept>>
  <2>1. DownloadFails(r)
    BY <1>1, <1>4 DEF DownloadFails
  <2> QED
    BY <2>1, DownloadFailsStep
<1> QED
  BY <1>2, <1>3, <1>4 DEF Downloaded

-----------------------------------------------------------------------------
(* Deliveries, time and crashes.                                           *)

\* A duplicate, or a full table: only the platform knows.
LEMMA DuplicateStep ==
    ASSUME IInv, used.deliveries < MaxDeliveries,
           used' = [used EXCEPT !.deliveries = @ + 1],
           UNCHANGED <<memory, saved, tasks, lapsed, doubtful, kept>>
    PROVE  IInv'
<1>1. Typed /\ Leasing /\ Remembering /\ Tasking
  BY DEF IInv
<1>2. UNCHANGED <<requests, leases, seen, pending, flushing, closed>>
  BY DEF memory
<1>3. /\ used' \in [deliveries : 0 .. MaxDeliveries, faults : Nat]
      /\ used'.deliveries = used.deliveries + 1 /\ used.deliveries \in Nat
  BY <1>1, IngressAssumption DEF Typed
<1>4. Typed'
  BY <1>1, <1>2, <1>3 DEF Typed, Memory
<1>5. Owners' = Owners /\ Working' = Working /\ Waits' = Waits
  BY <1>2 DEF Owners, Working, Waits
<1>6. Drawn'
  <2>1. \A o \in Owners : \A l \in o.leases : l.token \in Nat
    BY <1>1, OwnerTypes DEF AllLeases
  <2> QED
    BY <1>1, <1>3, <1>5, <2>1 DEF Leasing, Drawn
<1>7. Placed' /\ HasOwner' /\ Valid'
  BY <1>1, <1>2, <1>5 DEF Leasing, Placed, HasOwner, Valid, Owns
<1>8. Apart' /\ Covered'
  BY <1>1, <1>2, <1>5 DEF Leasing, Apart, Covered
<1>9. Remembering'
  BY <1>1, <1>2 DEF Remembering
<1>10. Tasking'
  <2>1. Answered' /\ Once' /\ Launched'
    BY <1>1, <1>2, <1>5, TasksStay
  <2>2. Kept'
    BY <1>1, <1>5 DEF Tasking, Kept, Safe
  <2> QED
    BY <2>1, <2>2 DEF Tasking
<1> QED
  BY <1>4, <1>6, <1>7, <1>8, <1>9, <1>10 DEF Leasing, IInv

\* A reservation of its own, with a token that was never drawn before; a text takes
\* what waits at once.
LEMMA ReserveStep ==
    ASSUME IInv, NEW e \in Events, NEW drawn \in Nat, drawn = used.deliveries + 1,
           used.deliveries < MaxDeliveries, used' = [used EXCEPT !.deliveries = @ + 1],
           ~Known(e), Cardinality({d \in Events : leases[d] # None}) < MaxLeases,
           leases' = [leases EXCEPT ![e] = drawn],
           NEW s \in Request, requests' = requests \cup {s},
           s.place \in {"download", "launch"}, s.place = "download" => s.event = e /\ s.files = {e},
           pending' = IF s.place = "launch" THEN None ELSE pending,
           \A l : l \in s.leases <=> l = Lease(e, drawn) \/ (s.place = "launch" /\ \E p \in Waits : l \in p.leases),
           \A d : d \in s.files <=> d = e \/ (s.place = "launch" /\ \E p \in Waits : d \in p.files),
           UNCHANGED <<seen, flushing, closed, saved, tasks, doubtful, kept, lapsed>>
    PROVE  IInv'
<1> DEFINE L == Lease(e, drawn)
<1>1. Typed /\ Leasing /\ Remembering /\ Tasking
  BY DEF IInv
<1>2. /\ L \in AllLeases /\ L.event = e /\ L.token = drawn
      /\ drawn \in 1 .. MaxDeliveries
      /\ used' \in [deliveries : 0 .. MaxDeliveries, faults : Nat]
      /\ used'.deliveries = drawn /\ used.deliveries \in Nat
  BY <1>1, IngressAssumption DEF Typed, Lease, AllLeases
<1> HIDE DEF L
<1>3. /\ leases[e] = None /\ e \notin ToSet(seen) /\ leases'[e] = drawn
      /\ \A d \in Events : d # e => leases'[d] = leases[d]
      /\ leases' \in [Events -> (1 .. MaxDeliveries) \cup {None}]
  BY <1>1, <1>2 DEF Known, Typed
<1>4. \A o \in Owners : \A l \in o.leases : l \in AllLeases /\ l # L
  <2>1. \A o \in Owners : \A l \in o.leases : l \in AllLeases /\ l.token <= used.deliveries
    BY <1>1, OwnerTypes DEF Leasing, Drawn
  <2> QED
    BY <1>2, <2>1
<1>5. ASSUME NEW l \in AllLeases, Owns(l) \/ l \in lapsed  PROVE Owns(l)' \/ l \in lapsed'
  <2>1. Owns(l) => l.event # e /\ l.event \in Events
    BY <1>3, Current
  <2> QED
    BY <1>3, <1>5, <2>1 DEF Owns
<1>6. /\ \A l : l \in s.leases <=> l = L \/ (s.place = "launch" /\ \E p \in Waits : l \in p.leases)
      /\ Waits \subseteq Owners /\ Waits' = IF s.place = "launch" THEN {} ELSE Waits
  BY DEF L, Waits, Owners
<1>7. \A o \in Owners' : o = s \/ o \in Owners
  BY DEF Owners
<1>8. Typed'
  BY <1>1, <1>2, <1>3 DEF Typed, Memory
<1>9. Leasing'
  <2>1. Placed'
    BY <1>1 DEF Leasing, Placed
  <2>2. Drawn'
    <3>1. \A o \in Owners : \A l \in o.leases : l.token \in Nat /\ l.token <= used.deliveries
      BY <1>1, OwnerTypes DEF Leasing, Drawn, AllLeases
    <3>2. \A o \in Owners : \A l \in o.leases : l.token <= used'.deliveries
      BY <1>2, <3>1
    <3>3. \A l \in s.leases : l.token <= used'.deliveries
      BY <1>2, <1>6, <3>2
    <3> QED
      BY <1>7, <3>2, <3>3 DEF Drawn
  <2>3. Apart'
    <3>1. \A o \in requests \cup flushing : \A l \in o.leases : l \notin s.leases
      <4>1. requests \cup flushing \subseteq Owners
        BY DEF Owners
      <4> QED
        BY <1>1, <1>4, <1>6, <4>1 DEF Leasing, Apart
    <3>2. \A q \in requests' : q = s \/ q \in requests
      OBVIOUS
    <3>3. \A q1, q2 \in requests' : q1 # q2 => q1.leases \cap q2.leases = {}
      BY <1>1, <3>1, <3>2 DEF Leasing, Apart
    <3>4. \A q \in requests', f \in flushing : q.leases \cap f.leases = {}
      BY <1>1, <3>1, <3>2 DEF Leasing, Apart
    <3>5. ASSUME NEW p \in Waits', NEW l \in p.leases  PROVE p \in Waits /\ l \notin s.leases
      BY <1>4, <1>6, <3>5
    <3>6. \A o \in requests' \cup flushing, p \in Waits' : o.leases \cap p.leases = {}
      BY <1>1, <1>6, <3>2, <3>5 DEF Leasing, Apart
    <3> QED
      BY <1>1, <3>3, <3>4, <3>6 DEF Leasing, Apart
  <2>4. Valid'
    <3>1. \A o \in Owners : \A l \in o.leases : Owns(l)' \/ l \in lapsed'
      BY <1>1, <1>4, <1>5 DEF Leasing, Valid
    <3>2. Owns(L)'
      BY <1>2, <1>3 DEF Owns
    <3>3. \A l \in s.leases : Owns(l)' \/ l \in lapsed'
      BY <1>6, <3>1, <3>2
    <3> QED
      BY <1>7, <3>1, <3>3 DEF Valid
  <2>5. HasOwner'
    <3> SUFFICES ASSUME ~closed, NEW d \in Events, leases'[d] # None
                 PROVE  \E o \in Owners' : Lease(d, leases'[d]) \in o.leases
      BY DEF HasOwner, Lease
    <3>1. CASE d = e
      BY <1>3, <1>6, <3>1 DEF Owners, L
    <3>2. CASE d # e
      <4>1. leases'[d] = leases[d]
        BY <1>3, <3>2
      <4>2. PICK o \in Owners : Lease(d, leases[d]) \in o.leases
        BY <1>1, <4>1 DEF Leasing, HasOwner
      <4>3. CASE o \in Waits /\ s.place = "launch"
        <5>1. Lease(d, leases[d]) \in s.leases
          BY <1>6, <4>2, <4>3
        <5> QED
          BY <4>1, <5>1 DEF Owners
      <4>4. CASE o \in requests \cup flushing \/ s.place # "launch"
        <5>1. o \in Owners'
          BY <4>4 DEF Owners
        <5> QED
          BY <4>1, <4>2, <5>1
      <4> QED
        BY <4>3, <4>4 DEF Owners, Waits
    <3> QED
      BY <3>1, <3>2
  <2>6. Covered'
    <3>1. \A o \in Working' : o = s \/ o \in Working
      BY DEF Working
    <3>2. ASSUME NEW d \in s.files  PROVE \E l \in s.leases : l.event = d
      <4>1. CASE d = e
        BY <1>2, <1>6, <4>1
      <4>2. CASE d # e
        <5>1. PICK p \in Waits : d \in p.files /\ s.place = "launch"
          BY <3>2, <4>2
        <5>2. PICK l \in p.leases : l.event = d
          BY <1>1, <5>1 DEF Leasing, Covered
        <5> QED
          BY <1>6, <5>1, <5>2
      <4> QED
        BY <4>1, <4>2
    <3> QED
      BY <1>1, <1>6, <3>1, <3>2 DEF Leasing, Covered
  <2> QED
    BY <2>1, <2>2, <2>3, <2>4, <2>5, <2>6 DEF Leasing
<1>10. Remembering'
  <2>1. Cardinality({d \in Events : leases'[d] # None}) <= MaxLeases
    <3> DEFINE old == {d \in Events : leases[d] # None}
               new == {d \in Events : leases'[d] # None}
    <3>1. old \in SUBSET Events /\ new = old \cup {e} /\ e \notin old
      BY <1>2, <1>3, NoneAssumption
    <3>2. IsFiniteSet(old)
      BY <3>1, IngressAssumption, FS_Subset
    <3>3. Cardinality(old) < MaxLeases
      OBVIOUS
    <3> HIDE DEF old, new
    <3>4. Cardinality(new) = Cardinality(old) + 1 /\ Cardinality(old) \in Nat /\ MaxLeases \in Nat
      BY <3>1, <3>2, FS_AddElement, FS_CardinalityType, IngressAssumption
    <3>5. Cardinality(new) <= MaxLeases
      BY <3>3, <3>4
    <3> QED
      BY <3>5 DEF new
  <2>2. \A d \in ToSet(seen) : leases'[d] = None
    <3>1. ToSet(seen) \subseteq Events
      BY <1>1 DEF Typed, Memory, ToSet
    <3> QED
      BY <1>1, <1>3, <3>1 DEF Remembering
  <2> QED
    BY <1>1, <2>1, <2>2 DEF Remembering
<1>11. Tasking'
  <2>1. \A w : w.place = "commit" => (w \in Working' <=> w \in Working)
    BY DEF Working
  <2>2. Answered' /\ Once' /\ Launched'
    BY <1>1, <2>1, TasksStay
  <2>3. s \in Working' /\ \A w \in Working : w \in Working'
    BY DEF Working
  <2>4. Kept'
    BY <1>1, <1>6, <2>3 DEF Tasking, Kept, Safe
  <2> QED
    BY <2>2, <2>4 DEF Tasking
<1> QED
  BY <1>8, <1>9, <1>10, <1>11 DEF IInv

\* A delivery: a duplicate, a request to try again, or a reservation.
LEMMA DeliverStep ==
    ASSUME IInv, NEW e \in Events, Deliver(e)  PROVE IInv'
<1> DEFINE drawn == used.deliveries + 1
           r == [event |-> e, token |-> drawn, place |-> "download", files |-> {e}, leases |-> {Lease(e, drawn)}]
           full == Cardinality({d \in Events : leases[d] # None}) >= MaxLeases
<1>1. /\ used.deliveries < MaxDeliveries /\ used' = [used EXCEPT !.deliveries = @ + 1]
      /\ UNCHANGED <<seen, flushing, closed, saved, tasks, doubtful, kept, lapsed>>
  BY DEF Deliver
<1>2. Typed /\ Leasing /\ Remembering /\ Tasking
  BY DEF IInv
<1>3. used.deliveries \in Nat /\ drawn \in 1 .. MaxDeliveries /\ drawn \in Nat
  BY <1>1, <1>2, IngressAssumption DEF Typed
<1>4. CASE Known(e) \/ full
  <2>1. UNCHANGED <<leases, requests, pending>>
    BY <1>4 DEF Deliver
  <2> QED
    BY <1>1, <2>1, DuplicateStep DEF memory
<1>5. CASE ~(Known(e) \/ full)
  <2>1. /\ leases' = [leases EXCEPT ![e] = drawn]
        /\ IF "files" \in Contents[e] THEN requests' = requests \cup {r} /\ UNCHANGED pending
                                      ELSE Take(requests, r)
    BY <1>5 DEF Deliver
  <2>2. /\ r \in Request /\ r.place = "download" /\ r.files = {e} /\ r.event = e
        /\ r.leases = {Lease(e, drawn)}
    BY <1>3 DEF Request, Place, Lease, AllLeases
  <2>3. Cardinality({d \in Events : leases[d] # None}) < MaxLeases
    <3> DEFINE old == {d \in Events : leases[d] # None}
    <3>1. old \in SUBSET Events
      OBVIOUS
    <3>2. IsFiniteSet(old)
      BY <3>1, IngressAssumption, FS_Subset
    <3> HIDE DEF old
    <3>3. Cardinality(old) \in Nat /\ MaxLeases \in Nat
      BY <3>2, FS_CardinalityType, IngressAssumption
    <3>4. ~(Cardinality(old) >= MaxLeases)
      BY <1>5 DEF old
    <3>5. Cardinality(old) < MaxLeases
      BY <3>3, <3>4
    <3> QED
      BY <3>5 DEF old
  <2> HIDE DEF r, drawn, full
  <2>4. CASE "files" \in Contents[e]
    <3>1. requests' = requests \cup {r} /\ pending' = IF r.place = "launch" THEN None ELSE pending
      BY <2>1, <2>2, <2>4
    <3>2. /\ \A l : l \in r.leases <=> l = Lease(e, drawn) \/ (r.place = "launch" /\ \E p \in Waits : l \in p.leases)
          /\ \A d : d \in r.files <=> d = e \/ (r.place = "launch" /\ \E p \in Waits : d \in p.files)
      BY <2>2
    <3> QED
      BY <1>1, <1>3, <1>5, <2>1, <2>2, <2>3, <3>1, <3>2, ReserveStep DEF drawn
  <2>5. CASE "files" \notin Contents[e]
    <3>1. "text" \in Contents[r.event]
      BY <2>2, <2>5, IngressAssumption
    <3>2. PICK s \in Request :
             /\ requests' = requests \cup {s} /\ pending' = None /\ s.place = "launch"
             /\ \A l : l \in s.leases <=> l \in r.leases \/ \E p \in Waits : l \in p.leases
             /\ \A d : d \in s.files <=> d \in r.files \/ \E p \in Waits : d \in p.files
      BY <1>2, <2>1, <2>2, <2>5, <3>1, TextTakes
    <3> QED
      BY <1>1, <1>3, <1>5, <2>1, <2>2, <2>3, <3>2, ReserveStep DEF drawn
  <2> QED
    BY <2>4, <2>5
<1> QED
  BY <1>4, <1>5

\* A lease runs out under its owner.
LEMMA ExpireStep ==
    ASSUME IInv, NEW e \in Events, Expire(e)  PROVE IInv'
<1> DEFINE L == Lease(e, leases[e])
<1>1. /\ leases[e] # None /\ used' = [used EXCEPT !.faults = @ + 1]
      /\ leases' = [leases EXCEPT ![e] = None] /\ lapsed' = lapsed \cup {L}
      /\ doubtful' = doubtful \cup {e}
      /\ UNCHANGED <<requests, seen, pending, flushing, closed, saved, tasks, kept>>
  BY DEF Expire
<1>2. Typed /\ Leasing /\ Remembering /\ Tasking
  BY DEF IInv
<1>3. L \in AllLeases /\ L.event = e /\ L.token = leases[e]
  BY <1>1, <1>2, IngressAssumption DEF Typed, Lease, AllLeases
<1>4. Ends({L})
  BY <1>1, <1>2, <1>3 DEF Ends, Typed
<1> HIDE DEF L
<1>5. used' \in [deliveries : 0 .. MaxDeliveries, faults : Nat] /\ used'.deliveries = used.deliveries
  BY <1>1, <1>2 DEF Typed
<1>6. Owners' = Owners /\ Working' = Working /\ Waits' = Waits
  BY <1>1 DEF Owners, Working, Waits
<1>7. Typed'
  BY <1>1, <1>2, <1>3, <1>4, <1>5 DEF Typed, Memory, Ends
<1>8. Leasing'
  <2>1. Placed' /\ Drawn'
    BY <1>1, <1>2, <1>5, <1>6 DEF Leasing, Placed, Drawn
  <2>2. Apart' /\ Covered'
    BY <1>1, <1>2, <1>6 DEF Leasing, Apart, Covered
  <2>3. Valid'
    <3> SUFFICES ASSUME NEW o \in Owners, NEW l \in o.leases  PROVE Owns(l)' \/ l \in lapsed'
      BY <1>6 DEF Valid
    <3>1. l \in AllLeases /\ (Owns(l) \/ l \in lapsed)
      BY <1>2, OwnerTypes DEF Leasing, Valid
    <3> QED
      BY <1>1, <1>2, <1>3, <1>4, <3>1, OthersStay
  <2>4. HasOwner'
    <3> SUFFICES ASSUME ~closed, NEW d \in Events, leases'[d] # None
                 PROVE  \E o \in Owners : Lease(d, leases'[d]) \in o.leases
      BY <1>1, <1>6 DEF HasOwner, Lease
    <3>1. leases[d] # None /\ leases'[d] = leases[d]
      BY <1>2, <1>3, <1>4, StillCurrent
    <3> QED
      BY <1>2, <3>1 DEF Leasing, HasOwner
  <2> QED
    BY <2>1, <2>2, <2>3, <2>4 DEF Leasing
<1>9. Remembering'
  <2>1. \A d \in Events : leases'[d] # None => leases[d] # None
    BY <1>4 DEF Ends
  <2> QED
    BY <1>1, <1>2, <1>3, <2>1, Shrinks DEF Remembering, ToSet, Typed, Memory
<1>10. Tasking'
  <2>1. Answered' /\ Once' /\ Launched'
    BY <1>1, <1>2, <1>6, TasksStay
  <2>2. Kept'
    BY <1>1, <1>2, <1>6 DEF Tasking, Kept, Safe
  <2> QED
    BY <2>1, <2>2 DEF Tasking
<1> QED
  BY <1>7, <1>8, <1>9, <1>10 DEF IInv

\* A crash: what was not written makes its event doubtful, what has its task stays.
LEMMA RestartStep ==
    ASSUME IInv, Restart  PROVE IInv'
<1>1. /\ used' = [used EXCEPT !.faults = @ + 1]
      /\ requests' = {} /\ leases' = [e \in Events |-> None]
      /\ pending' = None /\ flushing' = {} /\ closed' = FALSE /\ seen' = saved
      /\ doubtful' = doubtful \cup Uncommitted \cup (ToSet(seen) \ ToSet(saved))
      /\ kept' = {e \in kept : \E i \in DOMAIN tasks : e \in tasks[i]}
      /\ UNCHANGED <<saved, tasks, lapsed>>
  BY DEF Restart
<1>2. Typed /\ Leasing /\ Remembering /\ Tasking
  BY DEF IInv
<1>3. Owners' = {} /\ Working' = {} /\ Waits' = {}
  BY <1>1 DEF Owners, Working, Waits
<1>4. \A w \in Working : w.place = "commit" => w.files \subseteq Uncommitted
  BY DEF Working, Uncommitted
<1>5. Uncommitted \subseteq Events
  BY <1>2, RequestTypes, FlushTypes DEF Uncommitted
<1>6. Typed'
  <2>1. ToSet(seen) \subseteq Events
    BY <1>2 DEF Typed, Memory, ToSet
  <2>2. used' \in [deliveries : 0 .. MaxDeliveries, faults : Nat]
    BY <1>1, <1>2 DEF Typed
  <2> QED
    BY <1>1, <1>2, <1>5, <2>1, <2>2 DEF Typed, Memory
<1>7. Leasing'
  <2>1. Placed' /\ Drawn' /\ Valid' /\ Covered'
    BY <1>1, <1>3 DEF Placed, Drawn, Valid, Covered
  <2>2. Apart' /\ HasOwner'
    BY <1>1, <1>3 DEF Apart, HasOwner
  <2> QED
    BY <2>1, <2>2 DEF Leasing
<1>8. Remembering'
  <2>1. \A e \in Events : leases'[e] = None
    BY <1>1
  <2>2. Cardinality({d \in Events : leases'[d] # None}) <= MaxLeases
    BY <1>2, <2>1, Shrinks DEF Remembering
  <2>3. ToSet(seen') \subseteq Events
    BY <1>6 DEF Typed, Memory, ToSet
  <2> QED
    BY <1>1, <1>2, <2>1, <2>2, <2>3 DEF Remembering
<1>9. Tasking'
  <2>1. Answered'
    <3> SUFFICES ASSUME NEW e \in Events \ doubtful', NEW i \in DOMAIN tasks, e \in tasks[i]
                 PROVE  e \in ToSet(saved)
      BY <1>1 DEF Answered
    <3>1. e \in ToSet(seen) \/ \E w \in Working : w.place = "commit" /\ e \in w.files
      BY <1>1, <1>2 DEF Tasking, Answered
    <3> QED
      BY <1>1, <1>4, <3>1
  <2>2. Once'
    BY <1>1, <1>2 DEF Tasking, Once
  <2>3. Launched' /\ Kept'
    BY <1>1, <1>3 DEF Launched, Kept, Safe
  <2> QED
    BY <2>1, <2>2, <2>3 DEF Tasking
<1> QED
  BY <1>6, <1>7, <1>8, <1>9 DEF IInv

-----------------------------------------------------------------------------
(* The theorems.                                                           *)

\* The invariant holds at the start and is kept by every step.
LEMMA InitIInv ==
    ASSUME Init  PROVE IInv
<1>1. Owners = {} /\ Working = {} /\ Waits = {} /\ requests = {} /\ flushing = {}
  BY DEF Init, Owners, Working, Waits
<1>2. Typed
  <2>1. /\ leases \in [Events -> (1 .. MaxDeliveries) \cup {None}]
        /\ pending = None /\ closed = FALSE
        /\ tasks \in Seq(SUBSET Events) /\ lapsed = {} /\ doubtful = {} /\ kept = {}
    BY DEF Init
  <2>2. Memory(seen) /\ Memory(saved)
    <3>1. <<>> \in Seq(Events) /\ Len(<<>>) <= Remembered /\ IsInjective(<<>>)
      BY IngressAssumption DEF IsInjective
    <3> QED
      BY <3>1 DEF Init, Memory
  <2>3. used \in [deliveries : 0 .. MaxDeliveries, faults : Nat]
    BY IngressAssumption DEF Init
  <2> QED
    BY <1>1, <2>1, <2>2, <2>3 DEF Typed
<1>3. Leasing
  BY <1>1 DEF Init, Leasing, Placed, Drawn, Apart, Valid, HasOwner, Covered
<1>4. Remembering
  <2>1. {d \in Events : leases[d] # None} = {}
    BY DEF Init
  <2>2. Cardinality({d \in Events : leases[d] # None}) = 0
    BY <2>1, FS_EmptySet
  <2>3. Cardinality({d \in Events : leases[d] # None}) <= MaxLeases
    BY <2>2, IngressAssumption
  <2>4. ToSet(seen) = {}
    BY DEF Init, ToSet
  <2> QED
    BY <2>3, <2>4 DEF Init, Remembering
<1>5. Tasking
  BY <1>1 DEF Init, Tasking, Answered, Once, Launched, Kept
<1> QED
  BY <1>2, <1>3, <1>4, <1>5 DEF IInv

\* Every step keeps the invariant.
LEMMA StepIInv ==
    ASSUME IInv, [Next]_vars  PROVE IInv'
<1>1. CASE UNCHANGED vars
  <2>1. UNCHANGED <<requests, leases, seen, pending, flushing, closed, saved, used, tasks, lapsed, doubtful, kept>>
    BY <1>1 DEF vars, memory
  <2>2. Typed' /\ Remembering'
    BY <2>1 DEF IInv, Typed, Memory, Remembering
  <2>3. Owners' = Owners /\ Working' = Working /\ Waits' = Waits
    BY <2>1 DEF Owners, Working, Waits
  <2>4. Leasing'
    BY <2>1, <2>3 DEF IInv, Leasing, Placed, Drawn, Apart, Valid, HasOwner, Covered, Owns
  <2>5. Tasking'
    BY <2>1, <2>3 DEF IInv, Tasking, Answered, Once, Launched, Kept, Safe
  <2> QED
    BY <2>2, <2>4, <2>5 DEF IInv
<1>2. CASE TimerFires \/ Close \/ Restart
  BY <1>2, TimerFiresStep, CloseStep, RestartStep
<1>3. CASE \E entry \in flushing : FlushLaunch(entry) \/ FlushCommit(entry)
  BY <1>3, FlushLaunchStep, FlushCommitStep
<1>4. CASE \E r \in requests :
               DownloadFails(r) \/ Downloaded(r) \/ Notified(r) \/ Launch(r) \/ CommitTask(r)
  BY <1>4, DownloadFailsStep, DownloadedStep, NotifiedStep, LaunchStep, CommitTaskStep
<1>5. CASE \E e \in Events : Deliver(e) \/ Expire(e)
  BY <1>5, DeliverStep, ExpireStep
<1> QED
  BY <1>1, <1>2, <1>3, <1>4, <1>5 DEF Next

\* The leases, the queue, the committed ids and the tasks stay in step, whatever is
\* delivered again, lapses or crashes.
THEOREM Invariance == Spec => []IInv
<1>1. Init => IInv
  BY InitIInv
<1>2. IInv /\ [Next]_vars => IInv'
  BY StepIInv
<1> QED
  BY <1>1, <1>2, PTL DEF Spec

\* The types of the ingress (TypeOK).
LEMMA InvType ==
    ASSUME IInv  PROVE TypeOK
<1>1. Typed
  BY DEF IInv
<1>2. Request = [event : Events, token : 1 .. MaxDeliveries, place : Place,
                 files : SUBSET Events, leases : SUBSET AllLeases]
  BY DEF Request
<1> QED
  BY <1>1, <1>2 DEF Typed, Memory, TypeOK

\* An event that can be relied on is in one task at most (OneTaskPerEvent).
LEMMA InvOneTask ==
    ASSUME IInv  PROVE OneTaskPerEvent
<1> SUFFICES ASSUME NEW e \in Events \ doubtful
             PROVE  Cardinality({i \in DOMAIN tasks : e \in tasks[i]}) <= 1
  BY DEF OneTaskPerEvent
<1> DEFINE In == {i \in DOMAIN tasks : e \in tasks[i]}
<1>1. \A i, j \in In : i = j
  BY DEF IInv, Tasking, Once
<1> HIDE DEF In
<1>2. CASE In = {}
  BY <1>2, FS_EmptySet DEF In
<1>3. CASE In # {}
  <2>1. PICK i \in In : TRUE
    BY <1>3
  <2>2. In = {i}
    BY <1>1, <2>1
  <2>3. Cardinality(In) = 1
    BY <2>2, FS_Singleton
  <2> QED
    BY <2>3 DEF In
<1> QED
  BY <1>2, <1>3

\* A lease has one owner until the queue is closed, and ends only with it or with
\* time (LeasesOwned).
LEMMA InvLeases ==
    ASSUME IInv  PROVE LeasesOwned
<1>1. Typed /\ Leasing
  BY DEF IInv
<1>2. ASSUME ~closed, NEW e \in Events, leases[e] # None
      PROVE  Cardinality({o \in Owners : Lease(e, leases[e]) \in o.leases}) = 1
  <2> DEFINE L == Lease(e, leases[e])
             By == {o \in Owners : L \in o.leases}
  <2>1. PICK o \in Owners : L \in o.leases
    BY <1>1, <1>2 DEF Leasing, HasOwner
  <2>2. ASSUME NEW p \in Owners, L \in p.leases  PROVE p = o
    <3>1. Owners = requests \cup flushing \cup Waits /\ \A w, v \in Waits : w = v
      BY DEF Owners, Waits
    <3> QED
      BY <1>1, <2>1, <2>2, <3>1 DEF Leasing, Apart
  <2>3. By = {o}
    BY <2>1, <2>2
  <2> QED
    BY <2>3, FS_Singleton
<1>3. \A o \in Owners : \A l \in o.leases : Owns(l) \/ l \in lapsed
  BY <1>1 DEF Leasing, Valid
<1> QED
  BY <1>2, <1>3 DEF LeasesOwned

\* Whatever was accepted waits, is at work or has its task (AcceptedIsHeld).
LEMMA InvHeld ==
    ASSUME IInv  PROVE AcceptedIsHeld
<1> SUFFICES ASSUME NEW e \in kept  PROVE Held(e)
  BY DEF AcceptedIsHeld
<1>1. Safe(e)
  BY DEF IInv, Tasking, Kept
<1> QED
  BY <1>1 DEF Safe, Held, Waits, Working

\* However often and late the platform delivers an event, it becomes part of one task
\* (unless a crash, a lapsed lease or the bound on remembered ids made it doubtful);
\* what was accepted is held until then, and a reservation has exactly one owner.
THEOREM Ingress == Spec => []EventsAreKept
<1>1. IInv => EventsAreKept
  BY InvType, InvOneTask, InvLeases, InvHeld DEF EventsAreKept
<1> QED
  BY <1>1, Invariance, PTL

-----------------------------------------------------------------------------
(* The worker that receives the events (FeishuListener).  The lock is held *)
(* by whoever is inside it, a handle in use is one of the service that     *)
(* runs, and a worker with old credentials lives only while the save of the *)
(* new ones waits for the lock.                                            *)

\* A caller between its Acquire and its Done holds the lock.
Inside == {"stop", "token", "reap", "spawn", "settle"}
Restarters == Listener!Starters \cup {"shutdown"}

OpTypes == [at : Inside \cup {"idle", "wait"}, old : 1..MaxSpawns \cup {None}, asked : 0..MaxSaves \cup {None}]

ListenerTypes ==
    /\ Listener!TypeOK
    /\ op \in [Listener!Callers -> OpTypes]
    /\ spawned \in 0..MaxSpawns
LockHeld ==
    /\ op["send"].at \in {"idle", "token"} /\ op["shutdown"].at \in {"idle", "wait", "stop"}
    /\ \A c \in Listener!Callers : op[c].at = "token" => op[c].asked # None
    /\ \A c \in Restarters : op[c].at \in Inside => lock = c
HandleKept ==
    /\ \A c \in Restarters : op[c].at \in Inside \ {"settle"} => listener = None
    /\ \A c \in Listener!Starters : op[c].at \in Inside \ {"stop"} => address
    /\ listener # None => address /\ accepts
    /\ service = "down" => listener = None /\ \A c \in Listener!Callers : op[c].at = "idle"
FewWorkers ==
    /\ \A c \in Listener!Starters : op[c].at = "spawn" => DOMAIN workers = {}
    /\ \A v, w \in DOMAIN workers : v = w
SaveFollowed ==
    service = "up" /\ listener # None /\ Listener!Running(listener) /\ workers[listener] # creds =>
        op["settings"].at = "wait"
ListenerInv == ListenerTypes /\ LockHeld /\ HandleKept /\ FewWorkers /\ SaveFollowed

\* A caller moves alone.
LEMMA ListenerAt ==
    ASSUME op \in [Listener!Callers -> OpTypes], NEW c \in Listener!Callers,
           NEW x \in Inside \cup {"idle", "wait"}, Listener!At(c, x)
    PROVE  /\ op' \in [Listener!Callers -> OpTypes]
           /\ op'[c].at = x /\ op'[c].asked = op[c].asked
           /\ \A d \in Listener!Callers \ {c} : op'[d] = op[d]
BY DEF Listener!At, OpTypes

\* A caller at rest has the type of one.
LEMMA ListenerIdle == Listener!Idle \in OpTypes
BY DEF Listener!Idle, OpTypes

\* Every step keeps the invariant of the listener.
LEMMA ListenerStep == ListenerInv /\ Listener!Next => ListenerInv'
<1> USE ListenerAssumption
    DEF ListenerTypes, LockHeld, HandleKept, FewWorkers, SaveFollowed,
        Inside, Restarters, Listener!TypeOK, Listener!Callers, Listener!Starters,
        Listener!Running, Listener!Idle, Listener!Done, Listener!Without,
        Listener!Same, Listener!World
<1> SUFFICES ASSUME ListenerInv, Listener!Next PROVE ListenerInv'
  OBVIOUS
<1>a. ListenerTypes /\ LockHeld /\ HandleKept /\ FewWorkers /\ SaveFollowed
  BY DEF ListenerInv
<1>1. ASSUME NEW c \in Restarters, Listener!Acquire(c) PROVE ListenerInv'
  <2>1. ListenerTypes'  BY <1>a, <1>1 DEF Listener!Acquire, OpTypes
  <2>2. LockHeld'  BY <1>a, <1>1 DEF Listener!Acquire
  <2>3. HandleKept'  BY <1>a, <1>1 DEF Listener!Acquire
  <2>4. FewWorkers'  BY <1>a, <1>1 DEF Listener!Acquire
  <2>5. SaveFollowed'  BY <1>a, <1>1 DEF Listener!Acquire
  <2> QED BY <2>1, <2>2, <2>3, <2>4, <2>5 DEF ListenerInv
<1>2. ASSUME NEW c \in Restarters, Listener!Terminated(c) PROVE ListenerInv'
  <2> USE <1>a, <1>2 DEF Listener!Terminated, Listener!Configured
  <2> DEFINE next == IF lock' = None THEN Listener!Idle
                    ELSE IF token # None THEN [Listener!Idle EXCEPT !.at = "reap"]
                    ELSE [Listener!Idle EXCEPT !.at = "token", !.asked = creds]
  <2>1. /\ op' = [op EXCEPT ![c] = next]
        /\ lock' = None \/ (lock' = lock /\ c \in Listener!Starters)
        /\ lock = c
    OBVIOUS
  <2>2. next.at \in {"idle", "reap", "token"} /\ (next.at = "token" => next.asked \in 0..MaxSaves)
        /\ (next.at # "idle" => lock' = lock /\ c \in Listener!Starters)
    BY <2>1
  <2>3. next \in [at : Inside \cup {"idle", "wait"}, old : 1..MaxSpawns \cup {None}, asked : 0..MaxSaves \cup {None}]
    OBVIOUS
  <2> HIDE DEF next
  <2>4. ListenerTypes'  BY <2>1, <2>2, <2>3 DEF OpTypes
  <2>5. LockHeld'  BY <2>1, <2>2
  <2>6. HandleKept'  BY <2>1, <2>2
  <2>7. FewWorkers'  BY <2>1, <2>2
  <2>8. SaveFollowed'  BY <2>1, <2>2
  <2> QED BY <2>4, <2>5, <2>6, <2>7, <2>8 DEF ListenerInv
<1>3. ASSUME NEW c \in Listener!Starters \cup {"send"}, Listener!TokenArrives(c) PROVE ListenerInv'
  <2>1. ListenerTypes'  BY <1>a, <1>3, ListenerAt DEF Listener!TokenArrives, OpTypes
  <2>2. LockHeld'  BY <1>a, <1>3, ListenerAt DEF Listener!TokenArrives
  <2>3. HandleKept'  BY <1>a, <1>3, ListenerAt DEF Listener!TokenArrives
  <2>4. FewWorkers'  BY <1>a, <1>3, ListenerAt DEF Listener!TokenArrives
  <2>5. SaveFollowed'  BY <1>a, <1>3, ListenerAt DEF Listener!TokenArrives
  <2> QED BY <2>1, <2>2, <2>3, <2>4, <2>5 DEF ListenerInv
<1>4. ASSUME NEW c \in Listener!Starters \cup {"send"}, Listener!TokenRefused(c) PROVE ListenerInv'
  <2>1. ListenerTypes'  BY <1>a, <1>4 DEF Listener!TokenRefused, OpTypes
  <2>2. LockHeld'  BY <1>a, <1>4 DEF Listener!TokenRefused
  <2>3. HandleKept'  BY <1>a, <1>4 DEF Listener!TokenRefused
  <2>4. FewWorkers'  BY <1>a, <1>4 DEF Listener!TokenRefused
  <2>5. SaveFollowed'  BY <1>a, <1>4 DEF Listener!TokenRefused
  <2> QED BY <2>1, <2>2, <2>3, <2>4, <2>5 DEF ListenerInv
<1>5. ASSUME NEW c \in Listener!Starters, Listener!Reap(c) PROVE ListenerInv'
  <2>1. ListenerTypes'  BY <1>a, <1>5, ListenerAt DEF Listener!Reap, Listener!Reaped, OpTypes
  <2>2. LockHeld'  BY <1>a, <1>5, ListenerAt DEF Listener!Reap, Listener!Reaped
  <2>3. HandleKept'  BY <1>a, <1>5, ListenerAt DEF Listener!Reap, Listener!Reaped
  <2>4. FewWorkers'  BY <1>a, <1>5, ListenerAt DEF Listener!Reap, Listener!Reaped
  <2>5. SaveFollowed'  BY <1>a, <1>5, ListenerAt DEF Listener!Reap, Listener!Reaped
  <2> QED BY <2>1, <2>2, <2>3, <2>4, <2>5 DEF ListenerInv
<1>6. ASSUME NEW c \in Listener!Starters, Listener!Spawn(c) PROVE ListenerInv'
  <2>1. /\ op' \in [Listener!Callers -> OpTypes]
        /\ op'[c].at = "settle" /\ \A d \in Listener!Callers \ {c} : op'[d] = op[d]
        /\ op[c].at = "spawn" /\ lock = c
    BY <1>a, <1>6, ListenerAt DEF Listener!Spawn
  <2>2. ListenerTypes'  BY <1>a, <1>6, <2>1 DEF Listener!Spawn
  <2>3. LockHeld'  BY <1>a, <1>6, <2>1 DEF Listener!Spawn
  <2>4. HandleKept'  BY <1>a, <1>6, <2>1 DEF Listener!Spawn
  <2>5. FewWorkers'  BY <1>a, <1>6, <2>1 DEF Listener!Spawn
  <2>6. SaveFollowed'  BY <1>a, <1>6, <2>1 DEF Listener!Spawn
  <2> QED BY <2>2, <2>3, <2>4, <2>5, <2>6 DEF ListenerInv
<1>7. ASSUME NEW c \in Listener!Starters, Listener!SpawnFails(c) PROVE ListenerInv'
  <2>1. ListenerTypes'  BY <1>a, <1>7 DEF Listener!SpawnFails, OpTypes
  <2>2. LockHeld'  BY <1>a, <1>7 DEF Listener!SpawnFails
  <2>3. HandleKept'  BY <1>a, <1>7 DEF Listener!SpawnFails
  <2>4. FewWorkers'  BY <1>a, <1>7 DEF Listener!SpawnFails
  <2>5. SaveFollowed'  BY <1>a, <1>7 DEF Listener!SpawnFails
  <2> QED BY <2>1, <2>2, <2>3, <2>4, <2>5 DEF ListenerInv
<1>8. ASSUME NEW c \in Listener!Starters, Listener!Settle(c) PROVE ListenerInv'
  <2>1. ListenerTypes'  BY <1>a, <1>8 DEF Listener!Settle, OpTypes
  <2>2. LockHeld'  BY <1>a, <1>8 DEF Listener!Settle
  <2>3. HandleKept'  BY <1>a, <1>8 DEF Listener!Settle
  <2>4. FewWorkers'  BY <1>a, <1>8 DEF Listener!Settle
  <2>5. SaveFollowed'  BY <1>a, <1>8 DEF Listener!Settle
  <2> QED BY <2>1, <2>2, <2>3, <2>4, <2>5 DEF ListenerInv
<1>9. CASE Listener!Send
  <2>1. ListenerTypes'  BY <1>a, <1>9 DEF Listener!Send, OpTypes
  <2>2. LockHeld'  BY <1>a, <1>9 DEF Listener!Send
  <2>3. HandleKept'  BY <1>a, <1>9 DEF Listener!Send
  <2>4. FewWorkers'  BY <1>a, <1>9 DEF Listener!Send
  <2>5. SaveFollowed'  BY <1>a, <1>9 DEF Listener!Send
  <2> QED BY <2>1, <2>2, <2>3, <2>4, <2>5 DEF ListenerInv
<1>10. CASE Listener!TokenDropped
  BY <1>a, <1>10 DEF Listener!TokenDropped, ListenerInv, OpTypes
<1>11. ASSUME Listener!SaveSettings PROVE ListenerInv'
  <2>1. ListenerTypes'  BY <1>a, <1>11 DEF Listener!SaveSettings, Listener!Activation, OpTypes
  <2>2. LockHeld'  BY <1>a, <1>11 DEF Listener!SaveSettings, Listener!Activation
  <2>3. HandleKept'  BY <1>a, <1>11 DEF Listener!SaveSettings, Listener!Activation
  <2>4. FewWorkers'  BY <1>a, <1>11 DEF Listener!SaveSettings, Listener!Activation
  <2>5. SaveFollowed'  BY <1>a, <1>11 DEF Listener!SaveSettings, Listener!Activation
  <2> QED BY <2>1, <2>2, <2>3, <2>4, <2>5 DEF ListenerInv
<1>12. ASSUME Listener!Check PROVE ListenerInv'
  <2>1. ListenerTypes'  BY <1>a, <1>12, ListenerAt DEF Listener!Check, OpTypes
  <2>2. LockHeld'  BY <1>a, <1>12, ListenerAt DEF Listener!Check
  <2>3. HandleKept'  BY <1>a, <1>12, ListenerAt DEF Listener!Check
  <2>4. FewWorkers'  BY <1>a, <1>12, ListenerAt DEF Listener!Check
  <2>5. SaveFollowed'  BY <1>a, <1>12, ListenerAt DEF Listener!Check
  <2> QED BY <2>1, <2>2, <2>3, <2>4, <2>5 DEF ListenerInv
<1>13. CASE Listener!Begin
  BY <1>a, <1>13 DEF Listener!Begin, ListenerInv, OpTypes
<1>14. ASSUME Listener!Shutdown PROVE ListenerInv'
  <2>1. ListenerTypes'  BY <1>a, <1>14 DEF Listener!Shutdown, Listener!Reaped, OpTypes
  <2>2. LockHeld'  BY <1>a, <1>14 DEF Listener!Shutdown, Listener!Reaped
  <2>3. HandleKept'  BY <1>a, <1>14 DEF Listener!Shutdown, Listener!Reaped
  <2>4. FewWorkers'  BY <1>a, <1>14 DEF Listener!Shutdown, Listener!Reaped
  <2>5. SaveFollowed'  BY <1>a, <1>14 DEF Listener!Shutdown, Listener!Reaped
  <2> QED BY <2>1, <2>2, <2>3, <2>4, <2>5 DEF ListenerInv
<1>15. CASE Listener!Stopped
  <2>1. ListenerTypes'
    <3>1. op' \in [Listener!Callers -> OpTypes]
      BY <1>a, <1>15, ListenerIdle DEF Listener!Stopped, Listener!Gone
    <3>2. \A c \in Listener!Callers : op'[c] = Listener!Idle
      BY <1>15 DEF Listener!Stopped, Listener!Gone
    <3>3. Listener!TypeOK'
      <4>1. checks' \in 0..Threshold
        BY <1>a, <1>15 DEF Listener!Stopped, Listener!Gone
      <4>2. creds' \in 0..MaxSaves /\ DOMAIN workers' \subseteq 1..MaxSpawns
        BY <1>a, <1>15 DEF Listener!Stopped, Listener!Gone
      <4>3. /\ service' \in {"down", "up", "stopping"} /\ address' \in BOOLEAN
            /\ token' = None /\ lock' = None /\ listener' = None /\ accepts' \in BOOLEAN
        BY <1>a, <1>15 DEF Listener!Stopped, Listener!Gone
      <4> QED BY <4>1, <4>2, <4>3, <3>2
    <3> QED BY <1>a, <1>15, <3>1, <3>3 DEF Listener!Stopped, Listener!Gone
  <2>2. LockHeld'  BY <1>a, <1>15 DEF Listener!Stopped, Listener!Gone
  <2>3. HandleKept'  BY <1>a, <1>15 DEF Listener!Stopped, Listener!Gone
  <2>4. FewWorkers'  BY <1>a, <1>15 DEF Listener!Stopped, Listener!Gone
  <2>5. SaveFollowed'  BY <1>a, <1>15 DEF Listener!Stopped, Listener!Gone
  <2> QED BY <2>1, <2>2, <2>3, <2>4, <2>5 DEF ListenerInv
<1>16. CASE Listener!Crash
  <2>1. ListenerTypes'
    <3>1. op' \in [Listener!Callers -> OpTypes]
      BY <1>a, <1>16, ListenerIdle DEF Listener!Crash, Listener!Gone
    <3>2. \A c \in Listener!Callers : op'[c] = Listener!Idle
      BY <1>16 DEF Listener!Crash, Listener!Gone
    <3>3. Listener!TypeOK'
      <4>1. checks' \in 0..Threshold
        BY <1>a, <1>16 DEF Listener!Crash, Listener!Gone
      <4>2. creds' \in 0..MaxSaves /\ DOMAIN workers' \subseteq 1..MaxSpawns
        BY <1>a, <1>16 DEF Listener!Crash, Listener!Gone
      <4>3. /\ service' \in {"down", "up", "stopping"} /\ address' \in BOOLEAN
            /\ token' = None /\ lock' = None /\ listener' = None /\ accepts' \in BOOLEAN
        BY <1>a, <1>16 DEF Listener!Crash, Listener!Gone
      <4> QED BY <4>1, <4>2, <4>3, <3>2
    <3> QED BY <1>a, <1>16, <3>1, <3>3 DEF Listener!Crash, Listener!Gone
  <2>2. LockHeld'  BY <1>a, <1>16 DEF Listener!Crash, Listener!Gone
  <2>3. HandleKept'  BY <1>a, <1>16 DEF Listener!Crash, Listener!Gone
  <2>4. FewWorkers'  BY <1>a, <1>16 DEF Listener!Crash, Listener!Gone
  <2>5. SaveFollowed'  BY <1>a, <1>16 DEF Listener!Crash, Listener!Gone
  <2> QED BY <2>1, <2>2, <2>3, <2>4, <2>5 DEF ListenerInv
<1>17. ASSUME NEW w \in DOMAIN workers, Listener!Dies(w) PROVE ListenerInv'
  BY <1>a, <1>17 DEF Listener!Dies, ListenerInv, OpTypes
<1>18. ASSUME NEW w \in DOMAIN workers, NEW s \in {"connected", "callback_error"}, Listener!Reports(w, s) PROVE ListenerInv'
  BY <1>a, <1>18 DEF Listener!Reports, ListenerInv, OpTypes
<1>19. CASE Listener!GoesStale
  BY <1>a, <1>19 DEF Listener!GoesStale, ListenerInv, OpTypes
<1> QED BY <1>1, <1>2, <1>3, <1>4, <1>5, <1>6, <1>7, <1>8, <1>9, <1>10, <1>11, <1>12, <1>13, <1>14, <1>15, <1>16, <1>17, <1>18, <1>19 DEF Listener!Next

\* The invariant of the listener before the service starts.
LEMMA ListenerStart == Listener!Init => ListenerInv
<1> USE ListenerAssumption DEF Inside, Restarters, Listener!Callers, Listener!Starters
<1> SUFFICES ASSUME Listener!Init PROVE ListenerInv
  OBVIOUS
<1>1. /\ op \in [Listener!Callers -> OpTypes]
      /\ \A c \in Listener!Callers : op[c].at = "idle"
  BY ListenerIdle DEF Listener!Init, Listener!Idle
<1>2. creds \in 0..MaxSaves /\ checks \in 0..Threshold /\ spawned \in 0..MaxSpawns
  BY DEF Listener!Init
<1>3. ListenerTypes
  BY <1>1, <1>2 DEF Listener!Init, ListenerTypes, Listener!TypeOK
<1> QED
  BY <1>1, <1>3 DEF Listener!Init, ListenerInv, LockHeld, HandleKept, FewWorkers, SaveFollowed

\* The instance counts as FiniteSets does.
LEMMA ListenerCardinality == ASSUME NEW S PROVE Listener!Cardinality(S) = Cardinality(S)
BY DEF Listener!Cardinality, Cardinality, Listener!IsFiniteSet, IsFiniteSet

\* No two workers is at most one.
LEMMA FewWorkersIsOne == ListenerTypes /\ FewWorkers => Listener!OneWorker
<1> SUFFICES ASSUME ListenerTypes, FewWorkers PROVE Cardinality(DOMAIN workers) <= 1
  BY ListenerCardinality DEF Listener!OneWorker
<1>1. CASE DOMAIN workers = {}
  BY <1>1, FS_EmptySet
<1>2. ASSUME NEW w \in DOMAIN workers PROVE Cardinality(DOMAIN workers) <= 1
  <2>1. DOMAIN workers = {w}
    BY <1>2 DEF FewWorkers
  <2>2. Cardinality({w}) = 1
    BY FS_Singleton
  <2> QED BY <2>1, <2>2
<1> QED BY <1>1, <1>2

\* ListenerIsOurs: whoever starts, restarts or shuts the listener down, and however often
\* its worker dies, at most one worker receives events, and the one that runs has the
\* stored credentials unless the save of newer ones is waiting for the lock.
THEOREM ListenerHolds == ServicesSpec => []ListenerIsOurs
<1> DEFINE Inv == subject = "worker" => ListenerInv
<1>1. ServicesInit => Inv
  BY ListenerStart DEF ServicesInit
<1>2. Inv /\ [ServicesNext]_allVars => Inv'
  <2> SUFFICES ASSUME Inv, [ServicesNext]_allVars, subject' = "worker" PROVE ListenerInv'
    OBVIOUS
  <2>1. CASE UNCHANGED <<subject, worker>>
    BY <2>1 DEF worker, ListenerInv, ListenerTypes, LockHeld, HandleKept, FewWorkers, SaveFollowed,
        OpTypes, Listener!TypeOK, Listener!Running
  <2> QED BY <2>1, ListenerStep DEF ServicesNext, allVars
<1>3. Inv => ListenerIsOurs
  <2> SUFFICES ASSUME subject = "worker", ListenerInv
               PROVE Listener!TypeOK /\ Listener!OneWorker /\ Listener!WorkerIsCurrent
    BY DEF ListenerIsOurs
  <2> QED BY FewWorkersIsOne DEF ListenerInv, ListenerTypes, HandleKept, SaveFollowed,
        Listener!WorkerIsCurrent, Listener!Starters
<1> QED BY <1>1, <1>2, <1>3, PTL DEF ServicesSpec
-----------------------------------------------------------------------------
(* The phone (MobileBridge).  A command that waits is in the table of the  *)
(* commands, and what was answered to a pairing or revocation is on the    *)
(* disk: by cases on the fault that a write meets.                         *)

\* A connection is entered while a call waits for it, and a revocation that was
\* answered has taken the record away.
PhoneInv ==
    /\ Phone!TypeOK /\ registered \in Sockets \cup {None}
    /\ Phone!CommandCanBeWoken /\ Phone!AnswerIsDurable
    /\ answered = "revoked" => ~paired

PhoneTypes ==
    [place : {"new", "sending", "waiting", "over"},
     socket : Sockets \cup {None}, future : {"pending", "result", "lost"}]

\* Whoever takes a connection out fails the calls that wait: none stays pending.
LEMMA PhoneLost ==
    ASSUME commands \in [Commands -> PhoneTypes]
    PROVE  /\ Phone!Lost \in [Commands -> PhoneTypes]
           /\ \A c \in Commands : Phone!Lost[c].place \in {"sending", "waiting"} => Phone!Lost[c].future # "pending"
BY DEF Phone!Lost, PhoneTypes

\* What the two files may hold after a request wrote them, or one of them.
LEMMA PhoneOutcomes ==
    ASSUME NEW v, NEW m
    PROVE  /\ \A o \in Phone!SaveBoth(v, m) :
                 /\ o.vault \in {v, disk.vault} /\ o.meta \in {m, disk.meta}
                 /\ o.at = "done" => o.vault = v /\ o.meta = m
           /\ \A o \in Phone!SaveMeta(m) :
                 /\ o.vault = disk.vault /\ o.meta \in {m, disk.meta}
                 /\ o.at = "done" => o.meta = m
BY DEF Phone!SaveBoth, Phone!SaveMeta, Phone!Outcome

\* A command that goes on without a new answer changes nothing else.
LEMMA PhoneMoves ==
    ASSUME PhoneInv, NEW c \in Commands, NEW p \in {"waiting", "over"}, Phone!Moves(c, p),
           commands[c].place \in {"sending", "waiting"}
    PROVE  PhoneInv'
<1> USE PhoneAssumption DEF PhoneInv, Phone!TypeOK, Phone!Keys, PhoneTypes
<1>1. /\ commands' \in [Commands -> PhoneTypes]
      /\ commands'[c].future = commands[c].future
      /\ \A d \in Commands \ {c} : commands'[d] = commands[d]
  BY DEF Phone!Moves
<1> QED BY <1>1 DEF Phone!Moves, Phone!Quiet, Phone!memory, Phone!CommandCanBeWoken, Phone!AnswerIsDurable

\* Every step keeps the invariant of the phone.
LEMMA PhoneStep == PhoneInv /\ Phone!Next => PhoneInv'
<1> SUFFICES ASSUME PhoneInv, Phone!Next PROVE PhoneInv'
  OBVIOUS
<1> USE PhoneAssumption
    DEF Phone!TypeOK, Phone!Keys, Phone!memory, Phone!live, Phone!Quiet,
        Phone!CommandCanBeWoken, Phone!AnswerIsDurable, Phone!Place
<1>1. ASSUME NEW k \in Phone!Keys, Phone!Pair(k) PROVE PhoneInv'
  <2>1. PICK o \in Phone!SaveBoth(k, TRUE) : Phone!Pair(k)!(o)
    BY <1>1 DEF Phone!Pair
  <2>2. /\ o.vault \in {k, disk.vault} /\ o.meta \in {TRUE, disk.meta}
        /\ o.at = "done" => o.vault = k /\ o.meta = TRUE
    BY PhoneOutcomes
  <2>3. disk' = [vault |-> o.vault, meta |-> o.meta]
    BY <2>1 DEF Phone!Write
  <2>4. disk' \in [vault : Phone!Keys \cup {None}, meta : BOOLEAN]
    BY <2>2, <2>3 DEF PhoneInv
  <2>5. /\ key' \in Phone!Keys \cup {None} /\ paired' \in BOOLEAN /\ offers' \subseteq Phone!Keys
        /\ answered' \in {"none", "paired"} /\ UNCHANGED Phone!live
    BY <2>1 DEF PhoneInv
  <2>6. (answered' = "paired" => o.at = "done") /\ (o.at = "done" => key' = k)
    BY <2>1
  <2> QED BY <2>1, <2>2, <2>3, <2>4, <2>5, <2>6 DEF PhoneInv
<1>2. ASSUME NEW k \in Phone!Keys, Phone!OfferExpires(k) PROVE PhoneInv'
  BY <1>2 DEF Phone!OfferExpires, PhoneInv
<1>3. ASSUME Phone!Revoke PROVE PhoneInv'
  <2>1. PICK o \in IF key = None THEN Phone!SaveMeta(FALSE) ELSE Phone!SaveBoth(None, FALSE) :
          /\ Phone!Write(o)
          /\ IF o.at = "done"
             THEN /\ paired' = FALSE /\ key' = None /\ answered' = "revoked"
                  /\ commands' = Phone!Lost /\ registered' = None
             ELSE answered' = "none" /\ UNCHANGED <<paired, key, commands, registered>>
    BY <1>3 DEF Phone!Revoke
  <2>2. /\ o.vault \in {None, disk.vault} /\ o.meta \in {FALSE, disk.meta}
        /\ o.at = "done" => ~o.meta
    BY PhoneOutcomes
  <2>3. UNCHANGED <<offers, sockets>>
    BY <1>3 DEF Phone!Revoke
  <2>4. disk' \in [vault : Phone!Keys \cup {None}, meta : BOOLEAN]
    BY <2>1, <2>2 DEF Phone!Write, PhoneInv
  <2> QED BY <2>1, <2>2, <2>3, <2>4, PhoneLost DEF Phone!Write, PhoneInv, PhoneTypes
<1>4. ASSUME Phone!Restart PROVE PhoneInv'
  BY <1>4 DEF Phone!Restart, Phone!NoCommand, PhoneInv
<1>5. ASSUME NEW s \in Sockets, Phone!Connect(s) PROVE PhoneInv'
  BY <1>5 DEF Phone!Connect, PhoneInv
<1>6. ASSUME NEW s \in Sockets, Phone!Accepted(s) PROVE PhoneInv'
  BY <1>6, PhoneLost DEF Phone!Accepted, PhoneInv, PhoneTypes
<1>7. ASSUME NEW s \in Sockets, Phone!Register(s) PROVE PhoneInv'
  BY <1>7 DEF Phone!Register, PhoneInv
<1>8. ASSUME NEW s \in Sockets, Phone!Hello(s) PROVE PhoneInv'
  <2>1. PICK o \in Phone!SaveMeta(TRUE) : Phone!Hello(s)!(o)
    BY <1>8 DEF Phone!Hello
  <2>2. o.vault = disk.vault /\ o.meta \in {TRUE, disk.meta}
    BY PhoneOutcomes
  <2>3. disk' = [vault |-> o.vault, meta |-> o.meta]
    BY <2>1 DEF Phone!Write
  <2> QED BY <2>1, <2>2, <2>3, PhoneLost DEF PhoneInv, PhoneTypes
<1>9. ASSUME NEW s \in Sockets, Phone!Drop(s) PROVE PhoneInv'
  BY <1>9, PhoneLost DEF Phone!Drop, PhoneInv, PhoneTypes
<1>10. ASSUME NEW s \in Sockets, NEW c \in Commands, Phone!Result(s, c) PROVE PhoneInv'
  BY <1>10 DEF Phone!Result, PhoneInv
<1>11. ASSUME NEW c \in Commands, Phone!Send(c) PROVE PhoneInv'
  BY <1>11 DEF Phone!Send, PhoneInv
<1>12. ASSUME NEW c \in Commands, Phone!Sent(c) PROVE PhoneInv'
  BY <1>12, PhoneMoves DEF Phone!Sent
<1>13. ASSUME NEW c \in Commands, Phone!SendFails(c) PROVE PhoneInv'
  BY <1>13, PhoneMoves DEF Phone!SendFails
<1>14. ASSUME NEW c \in Commands, Phone!Return(c) PROVE PhoneInv'
  BY <1>14, PhoneMoves DEF Phone!Return
<1> QED BY <1>1, <1>2, <1>3, <1>4, <1>5, <1>6, <1>7, <1>8, <1>9, <1>10, <1>11, <1>12, <1>13, <1>14
  DEF Phone!Next

\* The invariant of the phone at first.
LEMMA PhoneStart == Phone!Init => PhoneInv
<1> SUFFICES ASSUME Phone!Init PROVE PhoneInv
  OBVIOUS
<1>1. commands \in [Commands -> PhoneTypes] /\ \A c \in Commands : commands[c].place = "new"
  BY DEF Phone!Init, Phone!NoCommand, PhoneTypes
<1> QED
  BY <1>1, PhoneAssumption
  DEF Phone!Init, PhoneInv, PhoneTypes, Phone!TypeOK, Phone!Keys, Phone!CommandCanBeWoken,
      Phone!AnswerIsDurable

\* PhoneIsTold: a command that waits is one that an answer or a lost connection wakes, and
\* a pairing or revocation that was answered is on the disk, whatever write failed before.
THEOREM PhoneHolds == ServicesSpec => []PhoneIsTold
<1> DEFINE Inv == subject = "phone" => PhoneInv
<1>1. ServicesInit => Inv
  BY PhoneStart DEF ServicesInit
<1>2. Inv /\ [ServicesNext]_allVars => Inv'
  <2> SUFFICES ASSUME Inv, [ServicesNext]_allVars, subject' = "phone" PROVE PhoneInv'
    OBVIOUS
  <2>1. CASE UNCHANGED <<subject, phone>>
    BY <2>1 DEF phone, PhoneInv, Phone!TypeOK, Phone!CommandCanBeWoken, Phone!AnswerIsDurable
  <2> QED BY <2>1, PhoneStep DEF ServicesNext, allVars
<1>3. Inv => PhoneIsTold
  BY DEF PhoneIsTold, PhoneInv
<1> QED BY <1>1, <1>2, <1>3, PTL DEF ServicesSpec
-----------------------------------------------------------------------------
(* Media generation (MediaGeneration).  Whom a call has asked and whom it  *)
(* has still in its list are together everyone it wants, and nobody is in  *)
(* the list whom the price list of the call does not show as free.         *)

Steps == {"idle", "lookup", "next", "check", "job", "stream", "catalog", "failed", "done"}
MediaCall ==
    [at : Steps, home : BOOLEAN, model : Named \cup {None}, todo : Seq(Media!Models), tried : SUBSET Media!Models, live : BOOLEAN,
     now : Media!Models \cup {None}, tmp : BOOLEAN, prices : Media!Catalogs, asked : SUBSET Media!Models]
MediaFiles == [finished : SUBSET MediaCalls, temporary : SUBSET MediaCalls, left : BOOLEAN]
Job == [call : MediaCalls, model : Media!Models, token : Nat, owned : BOOLEAN]

MediaTypes ==
    /\ jobs \subseteq Job /\ IsFiniteSet(jobs) /\ Cardinality(jobs) <= Workers
    /\ cooling \in [Media!Pools -> Nat \cup {None}] /\ catalog \in Media!Catalogs \cup {None}
    /\ statuses \in [Media!Known -> {"unknown", "up", "down"}] /\ settings \in [key : BOOLEAN, token : Nat]
    /\ files \in MediaFiles

\* Whom an automatic call still has to ask: whom it has asked, and its list, are everyone it wants.
Elements(s) == {s[i] : i \in 1..Len(s)}
Wanted(call) ==
    IF call.home THEN Media!Studios ELSE Media!Known \cup (IF call.live THEN Media!Free(call.prices) ELSE {})
AskedOrListed(call) ==
    /\ call.at = "catalog" => ~call.home /\ Media!Known \subseteq call.asked
    /\ call.at \in {"next", "check", "job", "stream", "failed"} => Wanted(call) \subseteq call.asked \cup Elements(call.todo)
    /\ call.at = "failed" => (call.live \/ call.home) /\ call.todo = <<>>
CallHolds(call) ==
    /\ call.tried \subseteq call.asked
    /\ Elements(call.todo) \subseteq Media!Known \cup Media!Free(call.prices)
    /\ call.home => call.asked \subseteq Media!Studios /\ Elements(call.todo) \subseteq Media!Studios
    /\ call.at \in {"check", "job", "stream"} => call.now # None
    /\ call.at = "lookup" => ~call.home /\ call.model # None
    /\ call.at = "catalog" => ~call.home /\ call.model = None
    /\ call.at # "idle" /\ call.model = None => AskedOrListed(call)
CallsHold == calls \in [MediaCalls -> MediaCall] /\ \A c \in MediaCalls : CallHolds(calls[c])
TemporaryHeld == \A c \in files.temporary : calls[c].at = "stream" /\ calls[c].tmp
MediaInv == MediaTypes /\ CallsHold /\ TemporaryHeld /\ Media!FreeOnly

\* The instance counts as FiniteSets does.
LEMMA MediaCardinality == \A S : Media!Cardinality(S) = Cardinality(S)
BY DEF Media!Cardinality, Cardinality, Media!IsFiniteSet, IsFiniteSet

\* The official models are a list of known ones.
LEMMA KnownModels == Official \in Seq(Media!Known) /\ None \notin Media!Models
<1>1. \A i \in 1..Len(Official) : Official[i] \in DOMAIN Pool
  BY MediaAssumption
<1>2. None \notin Media!Models
  BY <1>1, MediaAssumption DEF Media!Models, Media!Known
<1>3. Official \in [1..Len(Official) -> Media!Known] /\ Len(Official) \in Nat
  BY MediaAssumption DEF Media!Known
<1> QED BY <1>2, <1>3, IsASeq

\* The elements of a list are its head and those of its tail.
LEMMA ElementsTail ==
    ASSUME NEW S, NEW s \in Seq(S), s # <<>>
    PROVE  /\ Head(s) \in S /\ Head(s) \in Elements(s) /\ Tail(s) \in Seq(S)
           /\ Elements(s) = Elements(Tail(s)) \cup {Head(s)}
<1>1. Head(s) = s[1] /\ Tail(s) \in Seq(S) /\ Len(Tail(s)) = Len(s) - 1 /\ Len(s) \in Nat \ {0}
      /\ \A i \in 1..Len(Tail(s)) : Tail(s)[i] = s[i + 1]
  BY HeadTailProperties, EmptySeq
<1>2. Head(s) \in S /\ Head(s) \in Elements(s)
  BY <1>1 DEF Elements
<1>3. ASSUME NEW i \in 1..Len(s) PROVE s[i] \in Elements(Tail(s)) \cup {Head(s)}
  <2>1. CASE i = 1
    BY <1>1, <2>1
  <2>2. CASE i # 1
    <3>1. i - 1 \in 1..Len(Tail(s)) /\ Tail(s)[i - 1] = s[i]
      BY <1>1, <2>2
    <3> QED BY <3>1 DEF Elements
  <2> QED BY <2>1, <2>2
<1>4. ASSUME NEW i \in 1..Len(Tail(s)) PROVE Tail(s)[i] \in Elements(s)
  BY <1>1 DEF Elements
<1> QED BY <1>1, <1>2, <1>3, <1>4 DEF Elements

\* The elements of a list of one.
LEMMA ElementsOne == \A m : Elements(<<m>>) = {m}
BY DEF Elements

\* The elements of no list.
LEMMA ElementsNone == Elements(<<>>) = {}
BY DEF Elements

\* A finite set made a list keeps its elements.
LEMMA FreeElements ==
    ASSUME NEW S, IsFiniteSet(S)
    PROVE  Media!SetToSeq(S) \in Seq(S) /\ Elements(Media!SetToSeq(S)) = S
<1> DEFINE n == Cardinality(S)
           s == Media!SetToSeq(S)
<1>1. n \in Nat /\ ExistsBijection(1..n, S)
  BY FS_CardinalityType
<1>2. PICK f \in [1..n -> S] : \A a, b \in 1..n : f[a] = f[b] => a = b
  BY <1>1 DEF ExistsBijection, Bijection, Injection, IsInjective
<1>3. f \in [1..n -> S] /\ Media!IsInjective(f)
  BY <1>2 DEF Media!IsInjective
<1>4. s = CHOOSE g \in [1..n -> S] : Media!IsInjective(g)
  BY MediaCardinality DEF Media!SetToSeq
<1> HIDE DEF s
<1>5. s \in [1..n -> S] /\ Media!IsInjective(s)
  BY <1>3, <1>4
<1>6. s \in Injection(1..n, S)
  BY <1>5 DEF Injection, IsInjective, Media!IsInjective
<1>7. IsFiniteSet(1..n) /\ Cardinality(1..n) = n
  BY <1>1, FS_Interval
<1>8. s \in Surjection(1..n, S)
  BY <1>6, <1>7, FS_Injection
<1>9. s \in Seq(S) /\ Len(s) = n
  BY <1>1, <1>5
<1>10. Elements(s) = S
  BY <1>5, <1>8, <1>9 DEF Surjection, Elements
<1> QED BY <1>9, <1>10 DEF s

\* An automatic call is offered the known models and the free ones of its prices.
LEMMA OfferedElements ==
    ASSUME NEW prices
    PROVE  /\ Media!Offered(prices) \in Seq(Media!Models)
           /\ Elements(Media!Offered(prices)) = Media!Known \cup Media!Free(prices)
<1> DEFINE free == Media!SetToSeq(Media!Free(prices))
<1>1. IsFiniteSet(Media!Free(prices)) /\ Media!Free(prices) \subseteq Media!Models
  BY MediaAssumption, FS_Subset DEF Media!Free, Media!Models
<1>2. free \in Seq(Media!Free(prices)) /\ Elements(free) = Media!Free(prices)
  BY <1>1, FreeElements
<1> HIDE DEF free
<1>3. free \in Seq(Media!Models) /\ Official \in Seq(Media!Models)
  BY <1>1, <1>2, KnownModels, MediaAssumption DEF Media!Models
<1>4. Official \o free \in Seq(Media!Models) /\ Len(Official \o free) = Len(Official) + Len(free)
      /\ \A i \in 1..(Len(Official) + Len(free)) :
             (Official \o free)[i] = IF i <= Len(Official) THEN Official[i] ELSE free[i - Len(Official)]
  BY <1>3, ConcatProperties
<1>5. Elements(Official) = Media!Known
  BY DEF Elements, Media!Known
<1>6. Elements(Official \o free) = Elements(Official) \cup Elements(free)
  <2>1. ASSUME NEW i \in 1..Len(Official \o free)
        PROVE  (Official \o free)[i] \in Elements(Official) \cup Elements(free)
    BY <1>3, <1>4 DEF Elements
  <2>2. ASSUME NEW i \in 1..Len(Official) PROVE Official[i] \in Elements(Official \o free)
    BY <1>3, <1>4 DEF Elements
  <2>3. ASSUME NEW i \in 1..Len(free) PROVE free[i] \in Elements(Official \o free)
    <3>1. i + Len(Official) \in 1..Len(Official \o free) /\ (Official \o free)[i + Len(Official)] = free[i]
      BY <1>3, <1>4
    <3> QED BY <3>1 DEF Elements
  <2> QED BY <2>1, <2>2, <2>3 DEF Elements
<1>7. Media!Offered(prices) = Official \o free
  BY DEF Media!Offered, free
<1> QED BY <1>2, <1>4, <1>5, <1>6, <1>7

\* A call begins with the known models, or in mainland China with the Studios among them.
LEMMA CandidateElements ==
    ASSUME NEW home \in BOOLEAN
    PROVE  /\ Media!Candidates(home) \in Seq(Media!Models)
           /\ Elements(Media!Candidates(home)) = IF home THEN Media!Studios ELSE Media!Known
<1>1. Media!Studios \subseteq Media!Known /\ Media!Known \subseteq Media!Models
  BY DEF Media!Studios, Media!Models
<1>2. IsFiniteSet(Media!Studios)
  <2> DEFINE f == [i \in 1..Len(Official) |-> Official[i]]
  <2>1. Len(Official) \in Nat /\ IsFiniteSet(1..Len(Official))
    BY MediaAssumption, FS_Interval
  <2>2. f \in Surjection(1..Len(Official), Media!Known)
    BY DEF Surjection, Media!Known
  <2>3. IsFiniteSet(Media!Known)
    BY <2>1, <2>2, FS_Surjection
  <2> QED BY <1>1, <2>3, FS_Subset
<1>3. CASE home
  <2>1. Media!Candidates(home) = Media!SetToSeq(Media!Studios)
    BY <1>3 DEF Media!Candidates
  <2>2. Media!SetToSeq(Media!Studios) \in Seq(Media!Studios)
        /\ Elements(Media!SetToSeq(Media!Studios)) = Media!Studios
    BY <1>2, FreeElements
  <2> DEFINE list == Media!SetToSeq(Media!Studios)
  <2> HIDE DEF list
  <2>3. list \in Seq(Media!Models)
    <3>1. list \in Seq(Media!Studios) /\ Media!Studios \subseteq Media!Models
      BY <1>1, <2>2 DEF list
    <3> QED BY <3>1
  <2> QED BY <1>3, <2>1, <2>2, <2>3 DEF list
<1>4. CASE ~home
  <2>1. Media!Candidates(home) = Official
    BY <1>4 DEF Media!Candidates
  <2>2. Official \in Seq(Media!Models) /\ Elements(Official) = Media!Known
    BY <1>1, KnownModels DEF Elements, Media!Known
  <2> QED BY <1>4, <2>1, <2>2
<1> QED BY <1>3, <1>4

\* A call that has not begun.
LEMMA IdleHolds == Media!Idle \in MediaCall /\ CallHolds(Media!Idle)
<1>1. Media!NoCatalog \in Media!Catalogs
  BY DEF Media!NoCatalog, Media!Catalogs
<1>2. <<>> \in Seq(Media!Models)
  BY EmptySeq
<1> QED BY <1>1, <1>2, ElementsNone DEF Media!Idle, MediaCall, Steps, CallHolds

\* A step of one call.
LEMMA CallMoves ==
    ASSUME CallsHold, NEW c \in MediaCalls, NEW next \in MediaCall, CallHolds(next),
           calls' = [calls EXCEPT ![c] = next]
    PROVE  CallsHold' /\ calls'[c] = next /\ \A d \in MediaCalls \ {c} : calls'[d] = calls[d]
BY DEF CallsHold

\* An automatic call under way has asked, or has in its list, everyone it wants.
LEMMA CallAskedOrListed ==
    ASSUME NEW call \in MediaCall, CallHolds(call), call.at # "idle", call.model = None
    PROVE  AskedOrListed(call)
BY DEF CallHolds

\* A call that loses its provider goes on with the next, or has failed.
LEMMA FailureMoves ==
    ASSUME MediaTypes, CallsHold, NEW c \in MediaCalls, calls[c].at \in {"check", "job", "stream"},
           NEW capacity \in BOOLEAN, NEW cause \in Nat, Media!Failure(c, capacity, cause)
    PROVE  /\ CallsHold' /\ calls'[c].at \in {"next", "failed"}
           /\ (\A d \in MediaCalls \ {c} : calls'[d] = calls[d])
           /\ cooling' \in [Media!Pools -> Nat \cup {None}]
<1> DEFINE next == [calls[c] EXCEPT !.now = None, !.tmp = FALSE, !.at = IF calls[c].model = None THEN "next" ELSE "failed"]
<1>1. calls' = [calls EXCEPT ![c] = next]
  BY DEF Media!Failure
<1>2. calls[c] \in MediaCall /\ CallHolds(calls[c])
  BY DEF CallsHold
<1>3. next \in MediaCall /\ next.at \in {"next", "failed"}
  BY <1>2 DEF MediaCall, Steps
<1>4. CallHolds(next)
  BY <1>2 DEF MediaCall, CallHolds, AskedOrListed, Wanted
<1> HIDE DEF next
<1>5. CallsHold' /\ calls'[c] = next /\ \A d \in MediaCalls \ {c} : calls'[d] = calls[d]
  BY <1>1, <1>3, <1>4, CallMoves
<1>6. cooling' \in [Media!Pools -> Nat \cup {None}]
  BY DEF Media!Failure, MediaTypes
<1> QED BY <1>3, <1>5, <1>6

\* A call with an answer is done and has no temporary file.
LEMMA SuccessMoves ==
    ASSUME CallsHold, NEW c \in MediaCalls, calls[c].at # "idle", Media!Success(c)
    PROVE  /\ CallsHold' /\ calls'[c].at = "done"
           /\ (\A d \in MediaCalls \ {c} : calls'[d] = calls[d])
           /\ UNCHANGED cooling
<1> DEFINE next == [calls[c] EXCEPT !.at = "done", !.tmp = FALSE, !.now = None]
<1>1. calls' = [calls EXCEPT ![c] = next] /\ UNCHANGED cooling
  BY DEF Media!Success
<1>2. calls[c] \in MediaCall /\ CallHolds(calls[c])
  BY DEF CallsHold
<1>3. next \in MediaCall /\ next.at = "done"
  BY <1>2 DEF MediaCall, Steps
<1>4. CallHolds(next)
  BY <1>2 DEF MediaCall, CallHolds, AskedOrListed, Wanted
<1> HIDE DEF next
<1> QED BY <1>1, <1>3, <1>4, CallMoves

\* Jobs that end leave no more than there were.
LEMMA FewerJobs ==
    ASSUME MediaTypes, jobs' \subseteq jobs
    PROVE  jobs' \subseteq Job /\ IsFiniteSet(jobs') /\ Cardinality(jobs') <= Workers
<1>1. IsFiniteSet(jobs') /\ Cardinality(jobs') <= Cardinality(jobs) /\ Cardinality(jobs) \in Nat /\ Cardinality(jobs') \in Nat
  BY FS_Subset, FS_CardinalityType DEF MediaTypes
<1> QED BY <1>1, MediaAssumption DEF MediaTypes

\* Neither do jobs whose call has gone.
LEMMA DisownedJobs ==
    ASSUME MediaTypes, NEW c, jobs' = {[j EXCEPT !.owned = @ /\ j.call # c] : j \in jobs}
    PROVE  jobs' \subseteq Job /\ IsFiniteSet(jobs') /\ Cardinality(jobs') <= Workers
<1> DEFINE after(j) == [j EXCEPT !.owned = @ /\ j.call # c]
           f == [j \in jobs |-> after(j)]
<1>1. f \in Surjection(jobs, jobs')
  BY DEF Surjection
<1>2. IsFiniteSet(jobs') /\ Cardinality(jobs') <= Cardinality(jobs) /\ Cardinality(jobs) \in Nat /\ Cardinality(jobs') \in Nat
  BY <1>1, FS_Surjection, FS_CardinalityType DEF MediaTypes
<1>3. jobs' \subseteq Job
  <2>1. ASSUME NEW j \in jobs PROVE after(j) \in Job
    <3>1. j \in Job
      BY DEF MediaTypes
    <3>2. (j.owned /\ j.call # c) \in BOOLEAN
      OBVIOUS
    <3> QED BY <3>1, <3>2 DEF Job
  <2> QED BY <2>1
<1> QED BY <1>2, <1>3, MediaAssumption DEF MediaTypes

\* Every step keeps the invariant of the media calls.
LEMMA MediaStep == MediaInv /\ Media!Next => MediaInv'
<1> SUFFICES ASSUME MediaInv, Media!Next PROVE MediaInv'
  OBVIOUS
<1>a. MediaTypes /\ CallsHold /\ TemporaryHeld /\ Media!FreeOnly
  BY DEF MediaInv
<1>b. ASSUME NEW c \in MediaCalls PROVE calls[c] \in MediaCall /\ CallHolds(calls[c])
  BY <1>a DEF CallsHold
<1>f. files \in [finished : SUBSET MediaCalls, temporary : SUBSET MediaCalls, left : BOOLEAN]
  BY <1>a DEF MediaTypes, MediaFiles
<1>1. ASSUME NEW c \in MediaCalls, NEW prices \in Media!Catalogs, Media!Fetch(c, prices) PROVE MediaInv'
  <2> DEFINE offered == Media!Offered(prices)
             found == {i \in 1..Len(offered) : offered[i] = calls[c].model}
             next == IF calls[c].at = "catalog" THEN [calls[c] EXCEPT !.at = "next", !.todo = offered, !.prices = prices]
                     ELSE IF found = {} THEN [calls[c] EXCEPT !.at = "failed"]
                     ELSE [calls[c] EXCEPT !.at = "next", !.todo = <<calls[c].model>>, !.prices = prices]
  <2>1. /\ calls' = [calls EXCEPT ![c] = next] /\ calls[c].at \in {"lookup", "catalog"}
        /\ catalog' \in {catalog, prices}
        /\ UNCHANGED <<jobs, cooling, statuses, settings, files, sent>>
    BY <1>1 DEF Media!Fetch
  <2>2. offered \in Seq(Media!Models) /\ Elements(offered) = Media!Known \cup Media!Free(prices)
    BY OfferedElements
  <2>3. next \in MediaCall /\ CallHolds(next)
    <3> HIDE DEF offered
    <3>1. CASE calls[c].at = "catalog"
      <4>1. next = [calls[c] EXCEPT !.at = "next", !.todo = offered, !.prices = prices]
        BY <3>1
      <4>2. next \in MediaCall
        <5> HIDE DEF next
        <5>1. calls[c] \in MediaCall /\ offered \in Seq(Media!Models)
          BY <1>b, <2>2
        <5> QED BY <4>1, <5>1 DEF MediaCall, Steps
      <4>3. /\ next.at = "next" /\ next.todo = offered /\ next.prices = prices
            /\ next.tried = calls[c].tried /\ next.asked = calls[c].asked /\ next.model = calls[c].model
        BY <1>b, <4>1 DEF MediaCall
      <4> HIDE DEF next
      <4>5. ~next.home
        BY <1>b, <3>1, <4>1 DEF MediaCall, CallHolds, next
      <4>4. CallHolds(next)
        BY <1>b, <2>2, <4>3, <4>5 DEF CallHolds, AskedOrListed, Wanted
      <4> QED BY <4>2, <4>4
    <3>2. CASE calls[c].at = "lookup" /\ found = {}
      <4>1. next = [calls[c] EXCEPT !.at = "failed"] /\ calls[c].model # None
        BY <1>b, <3>2 DEF CallHolds
      <4> QED BY <1>b, <4>1 DEF MediaCall, Steps, CallHolds
    <3>3. CASE calls[c].at = "lookup" /\ found # {}
      <4>1. /\ next = [calls[c] EXCEPT !.at = "next", !.todo = <<calls[c].model>>, !.prices = prices]
            /\ calls[c].model # None /\ ~calls[c].home
        BY <1>b, <3>3 DEF CallHolds
      <4>2. calls[c].model \in Media!Known \cup Media!Free(prices) /\ calls[c].model \in Media!Models
        BY <1>b, <2>2, <3>3 DEF Elements, Media!Models, Media!Free
      <4>3. Elements(<<calls[c].model>>) = {calls[c].model} /\ <<calls[c].model>> \in Seq(Media!Models)
        BY <4>2, ElementsOne
      <4>4. next \in MediaCall
        BY <1>b, <4>1, <4>3 DEF MediaCall, Steps
      <4>5. /\ next.at = "next" /\ next.todo = <<calls[c].model>> /\ next.prices = prices
            /\ next.tried = calls[c].tried /\ next.asked = calls[c].asked /\ next.model # None /\ ~next.home
        BY <1>b, <4>1 DEF MediaCall
      <4> HIDE DEF next
      <4>6. CallHolds(next)
        BY <1>b, <4>2, <4>3, <4>5 DEF CallHolds
      <4> QED BY <4>4, <4>6
    <3> QED BY <2>1, <3>1, <3>2, <3>3
  <2> HIDE DEF next
  <2>4. CallsHold' /\ calls'[c] = next /\ \A d \in MediaCalls \ {c} : calls'[d] = calls[d]
    BY <1>a, <2>1, <2>3, CallMoves
  <2>5. TemporaryHeld'
    BY <1>a, <1>f, <2>1, <2>4 DEF TemporaryHeld
  <2>6. MediaTypes' /\ Media!FreeOnly'
    BY <1>a, <2>1 DEF MediaTypes, Media!FreeOnly
  <2> QED BY <2>4, <2>5, <2>6 DEF MediaInv
<1>2. ASSUME NEW c \in MediaCalls, NEW model \in Named \cup {None}, NEW home \in BOOLEAN, Media!Generate(c, model, home)
      PROVE  MediaInv'
  <2> DEFINE list == Media!Candidates(home)
             known == {i \in 1..Len(list) : list[i] = model}
             todo == IF model = None THEN list ELSE IF known # {} THEN <<model>> ELSE <<>>
             at == IF model = None \/ known # {} THEN "next" ELSE IF home THEN "failed" ELSE "lookup"
             next == [Media!Idle EXCEPT !.model = model, !.home = home, !.at = at, !.todo = todo]
  <2>1. /\ calls' = [calls EXCEPT ![c] = next] /\ Media!Alone
        /\ UNCHANGED <<jobs, cooling, catalog, statuses, settings, files, sent>>
    BY <1>2 DEF Media!Generate
  <2>2. /\ todo \in Seq(Media!Models) /\ Elements(todo) \subseteq IF home THEN Media!Studios ELSE Media!Known
        /\ model = None => Elements(todo) = IF home THEN Media!Studios ELSE Media!Known
    <3>1. /\ list \in Seq(Media!Models) /\ Elements(list) = IF home THEN Media!Studios ELSE Media!Known
          /\ Media!Studios \subseteq Media!Known /\ Media!Known \subseteq Media!Models
      BY CandidateElements DEF Media!Studios, Media!Models
    <3> HIDE DEF list
    <3>2. CASE model # None /\ known # {}
      <4>1. model \in Elements(list) /\ todo = <<model>>
        BY <3>2 DEF Elements
      <4>2. model \in Media!Models /\ Elements(<<model>>) = {model}
        BY <3>1, <4>1, ElementsOne
      <4>3. <<model>> \in Seq(Media!Models)
        BY <4>2
      <4> QED BY <3>1, <3>2, <4>1, <4>2, <4>3
    <3>3. CASE model # None /\ known = {}
      BY <3>3, ElementsNone, EmptySeq
    <3> QED BY <3>1, <3>2, <3>3
  <2> HIDE DEF todo
  <2>5. at \in {"next", "failed", "lookup"} /\ (at # "next" => model # None) /\ (at = "lookup" => ~home)
    OBVIOUS
  <2> HIDE DEF at
  <2>3. next \in MediaCall /\ CallHolds(next)
    <3>1. Media!Idle \in MediaCall
      BY IdleHolds
    <3>2. next \in MediaCall
      BY <2>2, <2>5, <3>1 DEF MediaCall, Steps
    <3>3. Media!Studios \subseteq Media!Known
      BY DEF Media!Studios
    <3>4. /\ next.at = at /\ next.home = home /\ next.model = model /\ next.todo = todo /\ next.asked = {} /\ next.tried = {}
          /\ ~next.live
      BY DEF Media!Idle
    <3> HIDE DEF next
    <3> QED BY <2>2, <2>5, <3>2, <3>3, <3>4 DEF CallHolds, AskedOrListed, Wanted
  <2> HIDE DEF next
  <2>4. CallsHold' /\ calls'[c] = next /\ \A d \in MediaCalls \ {c} : calls'[d] = calls[d]
    BY <1>a, <2>1, <2>3, CallMoves
  <2>6. TemporaryHeld'
    BY <1>a, <1>f, <2>1, <2>4 DEF TemporaryHeld, Media!Alone, Media!At
  <2>7. MediaTypes' /\ Media!FreeOnly'
    BY <1>a, <2>1 DEF MediaTypes, Media!FreeOnly
  <2> QED BY <2>4, <2>6, <2>7 DEF MediaInv
<1>3. ASSUME NEW c \in MediaCalls, Media!Candidate(c) PROVE MediaInv'
  <2> DEFINE m == Head(calls[c].todo)
             call == [calls[c] EXCEPT !.todo = Tail(@), !.tried = Media!Tried(calls[c], m),
                                      !.asked = IF m \in calls[c].tried THEN @ ELSE @ \cup {m}]
             rest == Tail(calls[c].todo)
  <2>1. calls[c].at = "next" /\ calls[c].todo # <<>> /\ UNCHANGED <<jobs, cooling, catalog, statuses, settings>>
    BY <1>3 DEF Media!Candidate, Media!At
  <2>2. /\ m \in Media!Models /\ m \in Elements(calls[c].todo) /\ rest \in Seq(Media!Models)
        /\ Elements(calls[c].todo) = Elements(rest) \cup {m}
    BY <1>b, <2>1, ElementsTail DEF MediaCall
  <2>3. /\ call \in MediaCall /\ call.at = "next" /\ call.todo = rest /\ call.model = calls[c].model /\ call.prices = calls[c].prices
        /\ call.tried = calls[c].tried \cup {m} /\ call.asked = calls[c].asked \cup {m} /\ call.live = calls[c].live
        /\ call.home = calls[c].home
    <3>1. (IF m \in calls[c].tried THEN calls[c].asked ELSE calls[c].asked \cup {m}) = calls[c].asked \cup {m}
      BY <1>b DEF CallHolds
    <3> QED BY <1>b, <2>1, <2>2, <3>1 DEF MediaCall, Media!Tried
  <2>4. CallHolds(call)
    <3>1. AskedOrListed(calls[c]) \/ calls[c].model # None
      BY <1>b, <2>1 DEF CallHolds
    <3> HIDE DEF m, call, rest
    <3> QED BY <1>b, <2>1, <2>2, <2>3, <3>1 DEF CallHolds, AskedOrListed, Wanted
  <2>5. m \in Media!Known \/ m \in Media!Free(calls[c].prices)
    BY <1>b, <2>2 DEF CallHolds
  <2>6. CASE (calls' = [calls EXCEPT ![c] = call]) /\ UNCHANGED <<files, sent>>
    <3> HIDE DEF call
    <3>1. CallsHold' /\ calls'[c] = call /\ \A d \in MediaCalls \ {c} : calls'[d] = calls[d]
      BY <1>a, <2>3, <2>4, <2>6, CallMoves
    <3>2. TemporaryHeld'
      BY <1>a, <1>f, <2>1, <2>6, <3>1 DEF TemporaryHeld
    <3> QED BY <1>a, <2>1, <2>6, <3>1, <3>2 DEF MediaInv, MediaTypes, Media!FreeOnly
  <2>7. CASE (calls' = [calls EXCEPT ![c] = [call EXCEPT !.now = m, !.at = "check"]]) /\ UNCHANGED <<files, sent>>
    <3> DEFINE next == [call EXCEPT !.now = m, !.at = "check"]
    <3> HIDE DEF call, m
    <3>1. next \in MediaCall
      BY <2>2, <2>3 DEF MediaCall, Steps
    <3>2. CallHolds(next)
      BY <2>2, <2>3, <2>4, KnownModels DEF CallHolds, AskedOrListed, Wanted, MediaCall
    <3> HIDE DEF next
    <3>3. CallsHold' /\ calls'[c] = next /\ \A d \in MediaCalls \ {c} : calls'[d] = calls[d]
      BY <1>a, <2>7, <3>1, <3>2, CallMoves DEF next
    <3>4. TemporaryHeld'
      BY <1>a, <1>f, <2>1, <2>7, <3>3 DEF TemporaryHeld
    <3> QED BY <1>a, <2>1, <2>7, <3>3, <3>4 DEF MediaInv, MediaTypes, Media!FreeOnly
  <2>8. CASE (calls' = [calls EXCEPT ![c] = [call EXCEPT !.at = "failed"]]) /\ UNCHANGED <<files, sent>> /\ calls[c].model # None
    <3> DEFINE next == [call EXCEPT !.at = "failed"]
    <3> HIDE DEF call, m
    <3>1. next \in MediaCall
      BY <2>3 DEF MediaCall, Steps
    <3>2. CallHolds(next)
      BY <2>3, <2>4, <2>8 DEF CallHolds, MediaCall
    <3> HIDE DEF next
    <3>3. CallsHold' /\ calls'[c] = next /\ \A d \in MediaCalls \ {c} : calls'[d] = calls[d]
      BY <1>a, <2>8, <3>1, <3>2, CallMoves DEF next
    <3>4. TemporaryHeld'
      BY <1>a, <1>f, <2>1, <2>8, <3>3 DEF TemporaryHeld
    <3> QED BY <1>a, <2>1, <2>8, <3>3, <3>4 DEF MediaInv, MediaTypes, Media!FreeOnly
  <2>9. CASE /\ calls' = [calls EXCEPT ![c] = [call EXCEPT !.now = m, !.at = "stream", !.tmp = TRUE]]
             /\ files' = [files EXCEPT !.temporary = @ \cup {c}]
             /\ sent' = sent \cup {[model |-> m, price |-> call.prices[m]]} /\ m \notin Media!Known
    <3> DEFINE next == [call EXCEPT !.now = m, !.at = "stream", !.tmp = TRUE]
    <3>0. call.prices[m] = "free"
      BY <2>3, <2>5, <2>9 DEF Media!Free
    <3> HIDE DEF call, m
    <3>1. next \in MediaCall /\ next.at = "stream" /\ next.tmp
      BY <2>2, <2>3 DEF MediaCall, Steps
    <3>2. CallHolds(next)
      BY <2>2, <2>3, <2>4, KnownModels DEF CallHolds, AskedOrListed, Wanted, MediaCall
    <3> HIDE DEF next
    <3>3. CallsHold' /\ calls'[c] = next /\ \A d \in MediaCalls \ {c} : calls'[d] = calls[d]
      BY <1>a, <2>9, <3>1, <3>2, CallMoves DEF next
    <3>4. TemporaryHeld' /\ files' \in [finished : SUBSET MediaCalls, temporary : SUBSET MediaCalls, left : BOOLEAN]
      BY <1>a, <1>f, <2>1, <2>9, <3>1, <3>3 DEF TemporaryHeld
    <3>5. Media!FreeOnly'
      BY <1>a, <2>9, <3>0 DEF Media!FreeOnly
    <3> QED BY <1>a, <2>1, <2>9, <3>3, <3>4, <3>5 DEF MediaInv, MediaTypes, MediaFiles
  <2> QED BY <1>3, <2>3, <2>6, <2>7, <2>8, <2>9 DEF Media!Candidate
<1>4. ASSUME NEW c \in MediaCalls, Media!ListEnds(c) PROVE MediaInv'
  <2> DEFINE next == IF calls[c].model = None /\ ~calls[c].live /\ ~calls[c].home THEN [calls[c] EXCEPT !.at = "catalog", !.live = TRUE]
                     ELSE [calls[c] EXCEPT !.at = "failed"]
  <2>1. /\ calls' = [calls EXCEPT ![c] = next] /\ calls[c].at = "next" /\ calls[c].todo = <<>>
        /\ UNCHANGED <<jobs, cooling, catalog, statuses, settings, files, sent>>
    BY <1>4 DEF Media!ListEnds, Media!At, Media!MayList
  <2>2. next \in MediaCall
    BY <1>b DEF MediaCall, Steps
  <2>3. CallHolds(next)
    BY <1>b, <2>1, ElementsNone DEF CallHolds, AskedOrListed, Wanted, MediaCall
  <2> HIDE DEF next
  <2>4. CallsHold' /\ calls'[c] = next /\ \A d \in MediaCalls \ {c} : calls'[d] = calls[d]
    BY <1>a, <2>1, <2>2, <2>3, CallMoves
  <2>5. TemporaryHeld'
    BY <1>a, <1>f, <2>1, <2>4 DEF TemporaryHeld
  <2> QED BY <1>a, <2>1, <2>4, <2>5 DEF MediaInv, MediaTypes, Media!FreeOnly
<1>5. ASSUME NEW c \in MediaCalls, Media!Check(c) PROVE MediaInv'
  <2>1. calls[c].at = "check" /\ UNCHANGED <<catalog, settings, files, sent>> /\ calls[c].now \in Media!Models
    BY <1>b, <1>5 DEF Media!Check, Media!At, CallHolds, MediaCall
  <2>2. statuses' \in [Media!Known -> {"unknown", "up", "down"}]
    <3>1. \E state \in {"up", "down"} :
              statuses' = IF calls[c].now \in Media!Studios THEN statuses ELSE [statuses EXCEPT ![calls[c].now] = state]
      BY <1>5 DEF Media!Check
    <3>2. statuses \in [Media!Known -> {"unknown", "up", "down"}]
      BY <1>a DEF MediaTypes
    <3> QED BY <3>1, <3>2
  <2>3. ASSUME NEW capacity \in BOOLEAN, Media!Failure(c, capacity, settings.token), UNCHANGED jobs PROVE MediaInv'
    <3>1. settings.token \in Nat
      BY <1>a DEF MediaTypes
    <3>2. /\ CallsHold' /\ (\A d \in MediaCalls \ {c} : calls'[d] = calls[d])
          /\ cooling' \in [Media!Pools -> Nat \cup {None}]
      BY <1>a, <2>1, <2>3, <3>1, FailureMoves
    <3>3. TemporaryHeld'
      BY <1>a, <1>f, <2>1, <3>2 DEF TemporaryHeld
    <3> QED BY <1>a, <2>1, <2>2, <2>3, <3>2, <3>3 DEF MediaInv, MediaTypes, Media!FreeOnly
  <2>4. CASE /\ Media!Cardinality(jobs) < Workers
             /\ jobs' = jobs \cup {[call |-> c, model |-> calls[c].now, token |-> settings.token, owned |-> TRUE]}
             /\ calls' = [calls EXCEPT ![c].at = "job"] /\ UNCHANGED cooling
    <3> DEFINE next == [calls[c] EXCEPT !.at = "job"]
               job == [call |-> c, model |-> calls[c].now, token |-> settings.token, owned |-> TRUE]
    <3>1. next \in MediaCall /\ CallHolds(next)
      BY <1>b, <2>1 DEF MediaCall, Steps, CallHolds, AskedOrListed, Wanted
    <3>2. job \in Job
      BY <1>a, <2>1 DEF MediaTypes, Job
    <3> HIDE DEF next, job
    <3>3. jobs' = jobs \cup {job} /\ calls' = [calls EXCEPT ![c] = next]
      BY <2>4 DEF next, job
    <3>4. CallsHold' /\ \A d \in MediaCalls \ {c} : calls'[d] = calls[d]
      BY <1>a, <3>1, <3>3, CallMoves
    <3>5. IsFiniteSet(jobs') /\ Cardinality(jobs') <= Cardinality(jobs) + 1 /\ Cardinality(jobs) \in Nat /\ Cardinality(jobs) < Workers
      <4>1. IsFiniteSet(jobs)
        BY <1>a DEF MediaTypes
      <4>2. Cardinality(jobs) \in Nat /\ Cardinality(jobs) < Workers
        BY <2>4, <4>1, FS_CardinalityType, MediaCardinality
      <4>3. /\ IsFiniteSet(jobs')
            /\ Cardinality(jobs') = IF job \in jobs THEN Cardinality(jobs) ELSE Cardinality(jobs) + 1
        BY <3>3, <4>1, FS_AddElement
      <4> QED BY <4>2, <4>3
    <3>6. Cardinality(jobs') \in Nat /\ Cardinality(jobs') <= Workers
      BY <3>5, FS_CardinalityType, MediaAssumption
    <3>7. TemporaryHeld'
      BY <1>a, <1>f, <2>1, <3>4 DEF TemporaryHeld
    <3> QED BY <1>a, <2>1, <2>2, <2>4, <3>2, <3>3, <3>4, <3>5, <3>6, <3>7 DEF MediaInv, MediaTypes, Media!FreeOnly
  <2> QED BY <1>5, <2>3, <2>4 DEF Media!Check, Media!Go
<1>6. ASSUME NEW c \in MediaCalls, Media!JobEnds(c) PROVE MediaInv'
  <2>1. calls[c].at = "job" /\ UNCHANGED <<catalog, statuses, settings, sent>> /\ jobs' \subseteq jobs
    BY <1>6 DEF Media!JobEnds, Media!At
  <2>2. /\ CallsHold' /\ (\A d \in MediaCalls \ {c} : calls'[d] = calls[d])
        /\ cooling' \in [Media!Pools -> Nat \cup {None}]
        /\ files' \in [finished : SUBSET MediaCalls, temporary : SUBSET MediaCalls, left : BOOLEAN]
        /\ files'.temporary = files.temporary
    <3>1. CASE Media!Success(c) /\ files' = [files EXCEPT !.finished = @ \cup {c}]
      <4>1. CallsHold' /\ (\A d \in MediaCalls \ {c} : calls'[d] = calls[d]) /\ UNCHANGED cooling
        BY <1>a, <2>1, <3>1, SuccessMoves
      <4> QED BY <1>a, <1>f, <3>1, <4>1 DEF MediaTypes
    <3>2. CASE (\E capacity \in BOOLEAN, j \in Media!JobOf(c) : Media!Failure(c, capacity, j.token)) /\ UNCHANGED files
      <4>1. PICK capacity \in BOOLEAN, j \in Media!JobOf(c) : Media!Failure(c, capacity, j.token)
        BY <3>2
      <4>2. j.token \in Nat
        BY <1>a DEF Media!JobOf, MediaTypes, Job
      <4> QED BY <1>a, <1>f, <2>1, <3>2, <4>1, <4>2, FailureMoves
    <3> QED BY <1>6, <3>1, <3>2 DEF Media!JobEnds
  <2>3. TemporaryHeld'
    BY <1>a, <1>f, <2>1, <2>2 DEF TemporaryHeld
  <2> QED BY <1>a, <2>1, <2>2, <2>3, FewerJobs DEF MediaInv, MediaTypes, MediaFiles, Media!FreeOnly
<1>7. ASSUME NEW c \in MediaCalls, Media!StreamEnds(c) PROVE MediaInv'
  <2>1. calls[c].at = "stream" /\ UNCHANGED <<jobs, catalog, statuses, settings, sent>>
    BY <1>7 DEF Media!StreamEnds, Media!At
  <2>2. /\ CallsHold' /\ (\A d \in MediaCalls \ {c} : calls'[d] = calls[d])
        /\ cooling' \in [Media!Pools -> Nat \cup {None}]
        /\ files' \in [finished : SUBSET MediaCalls, temporary : SUBSET MediaCalls, left : BOOLEAN]
        /\ files'.temporary = files.temporary \ {c}
    <3>1. CASE Media!Success(c) /\ files' = [files EXCEPT !.finished = @ \cup {c}, !.temporary = @ \ {c}]
      <4>1. CallsHold' /\ (\A d \in MediaCalls \ {c} : calls'[d] = calls[d]) /\ UNCHANGED cooling
        BY <1>a, <2>1, <3>1, SuccessMoves
      <4> QED BY <1>a, <1>f, <3>1, <4>1 DEF MediaTypes
    <3>2. CASE (\E capacity \in BOOLEAN : Media!Failure(c, capacity, settings.token)) /\ files' \in Media!Removed(c)
      <4>1. PICK capacity \in BOOLEAN : Media!Failure(c, capacity, settings.token)
        BY <3>2
      <4>2. settings.token \in Nat
        BY <1>a DEF MediaTypes
      <4>3. /\ CallsHold' /\ (\A d \in MediaCalls \ {c} : calls'[d] = calls[d])
            /\ cooling' \in [Media!Pools -> Nat \cup {None}]
        BY <1>a, <2>1, <4>1, <4>2, FailureMoves
      <4> QED BY <1>f, <3>2, <4>3 DEF Media!Removed
    <3> QED BY <1>7, <3>1, <3>2 DEF Media!StreamEnds
  <2>3. TemporaryHeld'
    BY <1>a, <1>f, <2>1, <2>2 DEF TemporaryHeld
  <2> QED BY <1>a, <2>1, <2>2, <2>3 DEF MediaInv, MediaTypes, MediaFiles, Media!FreeOnly
<1>8. ASSUME NEW c \in MediaCalls, Media!Answer(c) PROVE MediaInv'
  <2>1. /\ calls[c].at \in {"failed", "done"} /\ UNCHANGED <<jobs, cooling, catalog, statuses, settings, sent>>
        /\ calls' = [calls EXCEPT ![c] = Media!Idle] /\ files' = [files EXCEPT !.finished = @ \ {c}]
    BY <1>8 DEF Media!Answer
  <2>2. CallsHold' /\ \A d \in MediaCalls \ {c} : calls'[d] = calls[d]
    BY <1>a, <2>1, IdleHolds, CallMoves
  <2>3. TemporaryHeld' /\ files' \in [finished : SUBSET MediaCalls, temporary : SUBSET MediaCalls, left : BOOLEAN]
    BY <1>a, <1>f, <2>1, <2>2 DEF TemporaryHeld
  <2> QED BY <1>a, <2>1, <2>2, <2>3 DEF MediaInv, MediaTypes, MediaFiles, Media!FreeOnly
<1>9. ASSUME NEW c \in MediaCalls, Media!Cancel(c) PROVE MediaInv'
  <2>1. /\ UNCHANGED <<cooling, catalog, statuses, settings, sent>>
        /\ calls' = [calls EXCEPT ![c] = Media!Idle]
        /\ jobs' = {[j EXCEPT !.owned = @ /\ j.call # c] : j \in jobs}
        /\ files' \in IF calls[c].at = "stream" THEN Media!Removed(c) ELSE {files}
    BY <1>9 DEF Media!Cancel
  <2>2. CallsHold' /\ \A d \in MediaCalls \ {c} : calls'[d] = calls[d]
    BY <1>a, <2>1, IdleHolds, CallMoves
  <2>5. /\ files' \in [finished : SUBSET MediaCalls, temporary : SUBSET MediaCalls, left : BOOLEAN]
        /\ files'.temporary = IF calls[c].at = "stream" THEN files.temporary \ {c} ELSE files.temporary
    <3>1. CASE calls[c].at = "stream"
      <4>1. PICK refused \in BOOLEAN : files' = [files EXCEPT !.temporary = @ \ {c}, !.left = @ \/ refused]
        BY <2>1, <3>1 DEF Media!Removed
      <4>2. (files.left \/ refused) \in BOOLEAN
        OBVIOUS
      <4> QED BY <1>f, <3>1, <4>1, <4>2
    <3>2. CASE calls[c].at # "stream"
      BY <1>f, <2>1, <3>2
    <3> QED BY <3>1, <3>2
  <2>3. TemporaryHeld' /\ files' \in MediaFiles
    BY <1>a, <1>f, <2>2, <2>5 DEF TemporaryHeld, MediaFiles
  <2>4. jobs' \subseteq Job /\ IsFiniteSet(jobs') /\ Cardinality(jobs') <= Workers
    BY <1>a, <2>1, DisownedJobs
  <2> QED BY <1>a, <2>1, <2>2, <2>3, <2>4 DEF MediaInv, MediaTypes, Media!FreeOnly
<1>10. ASSUME Media!Shared PROVE MediaInv'
  <2>1. /\ UNCHANGED <<calls, files, sent>> /\ jobs' \subseteq jobs
        /\ catalog' \in Media!Catalogs \cup {catalog, None}
        /\ cooling' \in [Media!Pools -> Nat \cup {None}]
        /\ statuses' \in [Media!Known -> {"unknown", "up", "down"}]
        /\ settings' \in [key : BOOLEAN, token : Nat]
    <3>1. /\ cooling \in [Media!Pools -> Nat \cup {None}]
          /\ statuses \in [Media!Known -> {"unknown", "up", "down"}]
          /\ settings \in [key : BOOLEAN, token : Nat]
      BY <1>a DEF MediaTypes
    <3>2. CASE \E home \in BOOLEAN, state \in [Media!Known -> {"up", "down", "unknown"}] : Media!Status(home, state)
      BY <3>1, <3>2 DEF Media!Status
    <3>3. CASE (\E m \in Media!Known : Media!SeenExpires(m)) \/ (\E p \in Media!Pools : Media!CooldownExpires(p))
      BY <3>1, <3>3 DEF Media!SeenExpires, Media!CooldownExpires
    <3>4. CASE Media!SetKey
      BY <3>1, <3>4 DEF Media!SetKey
    <3>5. CASE Media!SetToken
      <4>1. statuses' = [m \in Media!Known |-> IF m \in Media!Studios THEN statuses[m] ELSE "unknown"] /\ settings' = [settings EXCEPT !.token = @ + 1]
            /\ cooling' = [cooling EXCEPT !["huggingface-zerogpu"] = None] /\ UNCHANGED <<calls, jobs, catalog, files, sent>>
        BY <3>5 DEF Media!SetToken
      <4>2. statuses' \in [Media!Known -> {"unknown", "up", "down"}]
        BY <3>1, <4>1
      <4>3. settings' \in [key : BOOLEAN, token : Nat]
        BY <3>1, <4>1
      <4>4. cooling' \in [Media!Pools -> Nat \cup {None}]
        BY <3>1, <4>1
      <4> QED BY <4>1, <4>2, <4>3, <4>4
    <3>6. CASE Media!LostJobEnds
      BY <3>1, <3>6 DEF Media!LostJobEnds
    <3> QED BY <1>10, <3>2, <3>3, <3>4, <3>5, <3>6 DEF Media!Shared
  <2>2. MediaTypes'
    BY <1>a, <2>1, FewerJobs DEF MediaTypes
  <2> QED BY <1>a, <2>1, <2>2 DEF MediaInv, CallsHold, TemporaryHeld, Media!FreeOnly
<1> QED BY <1>1, <1>2, <1>3, <1>4, <1>5, <1>6, <1>7, <1>8, <1>9, <1>10 DEF Media!Next, Media!Call

\* The invariant of the media calls at first.
LEMMA MediaStart == Media!Init => MediaInv
<1> SUFFICES ASSUME Media!Init PROVE MediaInv
  OBVIOUS
<1>1. CallsHold
  BY IdleHolds DEF Media!Init, CallsHold
<1>2. MediaTypes
  BY MediaAssumption, FS_EmptySet DEF Media!Init, MediaTypes, MediaFiles
<1> QED BY <1>1, <1>2 DEF Media!Init, MediaInv, TemporaryHeld, Media!FreeOnly

\* What the invariant says of the media calls.
LEMMA MediaFree == MediaInv => Media!TypeOK /\ Media!FreeOnly /\ Media!EveryoneAsked /\ Media!NoTemporaryLeft
<1> SUFFICES ASSUME MediaInv PROVE Media!TypeOK /\ Media!FreeOnly /\ Media!EveryoneAsked /\ Media!NoTemporaryLeft
  OBVIOUS
<1>1. MediaTypes /\ CallsHold /\ TemporaryHeld /\ Media!FreeOnly
  BY DEF MediaInv
<1>2. Media!TypeOK
  BY <1>1, MediaCardinality DEF MediaTypes, MediaFiles, CallsHold, MediaCall, Steps, Media!TypeOK
<1>3. Media!EveryoneAsked
  BY <1>1, ElementsNone DEF CallsHold, CallHolds, AskedOrListed, Wanted, Media!EveryoneAsked, Media!At
<1>4. Media!NoTemporaryLeft
  BY <1>1 DEF TemporaryHeld, Media!NoTemporaryLeft
<1> QED BY <1>1, <1>2, <1>3, <1>4

\* MediaIsFree: no request goes to a listed model that the prices of its call do not show as
\* free, no automatic call that has failed has left unasked a provider it could use for free,
\* and none whose egress is in mainland China asks anybody but the Studios.
THEOREM MediaHolds == ServicesSpec => []MediaIsFree
<1> DEFINE Inv == subject = "media" => MediaInv
<1>1. ServicesInit => Inv
  BY MediaStart DEF ServicesInit
<1>2. Inv /\ [ServicesNext]_allVars => Inv'
  <2> SUFFICES ASSUME Inv, [ServicesNext]_allVars, subject' = "media" PROVE MediaInv'
    OBVIOUS
  <2>1. CASE UNCHANGED <<subject, media>>
    BY <2>1 DEF media, MediaInv, MediaTypes, CallsHold, TemporaryHeld, Media!FreeOnly
  <2> QED BY <2>1, MediaStep DEF ServicesNext, allVars
<1>3. Inv => MediaIsFree
  BY MediaFree DEF MediaIsFree
<1> QED BY <1>1, <1>2, <1>3, PTL DEF ServicesSpec
-----------------------------------------------------------------------------
(* The background browser (BackgroundBrowser).  Numbers of drivers and     *)
(* browsers are new; one task is inside the guard at a time; the driver is *)
(* stopped when no session is left; whoever empties the tables still knows *)
(* the browser that it closes, and that browser holds the downloads.       *)

Manager == [pending : Seq(Downloads), records : Nat]
Places == {"idle", "finish", "ended"} \cup Browser!InGuard
BrowserTask ==
    [at : Places, browser : Nat \cup {None}, batch : Seq(Downloads), partial : Downloads \cup {None},
     ends : BOOLEAN, raised : BOOLEAN, stopped : BOOLEAN, late : BOOLEAN, clean : BOOLEAN]
Download == [of : Tasks \cup {None}, in : Nat \cup {None}, state : {"none", "running", "saved", "cancelled"}]

BrowserTypes ==
    /\ playwright \in Nat \cup {None} /\ drivers \subseteq Nat
    /\ browsers \subseteq [number : Nat, driver : Nat, closing : BOOLEAN]
    /\ guard \in Tasks \cup {Other, None}
    /\ sessions \in [Tasks -> Nat \cup {None}]
    /\ managers \in [Tasks -> Manager \cup {None}]
    /\ task \in [Tasks -> BrowserTask]
    /\ downloads \in [Downloads -> Download]

\* What is started has a new number.
Numbered ==
    /\ started \in 0..MaxLaunches /\ drivers \subseteq 1..started /\ playwright \in 1..started \cup {None}
    /\ \A b \in browsers : b.number \in 1..started /\ b.driver \in 1..started
    /\ \A b, c \in browsers : b.number = c.number => b = c
    /\ \A t \in Tasks : sessions[t] \in 1..started \cup {None}

\* What the place of a task says of the tables.
TaskPlaced(t) ==
    /\ (task[t].at \in Browser!InGuard) <=> (guard = t)
    /\ (sessions[t] # None) <=> (managers[t] # None)
    /\ managers[t] # None => managers[t].records <= MaxRecords
    /\ task[t].at \in {"collect", "save", "failed"} => managers[t] # None
    /\ task[t].at \in {"save", "failed"} => managers[t].records < MaxRecords /\ task[t].batch # <<>>
    /\ task[t].at \notin {"save", "failed", "abort"} => task[t].partial = None
    /\ task[t].at \in {"driver", "launch", "page"} \cup Browser!Closing => sessions[t] = None
    /\ task[t].clean => task[t].at = "ended" /\ sessions[t] = None
TaskAlone(t) ==
    /\ task[t].at = "driver" => playwright = None
    /\ task[t].at = "page" =>
           /\ task[t].browser # None /\ playwright \in drivers
           /\ \A b \in browsers : b.number = task[t].browser => b.driver = playwright /\ ~b.closing
    /\ task[t].at = "stop" => \A u \in Tasks : sessions[u] = None
    /\ task[t].at \in {"page", "drain", "close"} /\ task[t].browser # None =>
           \A u \in Tasks : sessions[u] # task[t].browser
TasksPlaced == \A t \in Tasks : TaskPlaced(t)
TasksAlone == \A t \in Tasks : TaskAlone(t)

\* A download that runs is in the browser of a session, in one whose close is under way, or
\* in one that ends by itself.
Holds(b, t) ==
    \/ b.closing \/ b.driver \notin drivers \/ sessions[t] = b.number
    \/ task[t].at \in {"drain", "close"} /\ task[t].browser = b.number
Runs(t, f) == downloads[f].of = t /\ downloads[f].state = "running"
DownloadsHeld ==
    \A t \in Tasks, f \in Downloads : Runs(t, f) => \E b \in browsers : b.number = downloads[f].in /\ Holds(b, t)

BrowserInv == BrowserTypes /\ Numbered /\ TasksPlaced /\ TasksAlone /\ DownloadsHeld /\ Browser!SessionRuns

\* A task at rest has the type of one.
LEMMA NoWorkType == Browser!NoWork \in BrowserTask
BY BrowserAssumption DEF Browser!NoWork, BrowserTask, Places, Browser!InGuard

\* None is no manager.
LEMMA NoneApart == None \notin Manager
BY BrowserAssumption DEF Manager

\* A batch without its first download is a batch.
LEMMA BatchTail ==
    ASSUME NEW s \in Seq(Downloads), s # <<>>
    PROVE  Head(s) \in Downloads /\ Tail(s) \in Seq(Downloads)
BY HeadTailProperties

\* A step of one task.
LEMMA TaskMoves ==
    ASSUME task \in [Tasks -> BrowserTask], NEW t \in Tasks, NEW next \in BrowserTask,
           task' = [task EXCEPT ![t] = next]
    PROVE  /\ task' \in [Tasks -> BrowserTask] /\ task'[t] = next
           /\ \A u \in Tasks \ {t} : task'[u] = task[u]
OBVIOUS

\* Downloads go on or end; which task and which browser they are of stays.
DownloadsEnd ==
    /\ downloads' \in [Downloads -> Download]
    /\ \A f \in Downloads :
          /\ downloads'[f].of = downloads[f].of /\ downloads'[f].in = downloads[f].in
          /\ downloads'[f].state = "running" => downloads[f].state = "running"

\* A cancelled download ends, if it ran.
LEMMA DownloadCancelled ==
    ASSUME downloads \in [Downloads -> Download], NEW f, Browser!Cancel(f)
    PROVE  DownloadsEnd
<1>1. CASE downloads' = downloads
  BY <1>1 DEF DownloadsEnd
<1>2. CASE downloads' = [downloads EXCEPT ![f].state = IF @ = "running" THEN "cancelled" ELSE @]
  BY <1>2 DEF DownloadsEnd, Download
<1> QED BY <1>1, <1>2 DEF Browser!Cancel

\* The downloads of a browser end with it.
LEMMA DownloadsWithBrowser ==
    ASSUME downloads \in [Downloads -> Download], NEW n, downloads' = Browser!Ended(n)
    PROVE  DownloadsEnd /\ \A f \in Downloads : downloads'[f].state = "running" => downloads'[f].in # n
BY DEF DownloadsEnd, Download, Browser!Ended

\* Whoever held a download goes on holding it, or ends it.
LEMMA DownloadsKept ==
    ASSUME DownloadsHeld, DownloadsEnd,
           \A t \in Tasks : \A b \in browsers : Holds(b, t) =>
               \/ \E c \in browsers' : c.number = b.number /\ Holds(c, t)'
               \/ \A f \in Downloads : Runs(t, f)' => downloads'[f].in # b.number
    PROVE  DownloadsHeld'
BY DEF DownloadsHeld, DownloadsEnd, Runs

\* A step that leaves the browsers alone leaves their downloads held.
LEMMA HeldByMove ==
    ASSUME BrowserTypes, DownloadsHeld, DownloadsEnd, UNCHANGED <<browsers, drivers, sessions>>, NEW t \in Tasks,
           \A u \in Tasks \ {t} : task'[u] = task[u],
           task[t].at \in {"drain", "close"} /\ task[t].browser # None =>
               task'[t].at \in {"drain", "close"} /\ task'[t].browser = task[t].browser
    PROVE  DownloadsHeld'
<1>1. \A u \in Tasks : \A b \in browsers : Holds(b, u) => Holds(b, u)'
  BY BrowserAssumption DEF Holds, BrowserTypes
<1> QED BY <1>1, DownloadsKept

\* Downloads that stay go on.
LEMMA DownloadsSame == BrowserTypes /\ UNCHANGED downloads => DownloadsEnd
BY DEF BrowserTypes, DownloadsEnd

\* A step that leaves the browsers and sessions alone.
LEMMA QuietMove ==
    ASSUME BrowserInv, NEW t \in Tasks, NEW next \in BrowserTask, task' = [task EXCEPT ![t] = next],
           UNCHANGED <<playwright, drivers, browsers, started, sessions>>, DownloadsEnd,
           guard' \in Tasks \cup {Other, None}, \A u \in Tasks \ {t} : (guard' = u) <=> (guard = u),
           managers' \in [Tasks -> Manager \cup {None}],
           \A u \in Tasks \ {t} : managers'[u] = managers[u],
           TaskPlaced(t)', TaskAlone(t)',
           task[t].at \in {"drain", "close"} /\ task[t].browser # None =>
               next.at \in {"drain", "close"} /\ next.browser = task[t].browser
    PROVE  BrowserInv'
<1>1. BrowserTypes /\ Numbered /\ TasksPlaced /\ TasksAlone /\ DownloadsHeld /\ Browser!SessionRuns
  BY DEF BrowserInv
<1>2. /\ task' \in [Tasks -> BrowserTask] /\ task'[t] = next
      /\ \A u \in Tasks \ {t} : task'[u] = task[u]
  BY <1>1, TaskMoves DEF BrowserTypes
<1>3. BrowserTypes'
  BY <1>1, <1>2 DEF BrowserTypes, DownloadsEnd
<1>4. Numbered'
  BY <1>1 DEF Numbered
<1>5. TasksPlaced'
  <2>1. ASSUME NEW u \in Tasks \ {t} PROVE TaskPlaced(u)'
    BY <1>1, <1>2 DEF TasksPlaced, TaskPlaced
  <2> QED BY <2>1 DEF TasksPlaced
<1>6. TasksAlone'
  <2>1. ASSUME NEW u \in Tasks \ {t} PROVE TaskAlone(u)'
    BY <1>1, <1>2 DEF TasksAlone, TaskAlone
  <2> QED BY <2>1 DEF TasksAlone
<1>7. DownloadsHeld'
  BY <1>1, <1>2, HeldByMove
<1>8. Browser!SessionRuns'
  BY <1>1 DEF Browser!SessionRuns
<1> QED BY <1>3, <1>4, <1>5, <1>6, <1>7, <1>8 DEF BrowserInv

\* What the one that holds the guard does to the tables disturbs no other task.
LEMMA GuardedMove ==
    ASSUME BrowserInv, NEW t \in Tasks, guard \in {t, None}, NEW next \in BrowserTask,
           task' = [task EXCEPT ![t] = next],
           guard' \in {t, None},
           \A u \in Tasks \ {t} : managers'[u] = managers[u] /\ sessions'[u] = sessions[u],
           TaskPlaced(t)', TaskAlone(t)'
    PROVE  TasksPlaced' /\ TasksAlone' /\ task' \in [Tasks -> BrowserTask] /\ task'[t] = next
           /\ \A u \in Tasks \ {t} : task'[u] = task[u]
<1>1. BrowserTypes /\ TasksPlaced
  BY DEF BrowserInv
<1>2. /\ task' \in [Tasks -> BrowserTask] /\ task'[t] = next
      /\ \A u \in Tasks \ {t} : task'[u] = task[u]
  BY <1>1, TaskMoves DEF BrowserTypes
<1>3. ASSUME NEW u \in Tasks \ {t} PROVE TaskPlaced(u)' /\ TaskAlone(u)'
  <2>1. guard # u /\ guard' # u
    BY BrowserAssumption
  <2>2. task[u].at \notin Browser!InGuard
    BY <1>1, <2>1 DEF TasksPlaced, TaskPlaced
  <2>3. TaskPlaced(u)'
    BY <1>1, <1>2, <1>3, <2>1, <2>2 DEF TasksPlaced, TaskPlaced
  <2>4. TaskAlone(u)'
    BY <1>2, <2>2 DEF TaskAlone, Browser!InGuard, Browser!Calling, Browser!Closing
  <2> QED BY <2>3, <2>4
<1> QED BY <1>2, <1>3 DEF TasksPlaced, TasksAlone

\* What a task does after a call: nothing, its stop, or its end.
LEMMA AfterMoves ==
    ASSUME task \in [Tasks -> BrowserTask], NEW t \in Tasks, NEW stopped, Browser!After(t, stopped),
           task[t].partial = None
    PROVE  \E next \in BrowserTask :
               /\ task' = [task EXCEPT ![t] = next] /\ next.at \in {"idle", "finish", "ended"}
               /\ next.partial = None /\ (next.clean => next.at = "ended")
<1> DEFINE next == IF task[t].ends THEN [Browser!NoWork EXCEPT !.at = "ended", !.clean = TRUE, !.partial = task[t].partial]
                   ELSE IF stopped THEN [Browser!NoWork EXCEPT !.at = "finish", !.stopped = TRUE] ELSE Browser!NoWork
<1>1. task' = [task EXCEPT ![t] = next]
  BY DEF Browser!After
<1>2. /\ next \in BrowserTask /\ next.at \in {"idle", "finish", "ended"}
      /\ next.partial = None /\ (next.clean => next.at = "ended")
  BY NoWorkType DEF Browser!NoWork, BrowserTask, Places
<1> QED BY <1>1, <1>2

\* Every step keeps the invariant of the browser.
LEMMA BrowserStep == BrowserInv /\ Browser!Next => BrowserInv'
<1> SUFFICES ASSUME BrowserInv, Browser!Next PROVE BrowserInv'
  OBVIOUS
<1> USE BrowserAssumption
    DEF Places, Browser!InGuard, Browser!Calling, Browser!Collecting, Browser!Closing,
        Browser!Running, Browser!Gone, Browser!Room, Browser!Work, Browser!Over, Browser!Rest,
        Browser!Leaves, Browser!PartialAfter, Browser!Closes, Browser!Idle, Browser!NoWork
<1>a. BrowserTypes /\ Numbered /\ TasksPlaced /\ TasksAlone /\ DownloadsHeld /\ Browser!SessionRuns
  BY DEF BrowserInv
<1>b. task \in [Tasks -> BrowserTask] /\ managers \in [Tasks -> Manager \cup {None}]
      /\ downloads \in [Downloads -> Download]
  BY <1>a DEF BrowserTypes
<1>c. ASSUME NEW t \in Tasks PROVE TaskPlaced(t) /\ TaskAlone(t)
  BY <1>a DEF TasksPlaced, TasksAlone
<1>d. ASSUME NEW t \in Tasks
      PROVE  /\ task[t] \in BrowserTask /\ task[t].batch \in Seq(Downloads)
             /\ managers[t] # None => managers[t] \in Manager /\ managers[t].pending \in Seq(Downloads)
             /\ task[t].at \in {"save", "failed"} => task[t].batch # <<>>
  BY <1>b, <1>c DEF BrowserTask, Manager, TaskPlaced
<1>1. ASSUME NEW t \in Tasks, Browser!Call(t) PROVE BrowserInv'
  <2> DEFINE next == [task[t] EXCEPT !.at = IF sessions[t] # None THEN "act" ELSE IF playwright = None THEN "driver" ELSE "launch"]
  <2>1. task' = [task EXCEPT ![t] = next]
    BY <1>1, <1>b DEF Browser!Call, BrowserTask
  <2>2. next \in BrowserTask
    BY <1>d, <1>1, NoWorkType, BatchTail DEF Browser!Call, BrowserTask
  <2>3. task'[t] = next /\ next.at \in {"act", "driver", "launch"}
    BY <1>b, <1>d, <1>1, <2>1 DEF Browser!Call, BrowserTask
  <2>4. DownloadsEnd
    BY <1>a, <1>1, DownloadsSame DEF Browser!Call
  <2>5. /\ UNCHANGED <<playwright, drivers, browsers, started, sessions>>
        /\ guard' \in Tasks \cup {Other, None} /\ \A u \in Tasks \ {t} : (guard' = u) <=> (guard = u)
    BY <1>a, <1>c, <1>1 DEF Browser!Call, TaskPlaced, BrowserTypes
  <2>6. UNCHANGED managers
    BY <1>1 DEF Browser!Call
  <2>7. TaskPlaced(t)'
    BY <1>b, <1>c, <1>d, <1>1, <2>3 DEF Browser!Call, TaskPlaced, BrowserTask
  <2>8. TaskAlone(t)'
    BY <1>a, <1>c, <1>d, <1>1, <2>3 DEF Browser!Call, TaskPlaced, TaskAlone, BrowserTask
  <2>9. task[t].at \notin {"drain", "close"}
    BY <1>1 DEF Browser!Call
  <2> QED
    <3> HIDE DEF next
    <3> QED BY <1>b, <2>1, <2>2, <2>3, <2>4, <2>5, <2>6, <2>7, <2>8, <2>9, QuietMove
<1>2. ASSUME NEW t \in Tasks, Browser!Act(t) PROVE BrowserInv'
  <2>0. managers[t] # None /\ managers[t] \in Manager
    BY <1>a, <1>b, <1>c, <1>2 DEF Browser!Act, BrowserTypes, TaskPlaced
  <2> DEFINE next == [task[t] EXCEPT !.at = "collect", !.batch = managers[t].pending]
  <2>1. task' = [task EXCEPT ![t] = next]
    BY <1>2, <1>b DEF Browser!Act, BrowserTask
  <2>2. next \in BrowserTask
    BY <1>d, <2>0 DEF BrowserTask
  <2>3. task'[t] = next /\ next.at = "collect"
    BY <1>b, <1>d, <1>2, <2>1 DEF Browser!Act, BrowserTask
  <2>4. DownloadsEnd
    BY <1>a, <1>2, DownloadsSame DEF Browser!Act
  <2>5. /\ UNCHANGED <<playwright, drivers, browsers, started, sessions>>
        /\ guard' \in Tasks \cup {Other, None} /\ \A u \in Tasks \ {t} : (guard' = u) <=> (guard = u)
    BY <1>a, <1>c, <1>2 DEF Browser!Act, TaskPlaced, BrowserTypes
  <2>6. managers' \in [Tasks -> Manager \cup {None}] /\ \A u \in Tasks \ {t} : managers'[u] = managers[u]
    <3>1. [managers[t] EXCEPT !.pending = <<>>] \in Manager
      BY <2>0, EmptySeq DEF Manager
    <3> QED BY <1>b, <1>2, <2>0, <3>1 DEF Browser!Act
  <2>7. TaskPlaced(t)'
    <3>1. managers'[t] # None /\ managers'[t].records = managers[t].records
        <4>1. managers'[t] = [managers[t] EXCEPT !.pending = <<>>]
        BY <1>b, <1>2, <2>0 DEF Browser!Act
      <4>2. [managers[t] EXCEPT !.pending = <<>>] \in Manager
        BY <2>0, EmptySeq DEF Manager
      <4> QED BY <2>0, <4>1, <4>2, NoneApart DEF Manager
    <3>2. task[t].at = "act" /\ UNCHANGED guard
      BY <1>2 DEF Browser!Act
    <3> QED BY <1>c, <1>d, <2>0, <2>3, <2>5, <3>1, <3>2 DEF TaskPlaced, BrowserTask
  <2>8. TaskAlone(t)'
    BY <2>3 DEF TaskAlone
  <2>9. task[t].at \notin {"drain", "close"}
    BY <1>2 DEF Browser!Act
  <2> QED
    <3> HIDE DEF next
    <3> QED BY <1>b, <2>1, <2>2, <2>3, <2>4, <2>5, <2>6, <2>7, <2>8, <2>9, QuietMove
<1>3. ASSUME NEW t \in Tasks, Browser!Fails(t) PROVE BrowserInv'
  <2> DEFINE next == Browser!NoWork
  <2>1. task' = [task EXCEPT ![t] = next]
    BY <1>3, <1>b DEF Browser!Fails, BrowserTask
  <2>2. next \in BrowserTask
    BY <1>d, <1>3, NoWorkType, BatchTail DEF Browser!Fails, BrowserTask
  <2>3. task'[t] = next /\ next.at = "idle"
    BY <1>b, <1>d, <1>3, <2>1 DEF Browser!Fails, BrowserTask
  <2>4. DownloadsEnd
    BY <1>a, <1>3, DownloadsSame DEF Browser!Fails
  <2>5. /\ UNCHANGED <<playwright, drivers, browsers, started, sessions>>
        /\ guard' \in Tasks \cup {Other, None} /\ \A u \in Tasks \ {t} : (guard' = u) <=> (guard = u)
    BY <1>a, <1>c, <1>3 DEF Browser!Fails, TaskPlaced, BrowserTypes
  <2>6. UNCHANGED managers
    BY <1>3 DEF Browser!Fails
  <2>7. TaskPlaced(t)'
    BY <1>b, <1>c, <1>d, <1>3, <2>3 DEF Browser!Fails, TaskPlaced, BrowserTask
  <2>8. TaskAlone(t)'
    BY <2>3 DEF TaskAlone
  <2>9. task[t].at \notin {"drain", "close"}
    BY <1>3 DEF Browser!Fails
  <2> QED
    <3> HIDE DEF next
    <3> QED BY <1>b, <2>1, <2>2, <2>3, <2>4, <2>5, <2>6, <2>7, <2>8, <2>9, QuietMove
<1>4. ASSUME NEW t \in Tasks, Browser!Reject(t) PROVE BrowserInv'
  <2> DEFINE next == [task[t] EXCEPT !.batch = Tail(@), !.partial = None, !.at = "collect"]
  <2>1. task' = [task EXCEPT ![t] = next]
    BY <1>4, <1>b DEF Browser!Reject, BrowserTask
  <2>2. next \in BrowserTask
    BY <1>d, <1>4, NoWorkType, BatchTail DEF Browser!Reject, BrowserTask
  <2>3. task'[t] = next /\ next.at = "collect"
    BY <1>b, <1>d, <1>4, <2>1 DEF Browser!Reject, BrowserTask
  <2>4. DownloadsEnd
    BY <1>a, <1>b, <1>4, DownloadCancelled, DownloadsSame DEF Browser!Reject
  <2>5. /\ UNCHANGED <<playwright, drivers, browsers, started, sessions>>
        /\ guard' \in Tasks \cup {Other, None} /\ \A u \in Tasks \ {t} : (guard' = u) <=> (guard = u)
    BY <1>a, <1>c, <1>4 DEF Browser!Reject, TaskPlaced, BrowserTypes
  <2>6. UNCHANGED managers
    BY <1>4 DEF Browser!Reject
  <2>7. TaskPlaced(t)'
    BY <1>b, <1>c, <1>d, <1>4, <2>3 DEF Browser!Reject, TaskPlaced, BrowserTask
  <2>8. TaskAlone(t)'
    BY <2>3 DEF TaskAlone
  <2>9. task[t].at \notin {"drain", "close"}
    BY <1>4 DEF Browser!Reject
  <2> QED
    <3> HIDE DEF next
    <3> QED BY <1>b, <2>1, <2>2, <2>3, <2>4, <2>5, <2>6, <2>7, <2>8, <2>9, QuietMove
<1>5. ASSUME NEW t \in Tasks, Browser!Save(t) PROVE BrowserInv'
  <2> DEFINE next == [task[t] EXCEPT !.at = "save", !.partial = Head(task[t].batch)]
  <2>1. task' = [task EXCEPT ![t] = next]
    BY <1>5, <1>b DEF Browser!Save, BrowserTask
  <2>2. next \in BrowserTask
    BY <1>d, <1>5, NoWorkType, BatchTail DEF Browser!Save, BrowserTask
  <2>3. task'[t] = next /\ next.at = "save"
    BY <1>b, <1>d, <1>5, <2>1 DEF Browser!Save, BrowserTask
  <2>4. DownloadsEnd
    BY <1>a, <1>5, DownloadsSame DEF Browser!Save
  <2>5. /\ UNCHANGED <<playwright, drivers, browsers, started, sessions>>
        /\ guard' \in Tasks \cup {Other, None} /\ \A u \in Tasks \ {t} : (guard' = u) <=> (guard = u)
    BY <1>a, <1>c, <1>5 DEF Browser!Save, TaskPlaced, BrowserTypes
  <2>6. UNCHANGED managers
    BY <1>5 DEF Browser!Save
  <2>7. TaskPlaced(t)'
    BY <1>b, <1>c, <1>d, <1>5, <2>3 DEF Browser!Save, TaskPlaced, BrowserTask
  <2>8. TaskAlone(t)'
    BY <2>3 DEF TaskAlone
  <2>9. task[t].at \notin {"drain", "close"}
    BY <1>5 DEF Browser!Save
  <2> QED
    <3> HIDE DEF next
    <3> QED BY <1>b, <2>1, <2>2, <2>3, <2>4, <2>5, <2>6, <2>7, <2>8, <2>9, QuietMove
<1>6. ASSUME NEW t \in Tasks, Browser!Saved(t) PROVE BrowserInv'
  <2> DEFINE next == [task[t] EXCEPT !.batch = Tail(@), !.partial = None, !.at = "collect"]
  <2>1. task' = [task EXCEPT ![t] = next]
    BY <1>6, <1>b DEF Browser!Saved, BrowserTask
  <2>2. next \in BrowserTask
    BY <1>d, <1>6, NoWorkType, BatchTail DEF Browser!Saved, BrowserTask
  <2>3. task'[t] = next /\ next.at = "collect"
    BY <1>b, <1>d, <1>6, <2>1 DEF Browser!Saved, BrowserTask
  <2>4. DownloadsEnd
    BY <1>b, <1>6 DEF Browser!Saved, DownloadsEnd, Download
  <2>5. /\ UNCHANGED <<playwright, drivers, browsers, started, sessions>>
        /\ guard' \in Tasks \cup {Other, None} /\ \A u \in Tasks \ {t} : (guard' = u) <=> (guard = u)
    BY <1>a, <1>c, <1>6 DEF Browser!Saved, TaskPlaced, BrowserTypes
  <2>6. managers' \in [Tasks -> Manager \cup {None}] /\ \A u \in Tasks \ {t} : managers'[u] = managers[u]
    BY <1>b, <1>c, <1>6 DEF Browser!Saved, Manager, TaskPlaced
  <2>7. TaskPlaced(t)'
    <3>1. managers'[t] # None /\ managers'[t].records = managers[t].records + 1 /\ managers'[t].records <= MaxRecords
      <4>1. task[t].at \in {"save", "failed"} /\ managers[t] \in Manager /\ managers[t].records < MaxRecords
        BY <1>c, <1>d, <1>6 DEF Browser!Saved, TaskPlaced
      <4>2. managers'[t] = [managers[t] EXCEPT !.records = @ + 1]
        BY <1>b, <1>6 DEF Browser!Saved
      <4>3. [managers[t] EXCEPT !.records = @ + 1] \in Manager
        BY <4>1 DEF Manager
      <4> QED BY <4>1, <4>2, <4>3, NoneApart DEF Manager
    <3>2. task[t].at \in {"save", "failed"} /\ UNCHANGED guard
      BY <1>6 DEF Browser!Saved
    <3> QED BY <1>c, <1>d, <2>3, <2>5, <3>1, <3>2 DEF TaskPlaced, BrowserTask
  <2>8. TaskAlone(t)'
    BY <2>3 DEF TaskAlone
  <2>9. task[t].at \notin {"drain", "close"}
    BY <1>6 DEF Browser!Saved
  <2> QED
    <3> HIDE DEF next
    <3> QED BY <1>b, <2>1, <2>2, <2>3, <2>4, <2>5, <2>6, <2>7, <2>8, <2>9, QuietMove
<1>7. ASSUME NEW t \in Tasks, Browser!SaveFails(t) PROVE BrowserInv'
  <2> DEFINE next == [task[t] EXCEPT !.at = "failed"]
  <2>1. task' = [task EXCEPT ![t] = next]
    BY <1>7, <1>b DEF Browser!SaveFails, BrowserTask
  <2>2. next \in BrowserTask
    BY <1>d, <1>7, NoWorkType, BatchTail DEF Browser!SaveFails, BrowserTask
  <2>3. task'[t] = next /\ next.at = "failed"
    BY <1>b, <1>d, <1>7, <2>1 DEF Browser!SaveFails, BrowserTask
  <2>4. DownloadsEnd
    BY <1>a, <1>7, DownloadsSame DEF Browser!SaveFails
  <2>5. /\ UNCHANGED <<playwright, drivers, browsers, started, sessions>>
        /\ guard' \in Tasks \cup {Other, None} /\ \A u \in Tasks \ {t} : (guard' = u) <=> (guard = u)
    BY <1>a, <1>c, <1>7 DEF Browser!SaveFails, TaskPlaced, BrowserTypes
  <2>6. UNCHANGED managers
    BY <1>7 DEF Browser!SaveFails
  <2>7. TaskPlaced(t)'
    BY <1>b, <1>c, <1>d, <1>7, <2>3 DEF Browser!SaveFails, TaskPlaced, BrowserTask
  <2>8. TaskAlone(t)'
    BY <2>3 DEF TaskAlone
  <2>9. task[t].at \notin {"drain", "close"}
    BY <1>7 DEF Browser!SaveFails
  <2> QED
    <3> HIDE DEF next
    <3> QED BY <1>b, <2>1, <2>2, <2>3, <2>4, <2>5, <2>6, <2>7, <2>8, <2>9, QuietMove
<1>8. ASSUME NEW t \in Tasks, Browser!NotSaved(t) PROVE BrowserInv'
  <2> DEFINE next == [task[t] EXCEPT !.batch = Tail(@), !.partial = None, !.at = "collect"]
  <2>1. task' = [task EXCEPT ![t] = next]
    BY <1>8, <1>b DEF Browser!NotSaved, BrowserTask
  <2>2. next \in BrowserTask
    BY <1>d, <1>8, NoWorkType, BatchTail DEF Browser!NotSaved, BrowserTask
  <2>3. task'[t] = next /\ next.at = "collect"
    BY <1>b, <1>d, <1>8, <2>1 DEF Browser!NotSaved, BrowserTask
  <2>4. DownloadsEnd
    BY <1>a, <1>b, <1>8, DownloadCancelled, DownloadsSame DEF Browser!NotSaved
  <2>5. /\ UNCHANGED <<playwright, drivers, browsers, started, sessions>>
        /\ guard' \in Tasks \cup {Other, None} /\ \A u \in Tasks \ {t} : (guard' = u) <=> (guard = u)
    BY <1>a, <1>c, <1>8 DEF Browser!NotSaved, TaskPlaced, BrowserTypes
  <2>6. managers' \in [Tasks -> Manager \cup {None}] /\ \A u \in Tasks \ {t} : managers'[u] = managers[u]
    BY <1>b, <1>c, <1>8 DEF Browser!NotSaved, Manager, TaskPlaced
  <2>7. TaskPlaced(t)'
    <3>1. managers'[t] # None /\ managers'[t].records = managers[t].records + 1 /\ managers'[t].records <= MaxRecords
      <4>1. task[t].at \in {"save", "failed"} /\ managers[t] \in Manager /\ managers[t].records < MaxRecords
        BY <1>c, <1>d, <1>8 DEF Browser!NotSaved, TaskPlaced
      <4>2. managers'[t] = [managers[t] EXCEPT !.records = @ + 1]
        BY <1>b, <1>8 DEF Browser!NotSaved
      <4>3. [managers[t] EXCEPT !.records = @ + 1] \in Manager
        BY <4>1 DEF Manager
      <4> QED BY <4>1, <4>2, <4>3, NoneApart DEF Manager
    <3>2. task[t].at \in {"save", "failed"} /\ UNCHANGED guard
      BY <1>8 DEF Browser!NotSaved
    <3> QED BY <1>c, <1>d, <2>3, <2>5, <3>1, <3>2 DEF TaskPlaced, BrowserTask
  <2>8. TaskAlone(t)'
    BY <2>3 DEF TaskAlone
  <2>9. task[t].at \notin {"drain", "close"}
    BY <1>8 DEF Browser!NotSaved
  <2> QED
    <3> HIDE DEF next
    <3> QED BY <1>b, <2>1, <2>2, <2>3, <2>4, <2>5, <2>6, <2>7, <2>8, <2>9, QuietMove
<1>9. ASSUME NEW t \in Tasks, Browser!Returns(t) PROVE BrowserInv'
  <2> DEFINE next == Browser!NoWork
  <2>1. task' = [task EXCEPT ![t] = next]
    BY <1>9, <1>b DEF Browser!Returns, BrowserTask
  <2>2. next \in BrowserTask
    BY <1>d, <1>9, NoWorkType, BatchTail DEF Browser!Returns, BrowserTask
  <2>3. task'[t] = next /\ next.at = "idle"
    BY <1>b, <1>d, <1>9, <2>1 DEF Browser!Returns, BrowserTask
  <2>4. DownloadsEnd
    BY <1>a, <1>9, DownloadsSame DEF Browser!Returns
  <2>5. /\ UNCHANGED <<playwright, drivers, browsers, started, sessions>>
        /\ guard' \in Tasks \cup {Other, None} /\ \A u \in Tasks \ {t} : (guard' = u) <=> (guard = u)
    BY <1>a, <1>c, <1>9 DEF Browser!Returns, TaskPlaced, BrowserTypes
  <2>6. UNCHANGED managers
    BY <1>9 DEF Browser!Returns
  <2>7. TaskPlaced(t)'
    BY <1>b, <1>c, <1>d, <1>9, <2>3 DEF Browser!Returns, TaskPlaced, BrowserTask
  <2>8. TaskAlone(t)'
    BY <2>3 DEF TaskAlone
  <2>9. task[t].at \notin {"drain", "close"}
    BY <1>9 DEF Browser!Returns
  <2> QED
    <3> HIDE DEF next
    <3> QED BY <1>b, <2>1, <2>2, <2>3, <2>4, <2>5, <2>6, <2>7, <2>8, <2>9, QuietMove
<1>10. ASSUME NEW t \in Tasks, Browser!CollectStopped(t) PROVE BrowserInv'
  <2> DEFINE next == [task[t] EXCEPT !.at = "abort", !.stopped = TRUE]
  <2>1. task' = [task EXCEPT ![t] = next]
    BY <1>10, <1>b DEF Browser!CollectStopped, BrowserTask
  <2>2. next \in BrowserTask
    BY <1>d, <1>10, NoWorkType, BatchTail DEF Browser!CollectStopped, BrowserTask
  <2>3. task'[t] = next /\ next.at = "abort"
    BY <1>b, <1>d, <1>10, <2>1 DEF Browser!CollectStopped, BrowserTask
  <2>4. DownloadsEnd
    BY <1>a, <1>10, DownloadsSame DEF Browser!CollectStopped
  <2>5. /\ UNCHANGED <<playwright, drivers, browsers, started, sessions>>
        /\ guard' \in Tasks \cup {Other, None} /\ \A u \in Tasks \ {t} : (guard' = u) <=> (guard = u)
    BY <1>a, <1>c, <1>10 DEF Browser!CollectStopped, TaskPlaced, BrowserTypes
  <2>6. UNCHANGED managers
    BY <1>10 DEF Browser!CollectStopped
  <2>7. TaskPlaced(t)'
    BY <1>b, <1>c, <1>d, <1>10, <2>3 DEF Browser!CollectStopped, TaskPlaced, BrowserTask
  <2>8. TaskAlone(t)'
    BY <2>3 DEF TaskAlone
  <2>9. task[t].at \notin {"drain", "close"}
    BY <1>10 DEF Browser!CollectStopped
  <2> QED
    <3> HIDE DEF next
    <3> QED BY <1>b, <2>1, <2>2, <2>3, <2>4, <2>5, <2>6, <2>7, <2>8, <2>9, QuietMove
<1>11. ASSUME NEW t \in Tasks, Browser!Abort(t) PROVE BrowserInv'
  <2> DEFINE next == IF task[t].batch = <<>> THEN [Browser!NoWork EXCEPT !.at = "finish", !.stopped = TRUE, !.partial = None]
                 ELSE [task[t] EXCEPT !.batch = Tail(@)]
  <2>1. task' = [task EXCEPT ![t] = next]
    BY <1>11, <1>b DEF Browser!Abort, BrowserTask
  <2>2. next \in BrowserTask
    BY <1>d, <1>11, NoWorkType, BatchTail DEF Browser!Abort, BrowserTask
  <2>3. task'[t] = next /\ next.at \in {"abort", "finish"}
    BY <1>b, <1>d, <1>11, <2>1 DEF Browser!Abort, BrowserTask
  <2>4. DownloadsEnd
    BY <1>a, <1>b, <1>11, DownloadCancelled, DownloadsSame DEF Browser!Abort
  <2>5. /\ UNCHANGED <<playwright, drivers, browsers, started, sessions>>
        /\ guard' \in Tasks \cup {Other, None} /\ \A u \in Tasks \ {t} : (guard' = u) <=> (guard = u)
    BY <1>a, <1>c, <1>11 DEF Browser!Abort, TaskPlaced, BrowserTypes
  <2>6. UNCHANGED managers
    BY <1>11 DEF Browser!Abort
  <2>7. TaskPlaced(t)'
    BY <1>b, <1>c, <1>d, <1>11, <2>3 DEF Browser!Abort, TaskPlaced, BrowserTask
  <2>8. TaskAlone(t)'
    BY <2>3 DEF TaskAlone
  <2>9. task[t].at \notin {"drain", "close"}
    BY <1>11 DEF Browser!Abort
  <2> QED
    <3> HIDE DEF next
    <3> QED BY <1>b, <2>1, <2>2, <2>3, <2>4, <2>5, <2>6, <2>7, <2>8, <2>9, QuietMove
<1>12. ASSUME NEW t \in Tasks, Browser!CleanupSkipped(t) PROVE BrowserInv'
  <2> DEFINE next == [task[t] EXCEPT !.at = "ended"]
  <2>1. task' = [task EXCEPT ![t] = next]
    BY <1>12, <1>b DEF Browser!CleanupSkipped, BrowserTask
  <2>2. next \in BrowserTask
    BY <1>d, <1>12, NoWorkType, BatchTail DEF Browser!CleanupSkipped, BrowserTask
  <2>3. task'[t] = next /\ next.at = "ended"
    BY <1>b, <1>d, <1>12, <2>1 DEF Browser!CleanupSkipped, BrowserTask
  <2>4. DownloadsEnd
    BY <1>a, <1>12, DownloadsSame DEF Browser!CleanupSkipped
  <2>5. /\ UNCHANGED <<playwright, drivers, browsers, started, sessions>>
        /\ guard' \in Tasks \cup {Other, None} /\ \A u \in Tasks \ {t} : (guard' = u) <=> (guard = u)
    BY <1>a, <1>c, <1>12 DEF Browser!CleanupSkipped, TaskPlaced, BrowserTypes
  <2>6. UNCHANGED managers
    BY <1>12 DEF Browser!CleanupSkipped
  <2>7. TaskPlaced(t)'
    BY <1>b, <1>c, <1>d, <1>12, <2>3 DEF Browser!CleanupSkipped, TaskPlaced, BrowserTask
  <2>8. TaskAlone(t)'
    BY <2>3 DEF TaskAlone
  <2>9. task[t].at \notin {"drain", "close"}
    BY <1>12 DEF Browser!CleanupSkipped
  <2> QED
    <3> HIDE DEF next
    <3> QED BY <1>b, <2>1, <2>2, <2>3, <2>4, <2>5, <2>6, <2>7, <2>8, <2>9, QuietMove
<1>13. ASSUME NEW t \in Tasks, Browser!Drain(t) PROVE BrowserInv'
  <2> DEFINE next == IF task[t].batch = <<>> THEN [task[t] EXCEPT !.at = "close"] ELSE [task[t] EXCEPT !.batch = Tail(@)]
  <2>1. task' = [task EXCEPT ![t] = next]
    BY <1>13, <1>b DEF Browser!Drain, BrowserTask
  <2>2. next \in BrowserTask
    BY <1>d, <1>13, NoWorkType, BatchTail DEF Browser!Drain, BrowserTask
  <2>3. task'[t] = next /\ next.at \in {"drain", "close"}
    BY <1>b, <1>d, <1>13, <2>1 DEF Browser!Drain, BrowserTask
  <2>4. DownloadsEnd
    BY <1>a, <1>b, <1>13, DownloadCancelled, DownloadsSame DEF Browser!Drain
  <2>5. /\ UNCHANGED <<playwright, drivers, browsers, started, sessions>>
        /\ guard' \in Tasks \cup {Other, None} /\ \A u \in Tasks \ {t} : (guard' = u) <=> (guard = u)
    BY <1>a, <1>c, <1>13 DEF Browser!Drain, TaskPlaced, BrowserTypes
  <2>6. UNCHANGED managers
    BY <1>13 DEF Browser!Drain
  <2>7. TaskPlaced(t)'
    BY <1>b, <1>c, <1>d, <1>13, <2>3 DEF Browser!Drain, TaskPlaced, BrowserTask
  <2>8. TaskAlone(t)'
    BY <1>a, <1>c, <1>d, <1>13, <2>3 DEF Browser!Drain, TaskPlaced, TaskAlone, BrowserTask
  <2>9. next.browser = task[t].browser
    BY <1>d DEF BrowserTask
  <2> QED
    <3> HIDE DEF next
    <3> QED BY <1>b, <2>1, <2>2, <2>3, <2>4, <2>5, <2>6, <2>7, <2>8, <2>9, QuietMove
<1>14. ASSUME NEW t \in Tasks, Browser!Continued(t) PROVE BrowserInv'
  <2> DEFINE next == Browser!NoWork
  <2>1. task' = [task EXCEPT ![t] = next]
    BY <1>14, <1>b DEF Browser!Continued, BrowserTask
  <2>2. next \in BrowserTask
    BY <1>d, <1>14, NoWorkType, BatchTail DEF Browser!Continued, BrowserTask
  <2>3. task'[t] = next /\ next.at = "idle"
    BY <1>b, <1>d, <1>14, <2>1 DEF Browser!Continued, BrowserTask
  <2>4. DownloadsEnd
    BY <1>a, <1>14, DownloadsSame DEF Browser!Continued
  <2>5. /\ UNCHANGED <<playwright, drivers, browsers, started, sessions>>
        /\ guard' \in Tasks \cup {Other, None} /\ \A u \in Tasks \ {t} : (guard' = u) <=> (guard = u)
    BY <1>a, <1>c, <1>14 DEF Browser!Continued, TaskPlaced, BrowserTypes
  <2>6. UNCHANGED managers
    BY <1>14 DEF Browser!Continued
  <2>7. TaskPlaced(t)'
    BY <1>b, <1>c, <1>d, <1>14, <2>3 DEF Browser!Continued, TaskPlaced, BrowserTask
  <2>8. TaskAlone(t)'
    BY <2>3 DEF TaskAlone
  <2>9. task[t].at \notin {"drain", "close"}
    BY <1>14 DEF Browser!Continued
  <2> QED
    <3> HIDE DEF next
    <3> QED BY <1>b, <2>1, <2>2, <2>3, <2>4, <2>5, <2>6, <2>7, <2>8, <2>9, QuietMove
<1>15. ASSUME NEW t \in Tasks, Browser!RunEnds(t) PROVE BrowserInv'
  <2>0. PICK stop \in BOOLEAN : task' = [task EXCEPT ![t].at = "finish", ![t].stopped = stop]
    BY <1>15 DEF Browser!RunEnds
  <2> DEFINE next == [task[t] EXCEPT !.at = "finish", !.stopped = stop]
  <2>1. task' = [task EXCEPT ![t] = next]
    BY <2>0, <1>b DEF BrowserTask
  <2>2. next \in BrowserTask /\ next.at = "finish" /\ task[t].at = "idle"
    <3>1. task[t] \in BrowserTask /\ stop \in BOOLEAN /\ task[t].at = "idle"
      BY <1>d, <1>15 DEF Browser!RunEnds
    <3> QED BY <3>1 DEF BrowserTask
  <2>3. task'[t] = next
    BY <1>b, <2>1
  <2>4. DownloadsEnd
    BY <1>a, <1>15, DownloadsSame DEF Browser!RunEnds
  <2>5. UNCHANGED <<playwright, drivers, browsers, started, sessions, managers, guard>>
    BY <1>15 DEF Browser!RunEnds
  <2>6. TaskPlaced(t)'
    BY <1>c, <1>d, <2>2, <2>3, <2>5 DEF TaskPlaced, BrowserTask
  <2>7. TaskAlone(t)'
    BY <2>2, <2>3 DEF TaskAlone
  <2> QED
    <3> HIDE DEF next
    <3> QED BY <1>a, <1>b, <2>1, <2>2, <2>4, <2>5, <2>6, <2>7, QuietMove DEF BrowserTypes
<1>16. ASSUME Browser!BrowserDies PROVE BrowserInv'
  <2>0. PICK b \in browsers :
          /\ b.driver \notin drivers \/ b.closing
          /\ browsers' = browsers \ {b} /\ downloads' = Browser!Ended(b.number)
          /\ UNCHANGED <<playwright, drivers, started, sessions, managers, guard, task>>
    BY <1>16 DEF Browser!BrowserDies
  <2>1. DownloadsEnd /\ \A f \in Downloads : downloads'[f].state = "running" => downloads'[f].in # b.number
    BY <1>b, <2>0, DownloadsWithBrowser
  <2>2. BrowserTypes'
    BY <1>a, <2>0, <2>1 DEF BrowserTypes, DownloadsEnd
  <2>3. Numbered'
    BY <1>a, <2>0 DEF Numbered
  <2>4. TasksPlaced' /\ TasksAlone'
    BY <1>a, <2>0 DEF TasksPlaced, TaskPlaced, TasksAlone, TaskAlone
  <2>5. Browser!SessionRuns'
    BY <1>a, <2>0 DEF Browser!SessionRuns, Numbered
  <2>6. DownloadsHeld'
    <3>1. ASSUME NEW t \in Tasks, NEW c \in browsers, Holds(c, t)
          PROVE  \/ \E d \in browsers' : d.number = c.number /\ Holds(d, t)'
                 \/ \A f \in Downloads : Runs(t, f)' => downloads'[f].in # c.number
      BY <2>0, <2>1, <3>1 DEF Holds, Runs
    <3> QED BY <1>a, <2>1, <3>1, DownloadsKept
  <2> QED BY <2>2, <2>3, <2>4, <2>5, <2>6 DEF BrowserInv
<1>17. ASSUME Browser!OtherCall PROVE BrowserInv'
  <2>1. BrowserTypes' /\ Numbered'
    BY <1>a, <1>17 DEF Browser!OtherCall, BrowserTypes, Numbered
  <2>2. TasksPlaced' /\ TasksAlone'
    BY <1>a, <1>17 DEF Browser!OtherCall, TasksPlaced, TaskPlaced, TasksAlone, TaskAlone
  <2>3. DownloadsHeld' /\ Browser!SessionRuns'
    BY <1>a, <1>17 DEF Browser!OtherCall, DownloadsHeld, Runs, Holds, Browser!SessionRuns
  <2> QED BY <2>1, <2>2, <2>3 DEF BrowserInv
<1>18. ASSUME NEW t \in Tasks, NEW f \in Downloads, Browser!Receive(t, f) PROVE BrowserInv'
  <2> DEFINE where == downloads'[f].in
  <2>1. /\ where \in Nat /\ downloads' = [downloads EXCEPT ![f] = [of |-> t, in |-> where, state |-> "running"]]
        /\ \E b \in browsers : b.number = where
        /\ where = sessions[t] \/ (where = task[t].browser /\ task[t].at \in {"drain", "close"})
    BY <1>a, <1>b, <1>18 DEF Browser!Receive, BrowserTypes
  <2>2. /\ managers' \in [Tasks -> Manager \cup {None}]
        /\ \A u \in Tasks :
              /\ managers'[u] = None <=> managers[u] = None
              /\ managers[u] # None => managers'[u].records = managers[u].records
    <3>1. CASE UNCHANGED managers
      BY <1>b, <3>1
    <3>2. CASE sessions[t] # None /\ managers' = [managers EXCEPT ![t].pending = Append(@, f)]
      <4>1. managers[t] \in Manager
        BY <1>b, <1>c, <3>2 DEF TaskPlaced
      <4>2. [managers[t] EXCEPT !.pending = Append(@, f)] \in Manager
        BY <4>1, AppendProperties DEF Manager
      <4>3. managers' = [managers EXCEPT ![t] = [managers[t] EXCEPT !.pending = Append(@, f)]]
        BY <3>2
      <4> QED BY <1>b, <4>1, <4>2, <4>3 DEF Manager
    <3> QED BY <1>18, <3>1, <3>2 DEF Browser!Receive
  <2>3. UNCHANGED <<playwright, drivers, browsers, started, sessions, guard, task>>
    BY <1>18 DEF Browser!Receive
  <2>4. BrowserTypes'
    <3>1. [of |-> t, in |-> where, state |-> "running"] \in Download
      BY <2>1 DEF Download
    <3> HIDE DEF where
    <3>2. downloads' \in [Downloads -> Download]
      BY <1>b, <2>1, <3>1
    <3> QED BY <1>a, <2>2, <2>3, <3>2 DEF BrowserTypes
  <2>5. Numbered' /\ TasksAlone' /\ Browser!SessionRuns'
    BY <1>a, <2>3 DEF Numbered, TasksAlone, TaskAlone, Browser!SessionRuns
  <2>6. TasksPlaced'
    <3>1. ASSUME NEW u \in Tasks PROVE TaskPlaced(u)'
      <4>1. sessions'[u] = sessions[u] /\ task'[u] = task[u] /\ guard' = guard
        BY <2>3
      <4>2. (managers'[u] = None <=> managers[u] = None) /\ (managers[u] # None => managers'[u].records = managers[u].records)
        BY <2>2
      <4> QED BY <1>c, <4>1, <4>2 DEF TaskPlaced
    <3> QED BY <3>1 DEF TasksPlaced
  <2>7. DownloadsHeld'
    <3>1. ASSUME NEW u \in Tasks, NEW g \in Downloads, Runs(u, g)'
          PROVE  \E b \in browsers' : b.number = downloads'[g].in /\ Holds(b, u)'
      <4>1. CASE g = f
        BY <1>b, <2>1, <2>3, <3>1, <4>1 DEF Runs, Holds
      <4>2. CASE g # f
        BY <1>a, <1>b, <2>1, <2>3, <3>1, <4>2 DEF Runs, Holds, DownloadsHeld
      <4> QED BY <4>1, <4>2
    <3> QED BY <3>1 DEF DownloadsHeld
  <2> QED BY <2>4, <2>5, <2>6, <2>7 DEF BrowserInv
<1>19. ASSUME NEW t \in Tasks, Browser!StartDriver(t) PROVE BrowserInv'
  <2> DEFINE next == [task[t] EXCEPT !.at = "launch"]
  <2>1. task' = [task EXCEPT ![t] = next] /\ task[t].at = "driver"
    BY <1>b, <1>19 DEF Browser!StartDriver, BrowserTask
  <2>2. next \in BrowserTask /\ next.at = "launch" /\ next.partial = task[t].partial /\ next.clean = task[t].clean
    BY <1>d DEF BrowserTask
  <2>3. task'[t] = next
    BY <1>b, <2>1
  <2>4. /\ started' = started + 1 /\ drivers' = drivers \cup {started'} /\ playwright' = started'
        /\ UNCHANGED <<browsers, sessions, managers, guard, downloads>>
    BY <1>19 DEF Browser!StartDriver
  <2> HIDE DEF next
  <2>5. guard = t /\ playwright = None /\ (\A u \in Tasks : sessions[u] = None) /\ started \in 0 .. MaxLaunches - 1
    <3>1. guard = t /\ playwright = None
      BY <1>c, <2>1 DEF TaskPlaced, TaskAlone
    <3>2. started \in 0 .. MaxLaunches - 1
      BY <1>a, <1>19 DEF Numbered, Browser!StartDriver
    <3> QED BY <1>a, <3>1, <3>2 DEF Browser!SessionRuns, BrowserTypes
  <2>6. TaskPlaced(t)'
    BY <1>c, <2>1, <2>2, <2>3, <2>4 DEF TaskPlaced
  <2>7. TaskAlone(t)'
    BY <2>2, <2>3 DEF TaskAlone
  <2>8. TasksPlaced' /\ TasksAlone' /\ task' \in [Tasks -> BrowserTask]
        /\ \A u \in Tasks \ {t} : task'[u] = task[u]
    BY <2>1, <2>2, <2>4, <2>5, <2>6, <2>7, GuardedMove
  <2>9. Numbered'
    BY <1>a, <2>4, <2>5 DEF Numbered
  <2>10. BrowserTypes'
    BY <1>a, <2>4, <2>5, <2>8 DEF BrowserTypes
  <2>11. Browser!SessionRuns'
    BY <2>4, <2>5 DEF Browser!SessionRuns
  <2>12. DownloadsHeld'
    <3>1. \A u \in Tasks : \A b \in browsers : Holds(b, u) => Holds(b, u)'
      BY <1>a, <2>1, <2>4, <2>5, <2>8 DEF Holds, Numbered
    <3> QED BY <1>a, <2>4, <3>1, DownloadsSame, DownloadsKept
  <2> QED BY <2>8, <2>9, <2>10, <2>11, <2>12 DEF BrowserInv
<1>20. ASSUME NEW t \in Tasks, Browser!Launch(t) PROVE BrowserInv'
  <2> DEFINE next == [task[t] EXCEPT !.at = "page", !.browser = started + 1]
             new == [number |-> started + 1, driver |-> playwright, closing |-> FALSE]
  <2>1. task' = [task EXCEPT ![t] = next] /\ task[t].at = "launch"
    BY <1>b, <1>20 DEF Browser!Launch, BrowserTask
  <2>2. started \in 0 .. MaxLaunches - 1 /\ playwright \in drivers
    BY <1>a, <1>20 DEF Numbered, Browser!Launch
  <2>3. /\ next \in BrowserTask /\ next.at = "page" /\ next.browser = started + 1
        /\ next.partial = task[t].partial /\ next.clean = task[t].clean
    <3>1. started + 1 \in Nat /\ task[t] \in BrowserTask
      BY <1>d, <2>2
    <3> QED BY <3>1 DEF BrowserTask
  <2>4. task'[t] = next
    BY <1>b, <2>1
  <2>5. /\ started' = started + 1 /\ browsers' = browsers \cup {new}
        /\ UNCHANGED <<playwright, drivers, sessions, managers, guard, downloads>>
    BY <1>20 DEF Browser!Launch
  <2>6. new \in [number : Nat, driver : Nat, closing : BOOLEAN]
        /\ new.number = started + 1 /\ new.driver = playwright /\ new.closing = FALSE
        /\ new.driver \in 1..started
    BY <1>a, <2>2 DEF Numbered
  <2> HIDE DEF next, new
  <2>7. guard = t /\ \A b \in browsers : b.number # started + 1
    BY <1>a, <1>c, <2>1 DEF TaskPlaced, Numbered
  <2>8. TaskPlaced(t)'
    BY <1>c, <2>1, <2>3, <2>4, <2>5 DEF TaskPlaced
  <2>9. TaskAlone(t)'
    <3>1. \A u \in Tasks : sessions[u] # started + 1
      BY <1>a, <2>2 DEF Numbered
    <3> QED BY <2>2, <2>3, <2>4, <2>5, <2>6, <2>7, <3>1 DEF TaskAlone
  <2>10. TasksPlaced' /\ TasksAlone' /\ task' \in [Tasks -> BrowserTask]
         /\ \A u \in Tasks \ {t} : task'[u] = task[u]
    BY <2>1, <2>3, <2>5, <2>7, <2>8, <2>9, GuardedMove
  <2>11. Numbered'
    BY <1>a, <2>2, <2>5, <2>6, <2>7 DEF Numbered
  <2>12. BrowserTypes'
    BY <1>a, <2>5, <2>6, <2>10 DEF BrowserTypes
  <2>13. Browser!SessionRuns'
    BY <1>a, <2>5 DEF Browser!SessionRuns
  <2>14. DownloadsHeld'
    <3>1. \A u \in Tasks : \A b \in browsers : Holds(b, u) => Holds(b, u)'
      BY <2>1, <2>5, <2>10 DEF Holds
    <3> QED BY <1>a, <2>5, <3>1, DownloadsSame, DownloadsKept
  <2> QED BY <2>10, <2>11, <2>12, <2>13, <2>14 DEF BrowserInv
<1>21. ASSUME NEW t \in Tasks, Browser!OpenPage(t) PROVE BrowserInv'
  <2> DEFINE next == [task[t] EXCEPT !.at = "act", !.browser = None]
             here == task[t].browser
  <2>1. task' = [task EXCEPT ![t] = next] /\ task[t].at = "page" /\ \E b \in browsers : b.number = here
    BY <1>b, <1>21 DEF Browser!OpenPage, BrowserTask
  <2>2. /\ next \in BrowserTask /\ next.at = "act"
        /\ next.partial = task[t].partial /\ next.clean = task[t].clean
    BY <1>d DEF BrowserTask
  <2>3. task'[t] = next
    BY <1>b, <2>1
  <2>4. /\ sessions' = [sessions EXCEPT ![t] = here]
        /\ managers' = [managers EXCEPT ![t] = Browser!NewManager]
        /\ UNCHANGED <<playwright, drivers, browsers, started, guard, downloads>>
    BY <1>21 DEF Browser!OpenPage
  <2>5. Browser!NewManager \in Manager /\ Browser!NewManager.records = 0
    BY EmptySeq DEF Browser!NewManager, Manager
  <2> HIDE DEF next
  <2>6. /\ guard = t /\ here # None /\ playwright \in drivers /\ sessions[t] = None
        /\ \A b \in browsers : b.number = here => b.driver = playwright /\ ~b.closing
        /\ \A u \in Tasks : sessions[u] # here
    BY <1>c, <2>1 DEF TaskPlaced, TaskAlone
  <2>7. /\ sessions'[t] = here /\ \A u \in Tasks \ {t} : sessions'[u] = sessions[u]
        /\ managers'[t] = Browser!NewManager /\ \A u \in Tasks \ {t} : managers'[u] = managers[u]
        /\ sessions' \in [Tasks -> Nat \cup {None}] /\ managers' \in [Tasks -> Manager \cup {None}]
    BY <1>a, <1>b, <1>d, <2>4, <2>5 DEF BrowserTypes, BrowserTask
  <2> HIDE DEF here
  <2>8. TaskPlaced(t)'
    BY <1>c, <2>1, <2>2, <2>3, <2>4, <2>5, <2>6, <2>7, NoneApart DEF TaskPlaced
  <2>9. TaskAlone(t)'
    BY <2>2, <2>3 DEF TaskAlone
  <2>10. TasksPlaced' /\ TasksAlone' /\ task' \in [Tasks -> BrowserTask]
         /\ \A u \in Tasks \ {t} : task'[u] = task[u]
    BY <2>1, <2>2, <2>4, <2>6, <2>7, <2>8, <2>9, GuardedMove
  <2>11. Numbered'
    BY <1>a, <2>1, <2>4, <2>7 DEF Numbered
  <2>12. BrowserTypes'
    BY <1>a, <2>4, <2>7, <2>10 DEF BrowserTypes
  <2>13. Browser!SessionRuns'
    <3>1. ASSUME NEW u \in Tasks, sessions'[u] # None
          PROVE  /\ \E b \in browsers : b.number = sessions'[u] /\ b.driver = playwright /\ ~b.closing
                 /\ playwright \in drivers
                 /\ \A v \in Tasks \ {u} : sessions'[v] # sessions'[u]
      BY <1>a, <2>1, <2>6, <2>7, <3>1 DEF Browser!SessionRuns
    <3> QED BY <2>4, <3>1 DEF Browser!SessionRuns
  <2>14. DownloadsHeld'
    <3>1. \A u \in Tasks : \A b \in browsers : Holds(b, u) => Holds(b, u)'
      BY <1>a, <2>1, <2>4, <2>6, <2>7, <2>10 DEF Holds, BrowserTypes
    <3> QED BY <1>a, <2>4, <3>1, DownloadsSame, DownloadsKept
  <2> QED BY <2>10, <2>11, <2>12, <2>13, <2>14 DEF BrowserInv
<1>22. ASSUME NEW t \in Tasks, Browser!Stopped(t) PROVE BrowserInv'
  <2> DEFINE next == [Browser!NoWork EXCEPT !.at = "finish", !.stopped = TRUE, !.partial = None]
             new == [number |-> started + 1, driver |-> playwright, closing |-> FALSE]
  <2>1. /\ task' = [task EXCEPT ![t] = next] /\ guard' = None
        /\ task[t].at \in Browser!InGuard \ {"drain", "close"}
        /\ UNCHANGED <<playwright, sessions, managers, downloads>>
    BY <1>22 DEF Browser!Stopped
  <2>2. \/ UNCHANGED <<drivers, browsers, started>>
        \/ /\ started < MaxLaunches /\ started' = started + 1
           /\ drivers' = drivers \cup {started'} /\ UNCHANGED browsers
        \/ /\ started < MaxLaunches /\ started' = started + 1
           /\ playwright \in drivers /\ UNCHANGED drivers /\ browsers' = browsers \cup {new}
    BY <1>22 DEF Browser!Stopped
  <2>3. next \in BrowserTask /\ next.at = "finish" /\ next.partial = None /\ next.clean = FALSE
    BY NoWorkType DEF BrowserTask
  <2>4. playwright \in drivers /\ started < MaxLaunches =>
            /\ new \in [number : Nat, driver : Nat, closing : BOOLEAN]
            /\ new.number = started + 1 /\ new.driver = playwright /\ new.driver \in 1..started
    BY <1>a DEF Numbered
  <2> HIDE DEF next, new
  <2>5. task'[t] = next
    BY <1>b, <2>1
  <2>6. guard = t
    BY <1>c, <2>1 DEF TaskPlaced
  <2>7. TaskPlaced(t)'
    BY <1>c, <2>1, <2>3, <2>5 DEF TaskPlaced
  <2>8. TaskAlone(t)'
    BY <2>3, <2>5 DEF TaskAlone
  <2>9. TasksPlaced' /\ TasksAlone' /\ task' \in [Tasks -> BrowserTask]
        /\ \A u \in Tasks \ {t} : task'[u] = task[u]
    BY <2>1, <2>3, <2>6, <2>7, <2>8, GuardedMove
  <2>10. Numbered' /\ browsers' \subseteq [number : Nat, driver : Nat, closing : BOOLEAN] /\ drivers' \subseteq Nat
    <3>1. CASE UNCHANGED <<drivers, browsers, started>>
      BY <1>a, <2>1, <3>1 DEF Numbered, BrowserTypes
    <3>2. CASE /\ started < MaxLaunches /\ started' = started + 1
               /\ drivers' = drivers \cup {started'} /\ UNCHANGED browsers
      BY <1>a, <2>1, <3>2 DEF Numbered, BrowserTypes
    <3>3. CASE /\ started < MaxLaunches /\ started' = started + 1
               /\ playwright \in drivers /\ UNCHANGED drivers /\ browsers' = browsers \cup {new}
      <4>1. /\ new \in [number : Nat, driver : Nat, closing : BOOLEAN]
            /\ new.number = started + 1 /\ new.driver \in 1..started
        BY <2>4, <3>3
      <4>2. \A b \in browsers : b.number # started + 1
        BY <1>a DEF Numbered
      <4>3. \A b \in browsers' : b.number \in 1..started' /\ b.driver \in 1..started'
        BY <1>a, <3>3, <4>1 DEF Numbered
      <4>4. \A b, c \in browsers' : b.number = c.number => b = c
        BY <1>a, <3>3, <4>1, <4>2 DEF Numbered
      <4>5. browsers' \subseteq [number : Nat, driver : Nat, closing : BOOLEAN] /\ drivers' \subseteq Nat
        BY <1>a, <3>3, <4>1 DEF BrowserTypes
      <4>6. /\ started' \in 0..MaxLaunches /\ drivers' \subseteq 1..started' /\ playwright' \in 1..started' \cup {None}
            /\ \A u \in Tasks : sessions'[u] \in 1..started' \cup {None}
        BY <1>a, <2>1, <3>3 DEF Numbered
      <4> QED BY <4>3, <4>4, <4>5, <4>6 DEF Numbered
    <3> QED BY <2>2, <3>1, <3>2, <3>3
  <2>11. BrowserTypes'
    BY <1>a, <2>1, <2>9, <2>10 DEF BrowserTypes
  <2>12. browsers \subseteq browsers' /\ drivers \subseteq drivers' /\ \A b \in browsers : b.driver \notin drivers => b.driver \notin drivers'
    BY <1>a, <2>2 DEF Numbered
  <2>13. Browser!SessionRuns'
    BY <1>a, <2>1, <2>12 DEF Browser!SessionRuns
  <2>14. DownloadsHeld'
    <3>1. \A u \in Tasks : \A b \in browsers : Holds(b, u) => Holds(b, u)'
      BY <2>1, <2>9, <2>12 DEF Holds
    <3> QED BY <1>a, <2>1, <2>12, <3>1, DownloadsSame, DownloadsKept
  <2> QED BY <2>9, <2>10, <2>11, <2>13, <2>14 DEF BrowserInv
<1>23. ASSUME NEW t \in Tasks, task[t].at \in {"idle", "finish"}, Browser!Cleanup(t) PROVE BrowserInv'
  <2> DEFINE batch == IF managers[t] = None THEN <<>> ELSE managers[t].pending
             next == [task[t] EXCEPT !.at = "drain", !.ends = (@ \/ task[t].at = "finish"),
                                     !.browser = sessions[t], !.batch = batch]
  <2>1. /\ task' = [task EXCEPT ![t] = next] /\ guard = None /\ guard' = t
        /\ sessions' = [sessions EXCEPT ![t] = None] /\ managers' = [managers EXCEPT ![t] = None]
        /\ UNCHANGED <<playwright, drivers, browsers, started, downloads>>
    BY <1>23 DEF Browser!Cleanup
  <2>2. batch \in Seq(Downloads)
    BY <1>d, EmptySeq
  <2> HIDE DEF batch
  <2>3. next \in BrowserTask /\ next.at = "drain" /\ next.browser = sessions[t]
        /\ next.partial = task[t].partial /\ next.clean = task[t].clean
    <3>1. task[t] \in BrowserTask /\ sessions[t] \in Nat \cup {None}
      BY <1>a, <1>d DEF BrowserTypes
    <3> QED BY <2>2, <3>1 DEF BrowserTask
  <2> HIDE DEF next
  <2>4. task'[t] = next
    BY <1>b, <2>1
  <2>5. /\ sessions'[t] = None /\ managers'[t] = None
        /\ \A u \in Tasks \ {t} : sessions'[u] = sessions[u] /\ managers'[u] = managers[u]
        /\ sessions' \in [Tasks -> Nat \cup {None}] /\ managers' \in [Tasks -> Manager \cup {None}]
    BY <1>a, <1>b, <2>1 DEF BrowserTypes
  <2>6. TaskPlaced(t)'
    BY <1>c, <1>23, <2>1, <2>3, <2>4, <2>5 DEF TaskPlaced
  <2>7. TaskAlone(t)'
    BY <1>a, <2>3, <2>4, <2>5 DEF TaskAlone, Browser!SessionRuns
  <2>8. TasksPlaced' /\ TasksAlone' /\ task' \in [Tasks -> BrowserTask]
        /\ \A u \in Tasks \ {t} : task'[u] = task[u]
    BY <2>1, <2>3, <2>5, <2>6, <2>7, GuardedMove
  <2>9. BrowserTypes' /\ Numbered'
    BY <1>a, <2>1, <2>5, <2>8 DEF BrowserTypes, Numbered
  <2>10. Browser!SessionRuns'
    <3>1. ASSUME NEW u \in Tasks, sessions'[u] # None
          PROVE  /\ \E b \in browsers : b.number = sessions'[u] /\ b.driver = playwright /\ ~b.closing
                 /\ playwright \in drivers
                 /\ \A v \in Tasks \ {u} : sessions'[v] # sessions'[u]
      BY <1>a, <2>5, <3>1 DEF Browser!SessionRuns
    <3> QED BY <2>1, <3>1 DEF Browser!SessionRuns
  <2>11. DownloadsHeld'
    <3>1. \A u \in Tasks : \A b \in browsers : Holds(b, u) => Holds(b, u)'
      BY <1>23, <2>1, <2>3, <2>4, <2>5, <2>8 DEF Holds
    <3> QED BY <1>a, <2>1, <3>1, DownloadsSame, DownloadsKept
  <2> QED BY <2>8, <2>9, <2>10, <2>11 DEF BrowserInv
<1>24. ASSUME NEW t \in Tasks, Browser!CloseBrowser(t) PROVE BrowserInv'
  <2> DEFINE here == task[t].browser
  <2>1. PICK raised \in BOOLEAN :
          /\ task' = [task EXCEPT ![t] = [task[t] EXCEPT !.browser = None, !.raised = raised]]
          /\ \/ browsers' = Browser!Gone(here) /\ downloads' = Browser!Ended(here)
             \/ /\ \A b \in browsers : b.number = here => b.driver \notin drivers
                /\ UNCHANGED <<browsers, downloads>>
    <3>1. /\ task[t].raised \in BOOLEAN
          /\ [task[t] EXCEPT !.browser = None] = [task[t] EXCEPT !.browser = None, !.raised = task[t].raised]
      BY <1>d DEF BrowserTask
    <3>2. CASE /\ browsers' = Browser!Gone(here) /\ downloads' = Browser!Ended(here)
               /\ task' = [task EXCEPT ![t].browser = None]
      <4>1. task' = [task EXCEPT ![t] = [task[t] EXCEPT !.browser = None]]
        BY <3>2
      <4>2. task' = [task EXCEPT ![t] = [task[t] EXCEPT !.browser = None, !.raised = task[t].raised]]
        BY <3>1, <4>1
      <4> QED BY <3>1, <3>2, <4>2
    <3>3. CASE /\ \A b \in browsers \ Browser!Gone(here) : b.driver \notin drivers
               /\ task' = [task EXCEPT ![t].browser = None, ![t].raised = TRUE]
               /\ UNCHANGED <<browsers, downloads>>
      BY <1>b, <3>3 DEF BrowserTask
    <3> QED BY <1>24, <3>2, <3>3 DEF Browser!CloseBrowser
  <2> DEFINE next == [task[t] EXCEPT !.browser = None, !.raised = raised]
  <2>2. /\ task[t].at = "close" /\ here # None
        /\ UNCHANGED <<playwright, drivers, started, sessions, managers, guard>>
    BY <1>24 DEF Browser!CloseBrowser
  <2>3. next \in BrowserTask /\ next.at = "close" /\ next.browser = None
        /\ next.partial = task[t].partial /\ next.clean = task[t].clean
    BY <1>d, <2>2 DEF BrowserTask
  <2> HIDE DEF next
  <2>4. task'[t] = next
    BY <1>b, <2>1 DEF next
  <2>5. guard = t /\ \A u \in Tasks : sessions[u] # here
    BY <1>c, <2>2 DEF TaskPlaced, TaskAlone
  <2>6. TaskPlaced(t)' /\ TaskAlone(t)'
    BY <1>c, <2>2, <2>3, <2>4 DEF TaskPlaced, TaskAlone
  <2>7. TasksPlaced' /\ TasksAlone' /\ task' \in [Tasks -> BrowserTask]
        /\ \A u \in Tasks \ {t} : task'[u] = task[u]
    BY <2>1, <2>2, <2>3, <2>5, <2>6, GuardedMove DEF next
  <2>8. /\ DownloadsEnd /\ browsers' \subseteq browsers
        /\ \A b \in browsers \ browsers' : b.number = here /\ \A f \in Downloads : downloads'[f].state = "running" => downloads'[f].in # here
        /\ \A b \in browsers' : b.number = here => b.driver \notin drivers
    BY <1>a, <1>b, <2>1, DownloadsSame, DownloadsWithBrowser
  <2> HIDE DEF here
  <2>9. BrowserTypes' /\ Numbered'
    <3>1. downloads' \in [Downloads -> Download]
      BY <2>8 DEF DownloadsEnd
    <3> QED BY <1>a, <2>2, <2>7, <2>8, <3>1 DEF BrowserTypes, Numbered
  <2>10. Browser!SessionRuns'
    BY <1>a, <2>2, <2>5, <2>8 DEF Browser!SessionRuns
  <2>11. DownloadsHeld'
    <3>1. ASSUME NEW u \in Tasks, NEW b \in browsers, Holds(b, u)
          PROVE  \/ \E c \in browsers' : c.number = b.number /\ Holds(c, u)'
                 \/ \A f \in Downloads : Runs(u, f)' => downloads'[f].in # b.number
      <4>1. CASE b \notin browsers'
        BY <2>8, <4>1 DEF Runs
      <4>2. CASE b \in browsers'
        <5>1. CASE task[u].browser = b.number /\ task[u].at \in {"drain", "close"}
          <6>1. CASE u = t
            <7>1. b.number = here
              BY <5>1, <6>1 DEF here
            <7> QED BY <2>2, <2>8, <4>2, <7>1 DEF Holds
          <6>2. CASE u # t
            BY <2>7, <4>2, <5>1, <6>2 DEF Holds
          <6> QED BY <6>1, <6>2
        <5>2. CASE b.closing \/ b.driver \notin drivers \/ sessions[u] = b.number
          BY <2>2, <4>2, <5>2 DEF Holds
        <5> QED BY <3>1, <5>1, <5>2 DEF Holds
      <4> QED BY <4>1, <4>2
    <3> QED BY <1>a, <2>8, <3>1, DownloadsKept
  <2> QED BY <2>7, <2>9, <2>10, <2>11 DEF BrowserInv
<1>25. ASSUME NEW t \in Tasks, Browser!StopDriver(t) PROVE BrowserInv'
  <2>1. /\ task[t].at = "close" /\ task[t].browser = None
        /\ UNCHANGED <<playwright, browsers, started, sessions, managers, downloads>>
    BY <1>25 DEF Browser!StopDriver
  <2>2. guard = t /\ task[t].partial = None /\ ~task[t].clean /\ sessions[t] = None /\ managers[t] = None
    BY <1>c, <2>1 DEF TaskPlaced
  <2>3. CASE Browser!After(t, task[t].stopped) /\ UNCHANGED drivers
    <3>1. PICK next \in BrowserTask :
            /\ task' = [task EXCEPT ![t] = next] /\ next.at \in {"idle", "finish", "ended"}
            /\ next.partial = None /\ (next.clean => next.at = "ended")
      BY <1>b, <2>2, <2>3, AfterMoves
    <3>2. task'[t] = next /\ guard' = None
      BY <1>b, <2>3, <3>1 DEF Browser!After
    <3>3. TaskPlaced(t)' /\ TaskAlone(t)'
      BY <2>1, <2>2, <3>1, <3>2 DEF TaskPlaced, TaskAlone
    <3>4. \A u \in Tasks \ {t} : (guard' = u) <=> (guard = u)
      BY <2>2, <3>2
    <3> QED BY <1>a, <1>b, <2>1, <2>3, <3>1, <3>2, <3>3, <3>4, DownloadsSame, QuietMove
  <2>4. CASE /\ playwright # None /\ (\A u \in Tasks : sessions[u] = None)
             /\ task' = [task EXCEPT ![t].at = "stop"] /\ drivers' = drivers \ {playwright} /\ UNCHANGED guard
    <3> DEFINE next == [task[t] EXCEPT !.at = "stop"]
    <3>1. task' = [task EXCEPT ![t] = next]
      BY <2>4
    <3>2. /\ next \in BrowserTask /\ next.at = "stop" /\ next.browser = None
          /\ next.partial = None /\ next.clean = FALSE
      BY <1>d, <2>1, <2>2 DEF BrowserTask
    <3> HIDE DEF next
    <3>3. task'[t] = next
      BY <1>b, <3>1
    <3>4. TaskPlaced(t)' /\ TaskAlone(t)'
      BY <2>1, <2>2, <2>4, <3>2, <3>3 DEF TaskPlaced, TaskAlone
    <3>5. TasksPlaced' /\ TasksAlone' /\ task' \in [Tasks -> BrowserTask]
          /\ \A u \in Tasks \ {t} : task'[u] = task[u]
      BY <2>1, <2>2, <2>4, <3>1, <3>2, <3>4, GuardedMove
    <3>6. BrowserTypes' /\ Numbered'
      BY <1>a, <2>1, <2>4, <3>5 DEF BrowserTypes, Numbered
    <3>7. Browser!SessionRuns'
      BY <2>1, <2>4 DEF Browser!SessionRuns
    <3>8. DownloadsHeld'
      <4>1. ASSUME NEW u \in Tasks, NEW b \in browsers, Holds(b, u) PROVE Holds(b, u)'
        <5>1. CASE u = t
          <6>1. b.closing \/ b.driver \notin drivers
            BY <1>a, <2>1, <2>4, <4>1, <5>1 DEF Holds, Numbered
          <6> QED BY <2>4, <6>1 DEF Holds
        <5>2. CASE u # t
          BY <2>1, <2>4, <3>5, <4>1, <5>2 DEF Holds
        <5> QED BY <5>1, <5>2
      <4> QED BY <1>a, <2>1, <4>1, DownloadsSame, DownloadsKept
    <3> QED BY <3>5, <3>6, <3>7, <3>8 DEF BrowserInv
  <2> QED BY <1>25, <2>3, <2>4 DEF Browser!StopDriver
<1>26. ASSUME NEW t \in Tasks, Browser!StopEnds(t) PROVE BrowserInv'
  <2>1. /\ task[t].at = "stop" /\ playwright' \in {None, playwright}
        /\ UNCHANGED <<drivers, browsers, started, sessions, managers, downloads>>
    BY <1>26 DEF Browser!StopEnds
  <2>2. guard = t /\ task[t].partial = None /\ ~task[t].clean /\ sessions[t] = None /\ managers[t] = None
        /\ \A u \in Tasks : sessions[u] = None
    BY <1>c, <2>1 DEF TaskPlaced, TaskAlone
  <2>3. PICK next \in BrowserTask :
          /\ task' = [task EXCEPT ![t] = next] /\ next.at \in {"idle", "finish", "ended"}
          /\ next.partial = None /\ (next.clean => next.at = "ended")
    BY <1>b, <1>26, <2>2, AfterMoves DEF Browser!StopEnds
  <2>4. task'[t] = next /\ guard' = None
    BY <1>b, <1>26, <2>3 DEF Browser!After, Browser!StopEnds
  <2>5. TaskPlaced(t)' /\ TaskAlone(t)'
    BY <2>1, <2>2, <2>3, <2>4 DEF TaskPlaced, TaskAlone
  <2>6. TasksPlaced' /\ TasksAlone' /\ task' \in [Tasks -> BrowserTask]
        /\ \A u \in Tasks \ {t} : task'[u] = task[u]
    BY <2>1, <2>2, <2>3, <2>4, <2>5, GuardedMove
  <2>7. BrowserTypes' /\ Numbered'
    BY <1>a, <2>1, <2>4, <2>6 DEF BrowserTypes, Numbered
  <2>8. Browser!SessionRuns'
    BY <2>1, <2>2 DEF Browser!SessionRuns
  <2>9. DownloadsHeld'
    BY <1>a, <2>1, <2>6, DownloadsSame, HeldByMove
  <2> QED BY <2>6, <2>7, <2>8, <2>9 DEF BrowserInv
<1>27. ASSUME NEW t \in Tasks, Browser!Interrupted(t) PROVE BrowserInv'
  <2>0. UNCHANGED <<playwright, drivers, started, sessions, managers, downloads>>
    BY <1>27 DEF Browser!Interrupted
  <2>1. ASSUME NEW stop \in BOOLEAN, task[t].at = "drain",
               task' = [task EXCEPT ![t].at = "close", ![t].batch = <<>>, ![t].raised = TRUE,
                                    ![t].stopped = (@ \/ stop), ![t].late = (@ \/ ~stop)],
               UNCHANGED <<browsers, guard>>
        PROVE  BrowserInv'
    <3> DEFINE next == [task[t] EXCEPT !.at = "close", !.batch = <<>>, !.raised = TRUE,
                                       !.stopped = (@ \/ stop), !.late = (@ \/ ~stop)]
    <3>1. task' = [task EXCEPT ![t] = next]
      BY <2>1
    <3>2. /\ next \in BrowserTask /\ next.at = "close" /\ next.browser = task[t].browser
          /\ next.partial = task[t].partial /\ next.clean = task[t].clean
      BY <1>d, EmptySeq DEF BrowserTask
    <3> HIDE DEF next
    <3>3. task'[t] = next
      BY <1>b, <3>1
    <3>4. TaskPlaced(t)'
      BY <1>c, <2>0, <2>1, <3>2, <3>3 DEF TaskPlaced
    <3>5. TaskAlone(t)'
      BY <1>c, <2>0, <2>1, <3>2, <3>3 DEF TaskAlone
    <3> QED BY <1>a, <1>b, <2>0, <2>1, <3>1, <3>2, <3>4, <3>5, DownloadsSame, QuietMove DEF BrowserTypes
  <2>2. ASSUME NEW stop \in BOOLEAN, task[t].at = "close", task[t].browser # None,
               browsers' = Browser!Told(task[t].browser),
               task' = [task EXCEPT ![t].browser = None, ![t].raised = TRUE,
                                    ![t].stopped = (@ \/ stop), ![t].late = (@ \/ ~stop)],
               UNCHANGED guard
        PROVE  BrowserInv'
    <3> DEFINE here == task[t].browser
               next == [task[t] EXCEPT !.browser = None, !.raised = TRUE,
                                       !.stopped = (@ \/ stop), !.late = (@ \/ ~stop)]
               told(b) == IF b.number = here THEN [b EXCEPT !.closing = TRUE] ELSE b
    <3>1. task' = [task EXCEPT ![t] = next]
      BY <2>2
    <3>2. /\ next \in BrowserTask /\ next.at = "close" /\ next.browser = None
          /\ next.partial = task[t].partial /\ next.clean = task[t].clean
      <4>1. task[t] \in BrowserTask /\ task[t].at = "close"
        BY <1>d, <2>2
      <4>2. (task[t].stopped \/ stop) \in BOOLEAN /\ (task[t].late \/ ~stop) \in BOOLEAN
        OBVIOUS
      <4> QED BY <4>1, <4>2 DEF BrowserTask
    <3>3. browsers' = {told(b) : b \in browsers}
      BY <2>2 DEF Browser!Told
    <3>4. ASSUME NEW b \in browsers
          PROVE  /\ told(b) \in [number : Nat, driver : Nat, closing : BOOLEAN]
                 /\ told(b).number = b.number /\ told(b).driver = b.driver
                 /\ IF b.number = here THEN told(b).closing ELSE told(b) = b
      <4>1. b \in [number : Nat, driver : Nat, closing : BOOLEAN]
        BY <1>a DEF BrowserTypes
      <4> QED BY <4>1
    <3> HIDE DEF next, told
    <3>5. task'[t] = next
      BY <1>b, <3>1
    <3>6. guard = t /\ \A u \in Tasks : sessions[u] # here
      BY <1>c, <2>2 DEF TaskPlaced, TaskAlone
    <3>7. TaskPlaced(t)'
      BY <1>c, <2>0, <2>2, <3>2, <3>5 DEF TaskPlaced
    <3>8. TaskAlone(t)'
      BY <3>2, <3>5 DEF TaskAlone
    <3>9. TasksPlaced' /\ TasksAlone' /\ task' \in [Tasks -> BrowserTask]
          /\ \A u \in Tasks \ {t} : task'[u] = task[u]
      BY <2>0, <2>2, <3>1, <3>2, <3>6, <3>7, <3>8, GuardedMove
    <3>10. BrowserTypes'
      BY <1>a, <2>0, <2>2, <3>3, <3>4, <3>9 DEF BrowserTypes
    <3>11. Numbered'
      <4>1. /\ \A b \in browsers' : b.number \in 1..started /\ b.driver \in 1..started
            /\ \A b, c \in browsers' : b.number = c.number => b = c
        BY <1>a, <3>3, <3>4 DEF Numbered
      <4> QED BY <1>a, <2>0, <4>1 DEF Numbered
    <3> HIDE DEF here
    <3>12. Browser!SessionRuns'
      <4>1. ASSUME NEW u \in Tasks, sessions[u] # None
            PROVE  /\ \E b \in browsers' : b.number = sessions[u] /\ b.driver = playwright /\ ~b.closing
                   /\ playwright \in drivers
                   /\ \A v \in Tasks \ {u} : sessions[v] # sessions[u]
        <5>1. PICK b \in browsers : b.number = sessions[u] /\ b.driver = playwright /\ ~b.closing
          BY <1>a, <4>1 DEF Browser!SessionRuns
        <5>2. told(b) = b
          BY <3>4, <3>6, <5>1
        <5>3. b \in browsers'
          BY <3>3, <5>2
        <5> QED BY <1>a, <4>1, <5>1, <5>3 DEF Browser!SessionRuns
      <4> QED BY <2>0, <4>1 DEF Browser!SessionRuns
    <3>13. DownloadsHeld'
      <4>1. ASSUME NEW u \in Tasks, NEW b \in browsers, Holds(b, u)
            PROVE  \E c \in browsers' : c.number = b.number /\ Holds(c, u)'
        <5>1. told(b) \in browsers' /\ told(b).number = b.number /\ told(b).driver = b.driver
          BY <3>3, <3>4
        <5>2. CASE b.number = here
          BY <3>4, <5>1, <5>2 DEF Holds
        <5>3. CASE b.number # here
          <6>1. told(b) = b
            BY <3>4, <5>3
          <6>2. CASE u = t
            <7>1. Holds(b, u)'
              BY <2>0, <3>3, <4>1, <5>3, <6>2 DEF Holds, here
            <7> QED BY <5>1, <6>1, <7>1
          <6>3. CASE u # t
            BY <2>0, <3>9, <4>1, <5>1, <6>1, <6>3 DEF Holds
          <6> QED BY <5>1, <6>1, <6>2, <6>3
        <5> QED BY <5>2, <5>3
      <4> QED BY <1>a, <2>0, <4>1, DownloadsSame, DownloadsKept
    <3> QED BY <3>9, <3>10, <3>11, <3>12, <3>13 DEF BrowserInv
  <2>3. ASSUME NEW stop \in BOOLEAN, task[t].at = "stop", Browser!After(t, stop), UNCHANGED browsers
        PROVE  BrowserInv'
    <3>1. guard = t /\ task[t].partial = None /\ ~task[t].clean /\ sessions[t] = None /\ managers[t] = None
      BY <1>c, <2>3 DEF TaskPlaced
    <3>2. PICK next \in BrowserTask :
            /\ task' = [task EXCEPT ![t] = next] /\ next.at \in {"idle", "finish", "ended"}
            /\ next.partial = None /\ (next.clean => next.at = "ended")
      BY <1>b, <2>3, <3>1, AfterMoves
    <3>3. task'[t] = next /\ guard' = None
      BY <1>b, <2>3, <3>2 DEF Browser!After
    <3>4. TaskPlaced(t)' /\ TaskAlone(t)'
      BY <2>0, <3>1, <3>2, <3>3 DEF TaskPlaced, TaskAlone
    <3>5. \A u \in Tasks \ {t} : (guard' = u) <=> (guard = u)
      BY <3>1, <3>3
    <3> QED BY <1>a, <1>b, <2>0, <2>3, <3>2, <3>3, <3>4, <3>5, DownloadsSame, QuietMove
  <2> QED BY <1>27, <2>1, <2>2, <2>3 DEF Browser!Interrupted
<1> QED
  BY <1>1, <1>2, <1>3, <1>4, <1>5, <1>6, <1>7, <1>8, <1>9, <1>10, <1>11, <1>12, <1>13, <1>14, <1>15, <1>16,
     <1>17, <1>18, <1>19, <1>20, <1>21, <1>22, <1>23, <1>24, <1>25, <1>26, <1>27
     DEF Browser!Next, Browser!CloseCall, Browser!CleanupOfRun

\* The invariant of the browser at first.
LEMMA BrowserStart == Browser!Init => BrowserInv
<1> SUFFICES ASSUME Browser!Init PROVE BrowserInv
  OBVIOUS
<1>1. /\ playwright = None /\ drivers = {} /\ browsers = {} /\ started = 0 /\ guard = None
      /\ sessions = [t \in Tasks |-> None] /\ managers = [t \in Tasks |-> None]
      /\ task = [t \in Tasks |-> Browser!NoWork]
      /\ downloads = [f \in Downloads |-> [of |-> None, in |-> None, state |-> "none"]]
  BY DEF Browser!Init
<1>2. \A t \in Tasks : task[t] = Browser!NoWork /\ guard # t
  BY <1>1, BrowserAssumption
<1>3. BrowserTypes /\ Numbered
  BY <1>1, NoWorkType, BrowserAssumption DEF BrowserTypes, Numbered, Download
<1>4. TasksPlaced /\ TasksAlone
  BY <1>1, <1>2 DEF TasksPlaced, TaskPlaced, TasksAlone, TaskAlone, Browser!NoWork, Browser!InGuard,
     Browser!Calling, Browser!Collecting, Browser!Closing
<1>5. DownloadsHeld /\ Browser!SessionRuns
  BY <1>1 DEF DownloadsHeld, Runs, Browser!SessionRuns
<1> QED BY <1>3, <1>4, <1>5 DEF BrowserInv

\* What the invariant says of the tables and the downloads.
LEMMA BrowserClean == BrowserInv => Browser!TypeOK /\ Browser!EndedIsClean /\ Browser!SessionRuns
<1> SUFFICES ASSUME BrowserInv PROVE Browser!TypeOK /\ Browser!EndedIsClean /\ Browser!SessionRuns
  OBVIOUS
<1> USE BrowserAssumption
<1>1. BrowserTypes /\ Numbered /\ TasksPlaced /\ DownloadsHeld /\ Browser!SessionRuns
  BY DEF BrowserInv
<1>2. Browser!TypeOK
  <2>1. /\ playwright \in 1..MaxLaunches \cup {None} /\ drivers \subseteq 1..MaxLaunches
        /\ \A b \in browsers : b.number \in 1..MaxLaunches /\ b.driver \in 1..MaxLaunches
    BY <1>1 DEF Numbered
  <2>2. ASSUME NEW t \in Tasks
        PROVE  /\ task[t].at \in {"idle", "finish", "ended"} \cup Browser!InGuard
               /\ (task[t].at \in Browser!InGuard) <=> (guard = t)
               /\ managers[t] # None => managers[t].records <= MaxRecords
               /\ (sessions[t] # None) <=> (managers[t] # None)
    BY <1>1 DEF TasksPlaced, TaskPlaced, BrowserTypes, BrowserTask, Places
  <2>3. \A f \in Downloads : downloads[f].state \in {"none", "running", "saved", "cancelled"}
    BY <1>1 DEF BrowserTypes, Download
  <2> QED BY <2>1, <2>2, <2>3 DEF Browser!TypeOK
<1>3. Browser!EndedIsClean
  <2>1. ASSUME NEW t \in Tasks, task[t].at = "ended", task[t].clean, NEW f \in Downloads, Runs(t, f)
        PROVE  \E b \in browsers : b.number = downloads[f].in /\ (b.closing \/ b.driver \notin drivers)
    BY <1>1, <2>1 DEF DownloadsHeld, Holds, TasksPlaced, TaskPlaced, BrowserTypes
  <2>2. ASSUME NEW t \in Tasks, task[t].at = "ended"
        PROVE  task[t].partial = None /\ (task[t].clean => sessions[t] = None)
    BY <1>1, <2>2 DEF TasksPlaced, TaskPlaced
  <2> QED BY <2>1, <2>2 DEF Browser!EndedIsClean, Runs
<1> QED BY <1>1, <1>2, <1>3
-----------------------------------------------------------------------------
(* Both.                                                                   *)

\* Ended work leaves nothing behind, and takes nothing away from the others: the media call
\* no temporary file, the task no half-written download and, once its cleanup was reached,
\* no session and no download but in a browser that goes.
THEOREM EndedWorkIsClean == ServicesSpec => []EndedIsClean
<1> DEFINE Inv == (subject = "media" => MediaInv) /\ (subject = "browser" => BrowserInv)
<1>1. ServicesInit => Inv
  BY MediaStart, BrowserStart DEF ServicesInit
<1>2. Inv /\ [ServicesNext]_allVars => Inv'
  <2> SUFFICES ASSUME Inv, [ServicesNext]_allVars PROVE Inv'
    OBVIOUS
  <2>1. UNCHANGED subject
    BY DEF ServicesNext, allVars
  <2>2. subject = "media" => MediaInv'
    <3> SUFFICES ASSUME subject = "media" PROVE MediaInv'
      OBVIOUS
    <3>1. CASE UNCHANGED media
      BY <3>1 DEF media, MediaInv, MediaTypes, CallsHold, TemporaryHeld, Media!FreeOnly
    <3> QED BY <3>1, MediaStep DEF ServicesNext, allVars
  <2>3. subject = "browser" => BrowserInv'
    <3> SUFFICES ASSUME subject = "browser" PROVE BrowserInv'
      OBVIOUS
    <3>1. CASE UNCHANGED browser
      BY <3>1 DEF browser, BrowserInv, BrowserTypes, Numbered, TasksPlaced, TaskPlaced, TasksAlone, TaskAlone,
         DownloadsHeld, Runs, Holds, Browser!SessionRuns
    <3> QED BY <3>1, BrowserStep DEF ServicesNext, allVars
  <2> QED BY <2>1, <2>2, <2>3
<1>3. Inv => EndedIsClean
  BY MediaFree, BrowserClean DEF EndedIsClean
<1> QED BY <1>1, <1>2, <1>3, PTL DEF ServicesSpec
=============================================================================
