-------------------------- MODULE Descriptors_proof --------------------------
(***************************************************************************)
(* Proofs about Descriptors, for any descriptors, workers and pool size:   *)
(* whatever a coroutine waits for, one thing at a time will wake it.        *)
(***************************************************************************)
EXTENDS Descriptors, SequenceTheorems, FiniteSetTheorems, TLAPS

-----------------------------------------------------------------------------
(* The inductive invariant.                                                 *)

(* An entry of Store::data is of the kind its descriptor can have.          *)
KindTrue ==
    \A f \in Fd : \/ kind[f] = "none"
                  \/ kind[f] = "stream" /\ f \in Conn
                  \/ kind[f] = "owned" /\ f \in Owned
                  \/ kind[f] = "shared" /\ f \in Shared

(* Neither a job nor a worker has the coroutine of c.                       *)
HandsOff(c) ==
    /\ \A j \in Elements(jobs) : j.co # c
    /\ \A w \in Worker : held[w].co # c

AsleepOn(c, f) == at[c] = "asleep" /\ awaits[c] = f /\ HandsOff(c)

(* What a worker has in hand says where its coroutine is, and no other      *)
(* worker has it.                                                           *)
HeldTrue(w) ==
    LET c == held[w].co IN
    /\ stage[w] = "idle" <=> held[w] = NoJob
    /\ stage[w] # "idle" => held[w] \in Job /\ kind[c] = "stream"
    /\ held[w].fd \in Conn => held[w].fd = c
    /\ stage[w] \in {"running", "registering"} => at[c] = "running"
    /\ stage[w] \notin {"idle", "running"} => task[w] \in Task
    /\ stage[w] = "registering" => task[w].op = "Restore" /\ task[w].fd \in owns[c]
    /\ stage[w] = "registered" =>
        /\ at[c] = "asleep" /\ awaits[c] \in Owned
        /\ task[w].op = "Restore" /\ task[w].fd = awaits[c]
    /\ stage[w] = "yielded" =>
        \/ /\ at[c] = "asleep"
           /\ task[w].op = "Restore" /\ task[w].fd = awaits[c]
           /\ awaits[c] \in Shared => held[w].fd = c \/ c \in strayed
        \/ /\ at[c] = "ended" /\ task[w].op = "Remove"
           /\ task[w].fd = c \/ (StrayThrow /\ task[w].fd \notin Conn)

OneHolder == \A v, w \in Worker : held[v].co = held[w].co /\ held[v] # NoJob => v = w

(* A job is for a coroutine that nobody has and that waits for it.          *)
JobsTrue ==
    \A j \in Elements(jobs) :
        /\ at[j.co] = "asleep" /\ awaits[j.co] = j.fd /\ kind[j.co] = "stream"
        /\ \A w \in Worker : held[w].co # j.co

OneJob(q) == \A i, k \in DOMAIN q : q[i].co = q[k].co => i = k

(* An event that is added is for a coroutine that waits for it, and no      *)
(* change is on its way that would add it again after it has fired.         *)
ArmedTrue ==
    /\ \A c \in armed \intersect Conn :
        /\ kind[c] = "stream" /\ AsleepOn(c, c)
        /\ \A u \in Pending : u.fd # c
    /\ \A o \in armed \intersect Owned :
        /\ kind[o] = "owned"
        /\ link[o] \in Conn /\ kind[link[o]] = "stream" /\ AsleepOn(link[o], o)
        /\ \A u \in Pending : u.fd = o => u.op # "CreateOwned"
        /\ \A u \in Elements(updates) : u.fd = o => u.op # "Restore"

(* Each coroutine in the list of a shared descriptor waits for it.          *)
WaitingTrue ==
    \A s \in Shared :
        /\ waiting[s] # <<>> => kind[s] = "shared"
        /\ \A c \in Elements(waiting[s]) : kind[c] = "stream" /\ AsleepOn(c, s)

Once(q) == \A i, k \in DOMAIN q : q[i] = q[k] => i = k

(* The entry of a descriptor that c owns: it is there, or on its way, or a  *)
(* handler that threw in a job of an earlier owner had it removed.          *)
EntryOfOwner(o, c) ==
    \/ /\ kind[o] = "owned" /\ link[o] = c
       /\ \A u \in Pending : u.fd = o => u.op = "Restore"
    \/ \E u \in Pending : u.op = "CreateOwned" /\ u.fd = o /\ u.owner = c
    \/ /\ StrayThrow
       /\ kind[o] = "owned" => link[o] = c
       /\ \A u \in Pending : u.fd = o => u.op # "CreateOwned"

(* A descriptor has one owner, alive; its entry is that owner's as soon as  *)
(* it is there.                                                             *)
OwnedTrue ==
    /\ \A c, d \in Conn : \A o \in owns[c] : o \in owns[d] => c = d
    /\ \A c \in Conn : owns[c] # {} =>
        kind[c] = "stream" /\ at[c] \in {"running", "asleep"}
    /\ \A c \in Conn : at[c] = "asleep" /\ awaits[c] \notin Shared =>
        awaits[c] = c \/ awaits[c] \in owns[c]
    /\ \A c \in Conn : \A o \in owns[c] : EntryOfOwner(o, c)

(* What the map knows of a connection: nothing of one that is closed.       *)
ConnTrue ==
    \A c \in Conn :
        /\ at[c] = "closed" => kind[c] = "none"
        /\ at[c] \in {"closed", "ended"} => leased[c] = None
        /\ at[c] = "ended" /\ HandsOff(c) =>
            StrayThrow \/ \E u \in Pending : u.op = "Remove" /\ u.fd = c

Restored(o, set) == \E u \in set : u.op = "Restore" /\ u.fd = o

Registers(u, w) ==
    /\ stage[w] \in {"registering", "registered"}
    /\ held[w].co = u.owner /\ task[w].fd = u.fd

(* The changes on their way: those of a connection find it waiting, ...     *)
StreamChange(u) ==
    u.fd \in Conn =>
        /\ u.op \in {"CreateStream", "ExternallyClosed", "Restore", "Remove"}
        /\ kind[u.fd] = IF u.op = "CreateStream" THEN "none" ELSE "stream"
        /\ IF u.op = "Remove" THEN at[u.fd] = "ended" /\ HandsOff(u.fd)
                              ELSE AsleepOn(u.fd, u.fd)

(* ... an owned descriptor is restored in the batch that makes its entry,   *)
OwnedChange(u) ==
    u.fd \in Owned =>
        /\ u.op \in {"CreateOwned", "Restore", "Remove"}
        /\ u.op = "CreateOwned" =>
            /\ u.owner \in Conn /\ u.fd \in owns[u.owner]
            /\ \/ Restored(u.fd, Elements(updates)) /\ u \notin Elements(applying)
               \/ Restored(u.fd, Elements(applying))
               \/ /\ u \notin Elements(applying)
                  /\ \E w \in Worker : Registers(u, w)
        /\ u.op = "Restore" =>
            \E c \in Conn : u.fd \in owns[c] /\ AsleepOn(c, u.fd)

(* ... and a shared one is restored for a coroutine that is not listed yet. *)
SharedChange(u) ==
    u.fd \in Shared =>
        /\ u.op \in {"CreateShared", "Restore"} \/ (StrayThrow /\ u.op = "Remove")
        /\ u.op = "CreateShared" => kind[u.fd] = "none"
        /\ u.op = "Restore" =>
            /\ \/ kind[u.fd] = "shared"
               \/ \E v \in Pending : v.op = "CreateShared" /\ v.fd = u.fd
               \/ StrayThrow
            /\ u.owner \in Conn =>
                /\ kind[u.owner] = "stream" /\ AsleepOn(u.owner, u.fd)
                /\ u.owner \notin Elements(waiting[u.fd])

PendingTrue ==
    \A u \in Pending :
        /\ StreamChange(u) /\ OwnedChange(u) /\ SharedChange(u)
        /\ u.op = "Restore" => u.owner \in Fd

(* Two changes of one descriptor, in the order they will be applied.        *)
Before(u, v) ==
    u.fd = v.fd =>
        /\ u.fd \notin Conn
        /\ u.fd \in Owned => \/ u.op = "Remove"
                             \/ u.op = "CreateOwned" /\ v.op = "Restore"
                             \/ StrayThrow /\ v.op = "Remove"
        /\ u.fd \in Shared =>
             \/ /\ v.op = "Restore"
                /\ u.op = "Restore" /\ u.owner = v.owner => u.owner \notin Conn
             \/ StrayThrow /\ v.op = "Remove"

InOrder(q) == \A i, k \in DOMAIN q : i < k => Before(q[i], q[k])

ChangesOrdered ==
    /\ InOrder(applying) /\ InOrder(updates)
    /\ \A u \in Elements(applying), v \in Elements(updates) : Before(u, v)

(* The pools are made before the first connection.                          *)
PoolsMade ==
    ~StrayThrow /\ (\E c \in Conn : at[c] # "closed") =>
        \A s \in Shared : \/ kind[s] = "shared"
                          \/ \E u \in Pending : u.op = "CreateShared" /\ u.fd = s

IInv ==
    /\ TypeOK /\ KindTrue
    /\ \A w \in Worker : HeldTrue(w)
    /\ OneHolder
    /\ JobsTrue /\ OneJob(jobs)
    /\ ArmedTrue
    /\ WaitingTrue /\ \A s \in Shared : Once(waiting[s])
    /\ OwnedTrue /\ ConnTrue
    /\ PendingTrue /\ ChangesOrdered
    /\ PoolsMade
    /\ StrayThrow \/ SleeperKnown
-----------------------------------------------------------------------------
(* Sequences at their two ends: what an append adds.                        *)
LEMMA AppendElements ==
    ASSUME NEW S, NEW s \in Seq(S), NEW e \in S
    PROVE  /\ Append(s, e) \in Seq(S)
           /\ Elements(Append(s, e)) = Elements(s) \union {e}
<1>1. /\ DOMAIN s = 1 .. Len(s) /\ Len(s) \in Nat
      /\ DOMAIN Append(s, e) = 1 .. Len(s) + 1
      /\ \A i \in 1 .. Len(s) : Append(s, e)[i] = s[i]
      /\ Append(s, e)[Len(s) + 1] = e
      /\ \A i \in 1 .. Len(s) + 1 : i \in 1 .. Len(s) \/ i = Len(s) + 1
  OBVIOUS
<1> QED
  BY <1>1 DEF Elements

(* What is left when the head is taken off.                                 *)
LEMMA TailElements ==
    ASSUME NEW S, NEW s \in Seq(S), s # <<>>
    PROVE  /\ Head(s) \in S /\ Tail(s) \in Seq(S)
           /\ Elements(s) = Elements(Tail(s)) \union {Head(s)}
<1>1. /\ Len(s) \in Nat /\ Len(s) > 0
      /\ DOMAIN s = 1 .. Len(s) /\ Head(s) = s[1]
      /\ DOMAIN Tail(s) = 1 .. Len(s) - 1
      /\ \A i \in 1 .. Len(s) - 1 : Tail(s)[i] = s[i + 1]
      /\ Head(s) \in S /\ Tail(s) \in Seq(S)
  OBVIOUS
<1>2. \A i \in 1 .. Len(s) : i = 1 \/ i - 1 \in 1 .. Len(s) - 1
  BY <1>1
<1>3. Elements(Tail(s)) \union {Head(s)} \subseteq Elements(s)
  <2>1. \A i \in 1 .. Len(s) - 1 : i + 1 \in 1 .. Len(s)
    BY <1>1
  <2>2. 1 \in 1 .. Len(s)
    BY <1>1
  <2> QED
    BY <1>1, <2>1, <2>2 DEF Elements
<1>4. ASSUME NEW i \in 1 .. Len(s)
      PROVE  s[i] \in Elements(Tail(s)) \union {Head(s)}
  <2>1. CASE i = 1
    BY <1>1, <2>1
  <2>2. CASE i # 1
    <3>1. i - 1 \in 1 .. Len(s) - 1 /\ i - 1 + 1 = i
      BY <1>1, <1>2, <2>2
    <3>2. Tail(s)[i - 1] = s[i]
      BY <1>1, <3>1
    <3>3. Tail(s)[i - 1] \in Elements(Tail(s))
      BY <1>1, <3>1 DEF Elements
    <3> QED
      BY <3>2, <3>3
  <2> QED
    BY <2>1, <2>2
<1> QED
  BY <1>1, <1>3, <1>4 DEF Elements

(* An empty sequence has none.                                              *)
LEMMA NoElements == Elements(<<>>) = {}
BY DEF Elements

(* The elements of a sequence are of its type.                              *)
LEMMA ElementsOf ==
    ASSUME NEW S, NEW s \in Seq(S)
    PROVE  Elements(s) \subseteq S
<1>1. \A i \in DOMAIN s : s[i] \in S
  OBVIOUS
<1> QED
  BY <1>1 DEF Elements

(* Both parts of a concatenation.                                           *)
LEMMA ConcatElements ==
    ASSUME NEW S, NEW s \in Seq(S), NEW t \in Seq(S)
    PROVE  /\ s \o t \in Seq(S)
           /\ Elements(s \o t) = Elements(s) \union Elements(t)
<1>1. /\ Len(s) \in Nat /\ Len(t) \in Nat
      /\ DOMAIN s = 1 .. Len(s) /\ DOMAIN t = 1 .. Len(t)
      /\ s \o t \in Seq(S)
      /\ DOMAIN (s \o t) = 1 .. Len(s) + Len(t)
      /\ \A i \in 1 .. Len(s) + Len(t) :
            (s \o t)[i] = IF i <= Len(s) THEN s[i] ELSE t[i - Len(s)]
  OBVIOUS
<1>2. ASSUME NEW i \in 1 .. Len(s) + Len(t)
      PROVE  (s \o t)[i] \in Elements(s) \union Elements(t)
  <2>1. \/ i \in 1 .. Len(s) /\ i <= Len(s)
        \/ i - Len(s) \in 1 .. Len(t) /\ ~(i <= Len(s))
    BY <1>1
  <2> QED
    BY <1>1, <2>1 DEF Elements
<1>3. ASSUME NEW i \in 1 .. Len(s) PROVE s[i] \in Elements(s \o t)
  <2>1. i \in 1 .. Len(s) + Len(t) /\ (s \o t)[i] = s[i]
    BY <1>1
  <2> QED
    BY <1>1, <2>1 DEF Elements
<1>4. ASSUME NEW i \in 1 .. Len(t) PROVE t[i] \in Elements(s \o t)
  <2>1. /\ i + Len(s) \in 1 .. Len(s) + Len(t)
        /\ ~(i + Len(s) <= Len(s)) /\ i + Len(s) - Len(s) = i
    BY <1>1
  <2>2. (s \o t)[i + Len(s)] = t[i]
    BY <1>1, <2>1
  <2> QED
    BY <1>1, <2>1, <2>2 DEF Elements
<1>5. /\ \A x \in Elements(s) : \E i \in 1 .. Len(s) : x = s[i]
      /\ \A x \in Elements(t) : \E i \in 1 .. Len(t) : x = t[i]
      /\ \A x \in Elements(s \o t) : \E i \in 1 .. Len(s) + Len(t) : x = (s \o t)[i]
  BY <1>1 DEF Elements
<1>6. Elements(s \o t) = Elements(s) \union Elements(t)
  <2>1. Elements(s \o t) \subseteq Elements(s) \union Elements(t)
    BY <1>2, <1>5
  <2>2. Elements(s) \union Elements(t) \subseteq Elements(s \o t)
    BY <1>3, <1>4, <1>5
  <2> QED
    BY <2>1, <2>2
<1> QED
  BY <1>1, <1>6

(* A coroutine that has no job gets one; a job is taken.                    *)
LEMMA AppendOneJob ==
    ASSUME NEW s \in Seq(Job), NEW e \in Job, OneJob(s),
           \A j \in Elements(s) : j.co # e.co
    PROVE  OneJob(Append(s, e))
<1>1. /\ DOMAIN s = 1 .. Len(s) /\ Len(s) \in Nat
      /\ DOMAIN Append(s, e) = 1 .. Len(s) + 1
      /\ \A i \in 1 .. Len(s) : Append(s, e)[i] = s[i]
      /\ Append(s, e)[Len(s) + 1] = e
      /\ \A i \in 1 .. Len(s) + 1 : i \in 1 .. Len(s) \/ i = Len(s) + 1
  OBVIOUS
<1> QED
  BY <1>1 DEF Elements, OneJob

(* A job that is taken was the only one of its coroutine.                   *)
LEMMA TailOneJob ==
    ASSUME NEW s \in Seq(Job), s # <<>>, OneJob(s)
    PROVE  OneJob(Tail(s)) /\ \A j \in Elements(Tail(s)) : j.co # Head(s).co
<1>1. /\ Len(s) \in Nat /\ Len(s) > 0
      /\ DOMAIN s = 1 .. Len(s) /\ Head(s) = s[1]
      /\ DOMAIN Tail(s) = 1 .. Len(s) - 1
      /\ \A i \in 1 .. Len(s) - 1 : /\ Tail(s)[i] = s[i + 1]
                                    /\ i + 1 \in 1 .. Len(s) /\ i + 1 # 1
      /\ 1 \in 1 .. Len(s)
  OBVIOUS
<1> QED
  BY <1>1 DEF Elements, OneJob

(* The same for the coroutines in the list of a shared descriptor.          *)
LEMMA AppendOnce ==
    ASSUME NEW S, NEW s \in Seq(S), NEW e \in S, Once(s), e \notin Elements(s)
    PROVE  Once(Append(s, e))
<1>1. /\ DOMAIN s = 1 .. Len(s) /\ Len(s) \in Nat
      /\ DOMAIN Append(s, e) = 1 .. Len(s) + 1
      /\ \A i \in 1 .. Len(s) : Append(s, e)[i] = s[i]
      /\ Append(s, e)[Len(s) + 1] = e
      /\ \A i \in 1 .. Len(s) + 1 : i \in 1 .. Len(s) \/ i = Len(s) + 1
  OBVIOUS
<1> QED
  BY <1>1 DEF Elements, Once

(* So was one that leaves the list.                                         *)
LEMMA TailOnce ==
    ASSUME NEW S, NEW s \in Seq(S), s # <<>>, Once(s)
    PROVE  Once(Tail(s)) /\ Head(s) \notin Elements(Tail(s))
<1>1. /\ Len(s) \in Nat /\ Len(s) > 0
      /\ DOMAIN s = 1 .. Len(s) /\ Head(s) = s[1]
      /\ DOMAIN Tail(s) = 1 .. Len(s) - 1
      /\ \A i \in 1 .. Len(s) - 1 : /\ Tail(s)[i] = s[i + 1]
                                    /\ i + 1 \in 1 .. Len(s) /\ i + 1 # 1
      /\ 1 \in 1 .. Len(s)
  OBVIOUS
<1> QED
  BY <1>1 DEF Elements, Once

(* Changes that all may come before the one that is added stay in order.    *)
LEMMA AppendInOrder ==
    ASSUME NEW s \in Seq(Update), NEW e \in Update, InOrder(s),
           \A u \in Elements(s) : Before(u, e)
    PROVE  InOrder(Append(s, e))
<1> DEFINE t == Append(s, e)
<1>1. /\ DOMAIN s = 1 .. Len(s) /\ Len(s) \in Nat
      /\ DOMAIN t = 1 .. Len(s) + 1
      /\ \A i \in 1 .. Len(s) : t[i] = s[i]
      /\ t[Len(s) + 1] = e
  OBVIOUS
<1> HIDE DEF t
<1>2. ASSUME NEW i \in 1 .. Len(s) + 1, NEW k \in 1 .. Len(s) + 1, i < k
      PROVE  Before(t[i], t[k])
  <2>1. i \in 1 .. Len(s) /\ t[i] = s[i]
    BY <1>1, <1>2
  <2>2. CASE k = Len(s) + 1
    BY <1>1, <2>1, <2>2 DEF Elements
  <2>3. CASE k # Len(s) + 1
    <3>1. k \in 1 .. Len(s) /\ t[k] = s[k]
      BY <1>1, <2>3
    <3> QED
      BY <1>1, <1>2, <2>1, <3>1 DEF InOrder
  <2> QED
    BY <2>2, <2>3
<1>3. InOrder(t)
  BY <1>1, <1>2 DEF InOrder
<1> QED
  BY <1>3 DEF t

(* What is taken may come before all that is left.                          *)
LEMMA TailInOrder ==
    ASSUME NEW s \in Seq(Update), s # <<>>, InOrder(s)
    PROVE  InOrder(Tail(s)) /\ \A u \in Elements(Tail(s)) : Before(Head(s), u)
<1> DEFINE t == Tail(s)
<1>1. /\ Len(s) \in Nat /\ Len(s) > 0
      /\ DOMAIN s = 1 .. Len(s) /\ Head(s) = s[1]
      /\ DOMAIN t = 1 .. Len(s) - 1
      /\ \A i \in 1 .. Len(s) - 1 : t[i] = s[i + 1] /\ i + 1 \in 1 .. Len(s)
      /\ 1 \in 1 .. Len(s)
  OBVIOUS
<1> HIDE DEF t
<1>2. ASSUME NEW i \in 1 .. Len(s) - 1, NEW k \in 1 .. Len(s) - 1, i < k
      PROVE  Before(t[i], t[k])
  <2>1. i + 1 < k + 1
    BY <1>1, <1>2
  <2> QED
    BY <1>1, <2>1 DEF InOrder
<1>3. ASSUME NEW i \in 1 .. Len(s) - 1 PROVE Before(Head(s), t[i])
  <2>1. 1 < i + 1
    BY <1>1
  <2> QED
    BY <1>1, <2>1 DEF InOrder
<1>4. InOrder(t) /\ \A u \in Elements(t) : Before(Head(s), u)
  BY <1>1, <1>2, <1>3 DEF InOrder, Elements
<1> QED
  BY <1>4 DEF t

(* Two lists in order, each change of the first before each of the second.  *)
LEMMA ConcatInOrder ==
    ASSUME NEW s \in Seq(Update), NEW r \in Seq(Update), InOrder(s), InOrder(r),
           \A u \in Elements(s), v \in Elements(r) : Before(u, v)
    PROVE  InOrder(s \o r)
<1> DEFINE t == s \o r
<1>1. /\ Len(s) \in Nat /\ Len(r) \in Nat
      /\ DOMAIN s = 1 .. Len(s) /\ DOMAIN r = 1 .. Len(r)
      /\ DOMAIN t = 1 .. Len(s) + Len(r)
      /\ \A i \in 1 .. Len(s) + Len(r) :
            t[i] = IF i <= Len(s) THEN s[i] ELSE r[i - Len(s)]
  OBVIOUS
<1> HIDE DEF t
<1>2. ASSUME NEW i \in 1 .. Len(s) + Len(r), NEW k \in 1 .. Len(s) + Len(r),
             i < k
      PROVE  Before(t[i], t[k])
  <2>1. CASE k <= Len(s)
    <3>1. i \in 1 .. Len(s) /\ k \in 1 .. Len(s) /\ i <= Len(s)
      BY <1>1, <1>2, <2>1
    <3> QED
      BY <1>1, <1>2, <2>1, <3>1 DEF InOrder
  <2>2. CASE i <= Len(s) /\ ~(k <= Len(s))
    <3>1. i \in 1 .. Len(s) /\ k - Len(s) \in 1 .. Len(r)
      BY <1>1, <2>2
    <3>2. s[i] \in Elements(s) /\ r[k - Len(s)] \in Elements(r)
      BY <1>1, <3>1 DEF Elements
    <3> QED
      BY <1>1, <2>2, <3>2
  <2>3. CASE ~(i <= Len(s))
    <3>1. /\ i - Len(s) \in 1 .. Len(r) /\ k - Len(s) \in 1 .. Len(r)
          /\ i - Len(s) < k - Len(s) /\ ~(k <= Len(s))
      BY <1>1, <1>2, <2>3
    <3> QED
      BY <1>1, <2>3, <3>1 DEF InOrder
  <2> QED
    BY <2>1, <2>2, <2>3
<1>3. InOrder(t)
  BY <1>1, <1>2 DEF InOrder
<1> QED
  BY <1>3 DEF t

(* Changes that all may come before each other are in order.                *)
LEMMA AnyInOrder ==
    ASSUME NEW s \in Seq(Update),
           \A u \in Elements(s), v \in Elements(s) : Before(u, v)
    PROVE  InOrder(s)
BY DEF InOrder, Elements
-----------------------------------------------------------------------------
(* A change is requested, and a change is taken off to be applied.          *)
LEMMA RequestEffect ==
    ASSUME TypeOK, NEW u \in Update, updates' = Append(updates, u),
           applying' = applying
    PROVE  /\ updates' \in Seq(Update) /\ applying' \in Seq(Update)
           /\ Elements(updates') = Elements(updates) \union {u}
           /\ Elements(applying') = Elements(applying)
           /\ Pending' = Pending \union {u}
           /\ ChangesOrdered /\ (\A v \in Pending : Before(v, u))
                => ChangesOrdered'
<1>1. updates \in Seq(Update) /\ applying \in Seq(Update)
  BY DEF TypeOK
<1>2. /\ updates' \in Seq(Update)
      /\ Elements(updates') = Elements(updates) \union {u}
  BY <1>1, AppendElements
<1>3. Pending' = Pending \union {u}
  BY <1>2 DEF Pending
<1>4. ASSUME ChangesOrdered, \A v \in Pending : Before(v, u)
      PROVE  ChangesOrdered'
  <2>1. InOrder(updates')
    BY <1>1, <1>4, AppendInOrder DEF ChangesOrdered, Pending
  <2> QED
    BY <1>2, <1>4, <2>1 DEF ChangesOrdered, Pending
<1> QED
  BY <1>1, <1>2, <1>3, <1>4

(* The change at the head is taken to be applied.                           *)
LEMMA ApplyEffect ==
    ASSUME TypeOK, ChangesOrdered, applying # <<>>, applying' = Tail(applying)
    PROVE  /\ Head(applying) \in Update /\ applying' \in Seq(Update)
           /\ Elements(applying) = Elements(applying') \union {Head(applying)}
           /\ InOrder(applying')
           /\ \A v \in Elements(applying') \union Elements(updates) :
                Before(Head(applying), v)
           /\ updates' = updates =>
                /\ Pending = Pending' \union {Head(applying)}
                /\ ChangesOrdered'
<1>1. updates \in Seq(Update) /\ applying \in Seq(Update)
  BY DEF TypeOK
<1>2. /\ Head(applying) \in Update /\ applying' \in Seq(Update)
      /\ Elements(applying) = Elements(applying') \union {Head(applying)}
  BY <1>1, TailElements
<1>3. /\ InOrder(applying')
      /\ \A v \in Elements(applying') : Before(Head(applying), v)
  BY <1>1, TailInOrder DEF ChangesOrdered
<1>4. \A v \in Elements(updates) : Before(Head(applying), v)
  BY <1>2 DEF ChangesOrdered
<1>5. ASSUME updates' = updates
      PROVE  Pending = Pending' \union {Head(applying)} /\ ChangesOrdered'
  BY <1>2, <1>3, <1>5 DEF Pending, ChangesOrdered
<1> QED
  BY <1>2, <1>3, <1>4, <1>5

(* Nothing changes in either queue.                                         *)
LEMMA QuietEffect ==
    ASSUME updates' = updates, applying' = applying
    PROVE  /\ Elements(updates') = Elements(updates)
           /\ Elements(applying') = Elements(applying)
           /\ Pending' = Pending
           /\ ChangesOrdered => ChangesOrdered'
BY DEF Pending, ChangesOrdered

(* It holds at the start: nothing is asleep, nothing is on its way.         *)
LEMMA InitIInv == Init => IInv
<1> SUFFICES ASSUME Init PROVE IInv
  OBVIOUS
<1> USE DEF Init
<1>1. Elements(updates) = {} /\ Elements(applying) = {} /\ Elements(jobs) = {}
      /\ Pending = {} /\ \A s \in Shared : Elements(waiting[s]) = {}
  BY NoElements DEF Pending
<1>2. TypeOK
  <2>1. updates \in Seq(Update) /\ applying \in Seq(Update) /\ jobs \in Seq(Job)
    OBVIOUS
  <2>2. waiting \in [Shared -> Seq(Conn)]
    OBVIOUS
  <2>3. pool \in [Shared -> Nat]
    BY SwitchAssumption DEF SwitchAssumption
  <2> QED
    BY <2>1, <2>2, <2>3 DEF TypeOK, Fd
<1>3. KindTrue
  BY DEF KindTrue
<1>4. (\A w \in Worker : HeldTrue(w)) /\ OneHolder
  BY FdAssumption DEF HeldTrue, OneHolder, NoJob, FdAssumption, Fd
<1>5. JobsTrue /\ OneJob(jobs)
  BY <1>1 DEF JobsTrue, OneJob
<1>6. ArmedTrue /\ WaitingTrue /\ \A s \in Shared : Once(waiting[s])
  BY <1>1 DEF ArmedTrue, WaitingTrue, Once
<1>7. OwnedTrue /\ ConnTrue
  BY DEF OwnedTrue, EntryOfOwner, ConnTrue, Fd
<1>8. PendingTrue /\ ChangesOrdered
  BY <1>1 DEF PendingTrue, ChangesOrdered, InOrder
<1>9. PoolsMade /\ SleeperKnown
  BY DEF PoolsMade, SleeperKnown
<1> QED
  BY <1>2, <1>3, <1>4, <1>5, <1>6, <1>7, <1>8, <1>9 DEF IInv

(* What the queues and the lists hold.                                      *)
LEMMA MembersTyped ==
    ASSUME TypeOK
    PROVE  /\ Elements(jobs) \subseteq Job
           /\ \A s \in Shared : Elements(waiting[s]) \subseteq Conn
           /\ Elements(updates) \subseteq Update
           /\ Elements(applying) \subseteq Update
           /\ Pending \subseteq Update
<1>1. \A s \in Shared : waiting[s] \in Seq(Conn)
  BY DEF TypeOK
<1>2. \A s \in Shared : Elements(waiting[s]) \subseteq Conn
  BY <1>1, ElementsOf
<1>3. /\ Elements(jobs) \subseteq Job
      /\ Elements(updates) \subseteq Update
      /\ Elements(applying) \subseteq Update
  BY ElementsOf DEF TypeOK
<1> QED
  BY <1>2, <1>3 DEF Pending

(* A worker takes a job: the coroutine passes from the queue to it.         *)
LEMMA ResumeIInv == ASSUME IInv, NEW w \in Worker, Resume(w) PROVE IInv'
<1> DEFINE h == Head(jobs)
<1>1. /\ h \in Job /\ jobs' \in Seq(Job)
      /\ Elements(jobs) = Elements(jobs') \union {h}
      /\ OneJob(jobs') /\ \A j \in Elements(jobs') : j.co # h.co
  BY TailElements, TailOneJob DEF IInv, TypeOK, Resume
<1>2. /\ stage[w] = "idle" /\ held[w] = NoJob
      /\ held' = [held EXCEPT ![w] = h] /\ stage' = [stage EXCEPT ![w] = "running"]
      /\ at' = [at EXCEPT ![h.co] = "running"]
      /\ UNCHANGED <<kind, link, waiting, armed, updates, applying, task, awaits,
                     owns, leased, strayed, ready, pool, peerClosed>>
  BY DEF Resume, IInv, HeldTrue, dataVars, worldVars
<1> HIDE DEF h
<1>3. /\ h.co \in Conn /\ h.fd \in Fd /\ at[h.co] = "asleep"
      /\ awaits[h.co] = h.fd /\ kind[h.co] = "stream"
      /\ \A v \in Worker : held[v].co # h.co
      /\ ~HandsOff(h.co)
  BY <1>1 DEF IInv, JobsTrue, Job, HandsOff
<1>4. \A v \in Worker : held'[v] = IF v = w THEN h ELSE held[v]
  BY <1>2 DEF IInv, TypeOK
<1>5. \A v \in Worker : stage'[v] = IF v = w THEN "running" ELSE stage[v]
  BY <1>2 DEF IInv, TypeOK
<1>6. \A c \in Conn : at'[c] = IF c = h.co THEN "running" ELSE at[c]
  BY <1>2 DEF IInv, TypeOK
<1>7. \A c \in Conn : HandsOff(c) => HandsOff(c)' /\ c # h.co /\ at'[c] = at[c]
  BY <1>1, <1>3, <1>4, <1>6 DEF HandsOff
<1>8. \A c \in Conn : \A f : AsleepOn(c, f) => AsleepOn(c, f)'
  BY <1>2, <1>7 DEF AsleepOn
<1>9. Pending' = Pending /\ ChangesOrdered'
      /\ Elements(updates') = Elements(updates)
      /\ Elements(applying') = Elements(applying)
  BY <1>2, QuietEffect DEF IInv
<1>10. TypeOK'
  BY <1>1, <1>2 DEF IInv, TypeOK
<1>11. KindTrue'
  BY <1>2 DEF IInv, KindTrue
<1>12. \A v \in Worker : HeldTrue(v)'
  <2>1. h.fd \in Conn => h.fd = h.co
    BY <1>3, FdAssumption DEF IInv, OwnedTrue, EntryOfOwner, FdAssumption, TypeOK
  <2> QED
    BY <2>1, <1>2, <1>3, <1>4, <1>5, <1>6, <1>1 DEF IInv, TypeOK, HeldTrue, Job, NoJob
<1>13. OneHolder'
  BY <1>3, <1>4, <1>2 DEF IInv, OneHolder, NoJob
<1>14. JobsTrue'
  BY <1>1, <1>2, <1>3, <1>4, <1>6 DEF IInv, JobsTrue
<1>15. ArmedTrue'
  BY <1>2, <1>8, <1>9 DEF IInv, ArmedTrue
<1>16. WaitingTrue' /\ \A s \in Shared : Once(waiting'[s])
  BY <1>2, <1>8, MembersTyped DEF IInv, WaitingTrue
<1>17. OwnedTrue'
  BY <1>2, <1>6, <1>9, <1>3 DEF IInv, OwnedTrue, EntryOfOwner
<1>18. ConnTrue'
  <2>1. \A c \in Conn : c # h.co /\ HandsOff(c)' => HandsOff(c)
    BY <1>1, <1>2, <1>4, FdAssumption DEF HandsOff, NoJob, FdAssumption, Fd
  <2> QED
    BY <1>2, <1>3, <1>6, <1>9, <2>1 DEF IInv, ConnTrue
<1>19. PendingTrue'
  BY <1>2, <1>7, <1>8, <1>9 DEF IInv, PendingTrue, StreamChange, OwnedChange, SharedChange, Registers, Restored
<1>20. PoolsMade'
  BY <1>2, <1>3, <1>6, <1>9 DEF IInv, PoolsMade
<1>21. StrayThrow \/ SleeperKnown'
  <2> SUFFICES ASSUME ~StrayThrow PROVE SleeperKnown'
    OBVIOUS
  <2>1. ASSUME NEW c \in Conn, c # h.co, WaitPends(c) PROVE WaitPends(c)'
    <3>1. CASE \E j \in Elements(jobs) : j.co = c
      BY <1>1, <2>1, <3>1 DEF WaitPends
    <3>2. CASE \E v \in Worker : held[v].co = c
      <4>1. PICK v \in Worker : held[v].co = c
        BY <3>2
      <4>2. v # w
        BY <1>2, <4>1, FdAssumption DEF NoJob, FdAssumption, Fd
      <4> QED
        BY <1>4, <4>1, <4>2 DEF WaitPends
    <3> QED
      BY <1>2, <1>9, <2>1, <3>1, <3>2 DEF WaitPends
  <2> QED
    BY <1>2, <1>6, <2>1 DEF IInv, SleeperKnown
<1> QED
  BY <1>1, <1>9, <1>10, <1>11, <1>12, <1>13, <1>14, <1>15, <1>16, <1>17, <1>18, <1>19, <1>20, <1>21 DEF IInv

(* Clients, peers and leases change nothing that the invariant reads.       *)
LEMMA QuietIInv ==
    ASSUME IInv, TypeOK',
           UNCHANGED <<dataVars, updates, applying, jobs, workerVars, at,
                       awaits, owns, strayed>>,
           \A c \in Conn : at[c] \in {"closed", "ended"} => leased'[c] = None
    PROVE  IInv'
<1> USE DEF IInv, dataVars, workerVars
<1>1. Pending' = Pending /\ ChangesOrdered'
      /\ Elements(updates') = Elements(updates)
      /\ Elements(applying') = Elements(applying)
  BY QuietEffect
<1>2. \A c : HandsOff(c) <=> HandsOff(c)'
  BY DEF HandsOff
<1>3. \A c, f : AsleepOn(c, f) <=> AsleepOn(c, f)'
  BY <1>2 DEF AsleepOn
<1>4. KindTrue' /\ (\A w \in Worker : HeldTrue(w)') /\ OneHolder'
  BY DEF KindTrue, HeldTrue, OneHolder
<1>5. JobsTrue' /\ OneJob(jobs')
  BY DEF JobsTrue
<1>6. ArmedTrue' /\ WaitingTrue' /\ \A s \in Shared : Once(waiting'[s])
  BY <1>1, <1>3 DEF ArmedTrue, WaitingTrue
<1>7. OwnedTrue' /\ ConnTrue' /\ PoolsMade'
  BY <1>1, <1>2 DEF OwnedTrue, EntryOfOwner, ConnTrue, PoolsMade
<1>8. PendingTrue'
  BY <1>1, <1>2, <1>3 DEF PendingTrue, StreamChange, OwnedChange, SharedChange,
                          Registers, Restored
<1>9. StrayThrow \/ SleeperKnown'
  BY <1>1 DEF SleeperKnown, WaitPends
<1> QED
  BY <1>1, <1>4, <1>5, <1>6, <1>7, <1>8, <1>9

(* The coroutine a worker has inside it is not waiting for anything.        *)
LEMMA InsideAlone ==
    ASSUME IInv, NEW w \in Worker, stage[w] \in {"running", "registering"}
    PROVE  /\ held[w] \in Job /\ held[w].co \in Conn /\ held[w].fd \in Fd
           /\ at[held[w].co] = "running" /\ kind[held[w].co] = "stream"
           /\ ~HandsOff(held[w].co)
           /\ \A v \in Worker : v # w => held[v].co # held[w].co
           /\ \A j \in Elements(jobs) : j.co # held[w].co
BY FdAssumption DEF IInv, HeldTrue, OneHolder, JobsTrue, HandsOff, Job, NoJob, FdAssumption, Fd

(* yield() with a wait: of the connection itself, of an owned descriptor or *)
(* of a shared one.                                                         *)
LEMMA SleepsIInv ==
    ASSUME IInv, NEW w \in Worker, NEW f \in Fd, NEW next,
           Sleeps(w, f, next), UNCHANGED leased,
           \/ stage[w] = "running" /\ next = "yielded"
           \/ stage[w] = "registering" /\ next = "registered"
                /\ f = task[w].fd /\ f \in Owned,
           f \in Conn => f = held[w].co,
           f \in Owned => f \in owns[held[w].co],
           f \in Shared => held[w].fd = held[w].co \/ held[w].co \in strayed',
           strayed' \in SUBSET Conn, strayed \subseteq strayed',
           ready' \in SUBSET (Conn \union Owned), pool' \in [Shared -> Nat],
           peerClosed' \in SUBSET Conn
    PROVE  IInv'
<1>0. PICK c \in Conn : c = held[w].co
  BY InsideAlone
<1>1. /\ held[w] \in Job /\ c \in Conn /\ held[w].fd \in Fd
      /\ at[c] = "running" /\ kind[c] = "stream" /\ ~HandsOff(c)
      /\ \A v \in Worker : v # w => held[v].co # c
      /\ \A j \in Elements(jobs) : j.co # c
  BY <1>0, InsideAlone
<1>2. /\ at' = [at EXCEPT ![c] = "asleep"]
      /\ awaits' = [awaits EXCEPT ![c] = f]
      /\ task' = [task EXCEPT ![w] = [op |-> "Restore", fd |-> f]]
      /\ stage' = [stage EXCEPT ![w] = next]
      /\ UNCHANGED <<kind, link, waiting, armed, updates, applying, jobs, held,
                     owns, leased>>
  BY <1>0 DEF Sleeps, dataVars
<1>3. /\ c = held[w].co
      /\ f \in Conn => f = c
      /\ f \in Owned => f \in owns[c]
      /\ f \in Shared => held[w].fd = c \/ c \in strayed'
  BY <1>0
<1>4. /\ \A v \in Worker : stage'[v] = IF v = w THEN next ELSE stage[v]
      /\ \A v \in Worker : task'[v] = IF v = w THEN [op |-> "Restore", fd |-> f]
                                      ELSE task[v]
      /\ \A d \in Conn : at'[d] = IF d = c THEN "asleep" ELSE at[d]
      /\ \A d \in Conn : awaits'[d] = IF d = c THEN f ELSE awaits[d]
  BY <1>2 DEF IInv, TypeOK
<1>5. \A d : HandsOff(d) <=> HandsOff(d)'
  BY <1>2 DEF HandsOff
<1>6. \A d \in Conn : \A g : AsleepOn(d, g) => AsleepOn(d, g)'
  BY <1>1, <1>4, <1>5 DEF AsleepOn
<1>7. Pending' = Pending /\ ChangesOrdered'
      /\ Elements(updates') = Elements(updates)
      /\ Elements(applying') = Elements(applying)
  BY <1>2, QuietEffect DEF IInv
<1>8. TypeOK'
  <2>1. [op |-> "Restore", fd |-> f] \in Task
    BY DEF Task
  <2> QED
    BY <1>2, <2>1 DEF IInv, TypeOK
<1>9. KindTrue' /\ OneHolder'
  BY <1>2 DEF IInv, KindTrue, OneHolder
<1>10. \A v \in Worker : HeldTrue(v)'
  <2>1. HeldTrue(w)'
    BY <1>1, <1>2, <1>3, <1>4 DEF IInv, HeldTrue, Task
  <2>2. ASSUME NEW v \in Worker, v # w PROVE HeldTrue(v)'
    <3>1. held[v].co # c /\ (held[v] \in Job => held[v].co \in Conn)
      BY <1>1, <2>2 DEF Job
    <3> QED
      BY <1>2, <1>4, <2>2, <3>1 DEF IInv, HeldTrue
  <2> QED
    BY <2>1, <2>2
<1>11. JobsTrue'
  BY <1>1, <1>2, <1>4, MembersTyped DEF IInv, JobsTrue, Job
<1>12. ArmedTrue'
  BY <1>2, <1>6, <1>7 DEF IInv, ArmedTrue
<1>13. WaitingTrue' /\ \A s \in Shared : Once(waiting'[s])
  BY <1>2, <1>6, MembersTyped DEF IInv, WaitingTrue
<1>14. OwnedTrue'
  BY <1>1, <1>2, <1>3, <1>4, <1>7, FdAssumption DEF IInv, OwnedTrue, EntryOfOwner, FdAssumption, Fd
<1>15. ConnTrue'
  BY <1>2, <1>4, <1>5, <1>7 DEF IInv, ConnTrue
<1>16. PendingTrue'
  <2>1. ASSUME NEW u \in Pending PROVE StreamChange(u)'
    BY <1>1, <1>2, <1>4, <1>5, <1>6
    DEF IInv, PendingTrue, StreamChange
  <2>2. ASSUME NEW u \in Pending PROVE OwnedChange(u)'
    <3>1. \A v \in Worker : Registers(u, v) => Registers(u, v)'
      BY <1>2, <1>4 DEF Registers
    <3> QED
      BY <1>2, <1>6, <1>7, <3>1 DEF IInv, PendingTrue, OwnedChange, Restored
  <2>3. ASSUME NEW u \in Pending PROVE SharedChange(u)'
    BY <1>2, <1>6, <1>7 DEF IInv, PendingTrue, SharedChange
  <2> QED
    BY <1>7, <2>1, <2>2, <2>3 DEF IInv, PendingTrue
<1>17. PoolsMade'
  BY <1>1, <1>2, <1>7 DEF IInv, PoolsMade
<1>18. StrayThrow \/ SleeperKnown'
  <2> SUFFICES ASSUME ~StrayThrow PROVE SleeperKnown'
    OBVIOUS
  <2>1. ASSUME NEW d \in Conn, d # c, WaitPends(d) PROVE WaitPends(d)'
    BY <1>2, <1>4, <1>7, <2>1 DEF WaitPends
  <2>2. WaitPends(c)'
    <3>1. \E v \in Worker : held'[v].co = c
      BY <1>2, <1>3
    <3> QED
      BY <3>1 DEF WaitPends
  <2>3. ASSUME NEW d \in Conn, at'[d] = "asleep"
        PROVE  WaitPends(d)' \/ d \in strayed'
    <3>1. CASE d = c
      BY <2>2, <3>1
    <3>2. CASE d # c
      BY <1>4, <2>1, <2>3, <3>2 DEF IInv, SleeperKnown
    <3> QED
      BY <3>1, <3>2
  <2> QED
    BY <2>3 DEF SleeperKnown
<1> QED
  BY <1>2, <1>7, <1>8, <1>9, <1>10, <1>11, <1>12, <1>13, <1>14, <1>15, <1>16,
     <1>17, <1>18 DEF IInv

(* The three ways a handler waits: for what it has registered, for data, for*)
(* a pool.                                                                  *)
LEMMA WaitsIInv ==
    ASSUME IInv, NEW w \in Worker, YieldRegistered(w) \/ Await(w) \/ AwaitShared(w)
    PROVE  IInv'
<1> USE DEF worldVars
<1>1. /\ ready \in SUBSET (Conn \union Owned) /\ pool \in [Shared -> Nat]
      /\ peerClosed \in SUBSET Conn /\ strayed \in SUBSET Conn
  BY DEF IInv, TypeOK
<1>2. CASE YieldRegistered(w)
  <2>1. /\ stage[w] = "registering" /\ Sleeps(w, task[w].fd, "registered")
        /\ UNCHANGED <<leased, strayed, ready, pool, peerClosed>>
    BY <1>2 DEF YieldRegistered
  <2>2. task[w].fd \in owns[held[w].co] /\ held[w].co \in Conn
    BY <2>1, InsideAlone DEF IInv, HeldTrue
  <2>3. task[w].fd \in Owned /\ task[w].fd \in Fd
        /\ task[w].fd \notin Conn /\ task[w].fd \notin Shared
    BY <2>2, FdAssumption DEF IInv, TypeOK, FdAssumption, Fd
  <2> QED
    BY <1>1, <2>1, <2>2, <2>3, SleepsIInv
<1>3. CASE Await(w)
  <2>1. PICK c \in Conn : \E f \in {c} \union owns[c] :
            /\ Runs(w, c) /\ ready' = ready \ {f}
            /\ Sleeps(w, f, "yielded")
            /\ UNCHANGED <<leased, strayed, pool, peerClosed>>
    BY <1>3 DEF Await
  <2>2. PICK f \in {c} \union owns[c] :
            /\ Runs(w, c) /\ ready' = ready \ {f}
            /\ Sleeps(w, f, "yielded")
            /\ UNCHANGED <<leased, strayed, pool, peerClosed>>
    BY <2>1
  <2>3. stage[w] = "running" /\ held[w].co = c
    BY <2>2 DEF Runs
  <2>4. /\ f \in Fd /\ f \notin Shared
        /\ f \in Conn => f = c
        /\ f \in Owned => f \in owns[c]
    BY FdAssumption DEF IInv, TypeOK, FdAssumption, Fd
  <2>5. ready' \in SUBSET (Conn \union Owned)
    BY <1>1, <2>2
  <2> QED
    BY <1>1, <2>2, <2>3, <2>4, <2>5, SleepsIInv
<1>4. CASE AwaitShared(w)
  <2>1. PICK c \in Conn, s \in Shared :
            /\ Runs(w, c)
            /\ strayed' = IF held[w].fd = c THEN strayed ELSE strayed \union {c}
            /\ Sleeps(w, s, "yielded")
            /\ UNCHANGED <<leased, ready, pool, peerClosed>>
    BY <1>4 DEF AwaitShared
  <2>2. stage[w] = "running" /\ held[w].co = c
    BY <2>1 DEF Runs
  <2>3. s \in Fd /\ s \notin Conn /\ s \notin Owned
    BY FdAssumption DEF FdAssumption, Fd
  <2>4. /\ strayed' \in SUBSET Conn /\ strayed \subseteq strayed'
        /\ held[w].fd = c \/ c \in strayed'
    BY <1>1, <2>1
  <2> QED
    BY <1>1, <2>1, <2>2, <2>3, <2>4, SleepsIInv
<1> QED
  BY <1>2, <1>3, <1>4

(* Data arrives, a client closes, a connection of a pool is taken or        *)
(* returned: nobody is woken by that alone.                                 *)
LEMMA QuietStepIInv ==
    ASSUME IInv,
           \/ \E c \in Conn : PeerCloses(c)
           \/ \E f \in Conn \union Owned : BecomesReady(f)
           \/ \E w \in Worker : Lease(w) \/ ReturnLease(w)
    PROVE  IInv'
<1> USE DEF dataVars, workerVars, coVars, worldVars
<1>1. \A c \in Conn : at[c] \in {"closed", "ended"} => leased[c] = None
  BY DEF IInv, ConnTrue
<1>2. CASE \E c \in Conn : PeerCloses(c)
  <2>1. TypeOK'
    BY <1>2 DEF IInv, TypeOK, PeerCloses
  <2>2. UNCHANGED <<dataVars, updates, applying, jobs, workerVars, at, awaits,
                    owns, leased, strayed>>
    BY <1>2 DEF PeerCloses
  <2> QED
    BY <1>1, <2>1, <2>2, QuietIInv
<1>3. CASE \E f \in Conn \union Owned : BecomesReady(f)
  <2>1. TypeOK'
    BY <1>3 DEF IInv, TypeOK, BecomesReady
  <2>2. UNCHANGED <<dataVars, updates, applying, jobs, workerVars, at, awaits,
                    owns, leased, strayed>>
    BY <1>3 DEF BecomesReady
  <2> QED
    BY <1>1, <2>1, <2>2, QuietIInv
<1>4. ASSUME NEW w \in Worker, Lease(w) PROVE IInv'
  <2>1. PICK c \in Conn, s \in Shared :
            /\ Runs(w, c) /\ pool[s] > 0
            /\ pool' = [pool EXCEPT ![s] = @ - 1]
            /\ leased' = [leased EXCEPT ![c] = s]
    BY <1>4 DEF Lease
  <2>2. /\ UNCHANGED <<dataVars, updates, applying, jobs, workerVars, at, awaits,
                       owns, strayed>>
        /\ UNCHANGED <<ready, peerClosed>>
    BY <1>4 DEF Lease
  <2>3. pool' \in [Shared -> Nat]
    BY <2>1 DEF IInv, TypeOK
  <2>4. TypeOK'
    BY <2>1, <2>2, <2>3 DEF IInv, TypeOK
  <2>5. at[c] = "running"
    BY <2>1, InsideAlone DEF Runs
  <2>6. \A d \in Conn : at[d] \in {"closed", "ended"} => leased'[d] = None
    BY <1>1, <2>1, <2>5 DEF IInv, TypeOK
  <2> QED
    BY <2>2, <2>4, <2>6, QuietIInv
<1>5. ASSUME NEW w \in Worker, ReturnLease(w) PROVE IInv'
  <2>1. PICK c \in Conn :
            /\ Runs(w, c) /\ leased[c] # None
            /\ pool' = [pool EXCEPT ![leased[c]] = @ + 1]
            /\ leased' = [leased EXCEPT ![c] = None]
    BY <1>5 DEF ReturnLease
  <2>2. /\ UNCHANGED <<dataVars, updates, applying, jobs, workerVars, at, awaits,
                       owns, strayed>>
        /\ UNCHANGED <<ready, peerClosed>>
    BY <1>5 DEF ReturnLease
  <2>3. pool' \in [Shared -> Nat]
    BY <2>1 DEF IInv, TypeOK
  <2>4. TypeOK'
    BY <2>1, <2>2, <2>3 DEF IInv, TypeOK
  <2>5. \A d \in Conn : at[d] \in {"closed", "ended"} => leased'[d] = None
    BY <1>1, <2>1 DEF IInv, TypeOK
  <2> QED
    BY <2>2, <2>4, <2>5, QuietIInv
<1> QED
  BY <1>2, <1>3, <1>4, <1>5

(* Nothing is known yet, or any more, of a closed connection.               *)
LEMMA ClosedUnknown ==
    ASSUME IInv, NEW c \in Conn, at[c] = "closed"
    PROVE  /\ kind[c] = "none" /\ HandsOff(c) /\ owns[c] = {}
           /\ \A u \in Pending : u.fd # c
<1>1. kind[c] = "none"
  BY DEF IInv, ConnTrue
<1>2. HandsOff(c)
  BY <1>1, FdAssumption
  DEF IInv, HeldTrue, JobsTrue, HandsOff, NoJob, FdAssumption, Fd
<1>3. owns[c] = {}
  BY <1>1 DEF IInv, OwnedTrue, EntryOfOwner
<1>4. \A u \in Pending : u.fd # c
  BY DEF IInv, PendingTrue, StreamChange, AsleepOn
<1> QED
  BY <1>1, <1>2, <1>3, <1>4

(* A connection is accepted: its coroutine sleeps, its entry is requested.  *)
LEMMA ConnectedIInv == ASSUME IInv, NEW c \in Conn, Connected(c) PROVE IInv'
<1>1. /\ at[c] = "closed" /\ kind[c] = "none" /\ HandsOff(c) /\ owns[c] = {}
      /\ \A u \in Pending : u.fd # c
  BY ClosedUnknown DEF Connected
<1>2. /\ at' = [at EXCEPT ![c] = "asleep"]
      /\ awaits' = [awaits EXCEPT ![c] = c]
      /\ \A s \in Shared : kind[s] = "shared" \/ s \in Mentioned
      /\ UNCHANGED <<kind, link, waiting, armed, applying, jobs, held, stage,
                     task, owns, leased, strayed, ready, pool, peerClosed>>
  BY DEF Connected, dataVars, workerVars, worldVars
<1>3. PICK u \in Update : /\ updates' = Append(updates, u)
                          /\ u.op = "CreateStream" /\ u.fd = c /\ u.owner = None
  <2>1. Requested("CreateStream", c, None) \in Update
    BY DEF Requested, Update, Fd
  <2> QED
    BY <2>1 DEF Connected, requestChange, Requested
<1>4. /\ \A d \in Conn : at'[d] = IF d = c THEN "asleep" ELSE at[d]
      /\ \A d \in Conn : awaits'[d] = IF d = c THEN c ELSE awaits[d]
  BY <1>2 DEF IInv, TypeOK
<1>5. \A d : HandsOff(d) <=> HandsOff(d)'
  BY <1>2 DEF HandsOff
<1>6. \A d \in Conn : \A g : AsleepOn(d, g) => AsleepOn(d, g)' /\ d # c
  BY <1>1, <1>4, <1>5 DEF AsleepOn
<1>7. /\ updates' \in Seq(Update) /\ ChangesOrdered'
      /\ Elements(updates') = Elements(updates) \union {u}
      /\ Elements(applying') = Elements(applying)
      /\ Pending' = Pending \union {u}
  BY <1>1, <1>2, <1>3, RequestEffect DEF IInv, Before
<1>8. TypeOK'
  BY <1>2, <1>7 DEF IInv, TypeOK, Fd
<1>9. KindTrue' /\ OneHolder'
  BY <1>2 DEF IInv, KindTrue, OneHolder
<1>10. \A v \in Worker : HeldTrue(v)'
  <2>1. \A v \in Worker : held[v] \in Job => held[v].co \in Conn /\ held[v].co # c
    BY <1>1 DEF Job, HandsOff
  <2> QED
    BY <1>1, <1>2, <1>4, <2>1 DEF IInv, HeldTrue
<1>11. JobsTrue'
  BY <1>1, <1>2, <1>4, MembersTyped DEF IInv, JobsTrue, Job
<1>12. ArmedTrue'
  <2>1. c \notin armed
    BY <1>1 DEF IInv, ArmedTrue
  <2> QED
    BY <1>2, <1>3, <1>6, <1>7, <2>1, FdAssumption DEF IInv, ArmedTrue, FdAssumption
<1>13. WaitingTrue' /\ \A s \in Shared : Once(waiting'[s])
  BY <1>2, <1>6, MembersTyped DEF IInv, WaitingTrue
<1>14. OwnedTrue'
  BY <1>1, <1>2, <1>3, <1>4, <1>7, FdAssumption DEF IInv, OwnedTrue, EntryOfOwner, TypeOK, FdAssumption
<1>15. ConnTrue'
  BY <1>2, <1>4, <1>5, <1>7 DEF IInv, ConnTrue
<1>16. PendingTrue'
  <2>1. StreamChange(u)' /\ OwnedChange(u)' /\ SharedChange(u)'
    BY <1>1, <1>2, <1>3, <1>4, <1>5, FdAssumption
    DEF StreamChange, OwnedChange, SharedChange, AsleepOn, FdAssumption
  <2>2. ASSUME NEW v \in Pending PROVE StreamChange(v)'
    BY <1>1, <1>2, <1>4, <1>5, <1>6 DEF IInv, PendingTrue, StreamChange
  <2>3. ASSUME NEW v \in Pending PROVE OwnedChange(v)'
    BY <1>2, <1>6, <1>7 DEF IInv, PendingTrue, OwnedChange, Restored, Registers
  <2>4. ASSUME NEW v \in Pending PROVE SharedChange(v)'
    BY <1>2, <1>6, <1>7 DEF IInv, PendingTrue, SharedChange
  <2> QED
    BY <1>3, <1>7, <2>1, <2>2, <2>3, <2>4 DEF IInv, PendingTrue
<1>17. PoolsMade'
  <2>1. ASSUME NEW s \in Shared, s \in Mentioned
        PROVE  \/ StrayThrow
               \/ kind[s] = "shared"
               \/ \E v \in Pending : v.op = "CreateShared" /\ v.fd = s
    BY <2>1 DEF IInv, Mentioned, PendingTrue, SharedChange
  <2> QED
    BY <1>2, <1>7, <2>1 DEF PoolsMade
<1>18. StrayThrow \/ SleeperKnown'
  <2> SUFFICES ASSUME ~StrayThrow PROVE SleeperKnown'
    OBVIOUS
  <2>1. ASSUME NEW d \in Conn, d # c, WaitPends(d) PROVE WaitPends(d)'
    BY <1>2, <1>4, <1>7, <2>1 DEF WaitPends
  <2>2. WaitPends(c)'
    <3>1. u \in Pending' /\ u.fd = awaits'[c]
      BY <1>3, <1>4, <1>7
    <3> QED
      BY <1>3, <3>1 DEF WaitPends
  <2> QED
    BY <1>2, <1>4, <2>1, <2>2 DEF IInv, SleeperKnown
<1> QED
  BY <1>2, <1>7, <1>8, <1>9, <1>10, <1>11, <1>12, <1>13, <1>14, <1>15, <1>16,
     <1>17, <1>18 DEF IInv

(* A pool is made before there are connections that wait for it.            *)
LEMMA SharedSocketIInv ==
    ASSUME IInv, NEW s \in Shared, registerSharedSocket(s) PROVE IInv'
<1>1. /\ kind[s] = "none" /\ s \notin Mentioned
      /\ UNCHANGED <<kind, link, waiting, armed, applying, jobs, held, stage, task,
                     at, awaits, owns, leased, strayed, ready, pool, peerClosed>>
  BY DEF registerSharedSocket, dataVars, workerVars, coVars, worldVars
<1>2. PICK u \in Update : /\ updates' = Append(updates, u)
                          /\ u.op = "CreateShared" /\ u.fd = s /\ u.owner = None
  <2>1. Requested("CreateShared", s, None) \in Update
    BY DEF Requested, Update, Fd
  <2> QED
    BY <2>1 DEF registerSharedSocket, requestChange, Requested
<1>3. s \notin Conn /\ s \notin Owned /\ \A v \in Pending : v.fd # s
  BY <1>1, FdAssumption DEF Mentioned, FdAssumption
<1>4. \A d : HandsOff(d) <=> HandsOff(d)'
  BY <1>1 DEF HandsOff
<1>5. \A d, g : AsleepOn(d, g) => AsleepOn(d, g)'
  BY <1>1, <1>4 DEF AsleepOn
<1>6. /\ updates' \in Seq(Update) /\ ChangesOrdered'
      /\ Elements(updates') = Elements(updates) \union {u}
      /\ Elements(applying') = Elements(applying)
      /\ Pending' = Pending \union {u}
  BY <1>1, <1>2, <1>3, RequestEffect DEF IInv, Before
<1>7. TypeOK' /\ KindTrue' /\ OneHolder' /\ JobsTrue'
  BY <1>1, <1>6 DEF IInv, TypeOK, KindTrue, OneHolder, JobsTrue
<1>8. \A v \in Worker : HeldTrue(v)'
  BY <1>1 DEF IInv, HeldTrue
<1>9. ArmedTrue'
  BY <1>1, <1>2, <1>3, <1>5, <1>6 DEF IInv, ArmedTrue
<1>10. WaitingTrue' /\ \A r \in Shared : Once(waiting'[r])
  BY <1>1, <1>5 DEF IInv, WaitingTrue
<1>11. OwnedTrue'
  BY <1>1, <1>2, <1>3, <1>6 DEF IInv, OwnedTrue, EntryOfOwner, TypeOK
<1>12. ConnTrue' /\ PoolsMade'
  BY <1>1, <1>4, <1>6 DEF IInv, ConnTrue, PoolsMade
<1>13. PendingTrue'
  <2>1. StreamChange(u)' /\ OwnedChange(u)' /\ SharedChange(u)'
    BY <1>1, <1>2, <1>3 DEF StreamChange, OwnedChange, SharedChange
  <2>2. ASSUME NEW v \in Pending PROVE StreamChange(v)' /\ SharedChange(v)'
    BY <1>1, <1>4, <1>5, <1>6 DEF IInv, PendingTrue, StreamChange, SharedChange
  <2>3. ASSUME NEW v \in Pending PROVE OwnedChange(v)'
    BY <1>1, <1>5, <1>6 DEF IInv, PendingTrue, OwnedChange, Restored, Registers
  <2> QED
    BY <1>2, <1>6, <2>1, <2>2, <2>3 DEF IInv, PendingTrue
<1>14. StrayThrow \/ SleeperKnown'
  BY <1>1, <1>6 DEF IInv, SleeperKnown, WaitPends
<1> QED
  BY <1>1, <1>6, <1>7, <1>8, <1>9, <1>10, <1>11, <1>12, <1>13, <1>14 DEF IInv

(* The owner of a descriptor that waits for nothing, or for another, has no *)
(* change of it on its way, but for a removal.                              *)
LEMMA OwnedQuiet ==
    ASSUME IInv, NEW c \in Conn, NEW o \in owns[c],
           at[c] = "running" \/ awaits[c] # o,
           \A w \in Worker : held[w].co = c => stage[w] \in {"running", "yielded"}
    PROVE  \A u \in Pending : u.fd = o => u.op = "Remove"
<1>1. o \in Owned
  BY DEF IInv, TypeOK
<1>2. \A u \in Pending : u.fd = o => u.op # "Restore"
  BY <1>1 DEF IInv, PendingTrue, OwnedChange, OwnedTrue, EntryOfOwner, AsleepOn
<1>3. \A u \in Pending : u.fd = o => u.op # "CreateOwned"
  <2> SUFFICES ASSUME NEW u \in Pending, u.fd = o, u.op = "CreateOwned"
               PROVE  FALSE
    OBVIOUS
  <2>1. u.owner = c
    BY <1>1 DEF IInv, PendingTrue, OwnedChange, OwnedTrue, EntryOfOwner
  <2>2. ~Restored(o, Elements(updates)) /\ ~Restored(o, Elements(applying))
    BY <1>2 DEF Restored, Pending
  <2>3. \E w \in Worker : Registers(u, w)
    BY <1>1, <2>2 DEF IInv, PendingTrue, OwnedChange
  <2> QED
    BY <2>1, <2>3 DEF Registers
<1> QED
  BY <1>1, <1>2, <1>3 DEF IInv, PendingTrue, OwnedChange

(* A handler opens a descriptor: its entry is requested, it is owned.       *)
LEMMA RegisterIInv == ASSUME IInv, NEW w \in Worker, registerYield(w) PROVE IInv'
<1>1. PICK c \in Conn, o \in Owned \ UNION {owns[d] : d \in Conn} :
        /\ Runs(w, c)
        /\ owns' = [owns EXCEPT ![c] = @ \union {o}]
        /\ task' = [task EXCEPT ![w] = [op |-> "Restore", fd |-> o]]
        /\ stage' = [stage EXCEPT ![w] = "registering"]
        /\ requestChange("CreateOwned", o, c)
        /\ UNCHANGED <<kind, link, waiting, armed, applying, jobs, held, at,
                       awaits, leased, strayed, ready, pool, peerClosed>>
  BY DEF registerYield, dataVars, worldVars
<1>2. /\ held[w] \in Job /\ held[w].co = c /\ stage[w] = "running"
      /\ at[c] = "running" /\ kind[c] = "stream" /\ ~HandsOff(c)
      /\ \A v \in Worker : v # w => held[v].co # c
      /\ \A j \in Elements(jobs) : j.co # c
  BY <1>1, InsideAlone DEF Runs
<1>3. /\ o \in Owned /\ o \in Fd /\ o \notin Conn /\ o \notin Shared
      /\ \A d \in Conn : o \notin owns[d]
  BY <1>1, FdAssumption DEF FdAssumption, Fd
<1>4. PICK u \in Update : /\ updates' = Append(updates, u)
                          /\ u.op = "CreateOwned" /\ u.fd = o /\ u.owner = c
  <2>1. Requested("CreateOwned", o, c) \in Update
    BY <1>3 DEF Requested, Update, Fd
  <2> QED
    BY <1>1, <2>1 DEF requestChange, Requested
<1>5. /\ \A d \in Conn : owns'[d] = IF d = c THEN owns[d] \union {o} ELSE owns[d]
      /\ \A v \in Worker : stage'[v] = IF v = w THEN "registering" ELSE stage[v]
      /\ \A v \in Worker : task'[v] = IF v = w THEN [op |-> "Restore", fd |-> o]
                                      ELSE task[v]
  BY <1>1 DEF IInv, TypeOK
<1>6. \A d : HandsOff(d) <=> HandsOff(d)'
  BY <1>1 DEF HandsOff
<1>7. \A d, g : AsleepOn(d, g) => AsleepOn(d, g)'
  BY <1>1, <1>6 DEF AsleepOn
<1>8. \A v \in Pending : v.fd = o => v.op = "Remove"
  BY <1>3 DEF IInv, PendingTrue, OwnedChange
<1>9. /\ updates' \in Seq(Update) /\ ChangesOrdered'
      /\ Elements(updates') = Elements(updates) \union {u}
      /\ Elements(applying') = Elements(applying)
      /\ Pending' = Pending \union {u}
  BY <1>1, <1>3, <1>4, <1>8, RequestEffect DEF IInv, Before
<1>10. TypeOK'
  <2>1. [op |-> "Restore", fd |-> o] \in Task
    BY <1>3 DEF Task
  <2>2. owns' \in [Conn -> SUBSET Owned]
    BY <1>1 DEF IInv, TypeOK
  <2>3. task' \in [Worker -> Task \union {None}]
    BY <1>1, <2>1 DEF IInv, TypeOK
  <2>4. stage' \in [Worker -> {"idle", "running", "registering", "registered",
                              "yielded"}]
    BY <1>1 DEF IInv, TypeOK
  <2> QED
    BY <1>1, <1>9, <2>2, <2>3, <2>4 DEF IInv, TypeOK
<1>11. KindTrue' /\ OneHolder' /\ JobsTrue'
  BY <1>1 DEF IInv, KindTrue, OneHolder, JobsTrue
<1>12. \A v \in Worker : HeldTrue(v)'
  <2>1. HeldTrue(w)'
    <3>1. /\ stage'[w] = "registering" /\ o \in owns'[c]
          /\ task'[w] \in Task /\ task'[w].op = "Restore" /\ task'[w].fd = o
      <4>1. PICK t : t = [op |-> "Restore", fd |-> o]
        OBVIOUS
      <4>2. t \in Task /\ t.op = "Restore" /\ t.fd = o
        BY <1>3, <4>1 DEF Task
      <4>3. stage'[w] = "registering" /\ task'[w] = t
        BY <1>5, <4>1
      <4>4. o \in owns'[c]
        BY <1>5
      <4> QED
        BY <4>2, <4>3, <4>4
    <3>2. /\ held'[w] \in Job /\ held'[w].co = c /\ held'[w] # NoJob
          /\ kind'[c] = "stream" /\ at'[c] = "running"
          /\ held'[w].fd \in Conn => held'[w].fd = c
      <4>1. HeldTrue(w)
        BY DEF IInv
      <4>2. held[w] # NoJob /\ (held[w].fd \in Conn => held[w].fd = c)
        BY <1>2, <4>1 DEF HeldTrue
      <4> QED
        BY <1>1, <1>2, <4>2
    <3> QED
      BY <3>1, <3>2 DEF HeldTrue
  <2>2. ASSUME NEW v \in Worker, v # w PROVE HeldTrue(v)'
    BY <1>1, <1>2, <1>5, <2>2 DEF IInv, HeldTrue, Job
  <2> QED
    BY <2>1, <2>2
<1>13. ArmedTrue'
  <2>1. o \notin armed
    BY <1>3 DEF IInv, ArmedTrue, OwnedTrue, EntryOfOwner, AsleepOn
  <2> QED
    BY <1>1, <1>3, <1>4, <1>7, <1>9, <2>1 DEF IInv, ArmedTrue
<1>14. WaitingTrue' /\ \A s \in Shared : Once(waiting'[s])
  BY <1>1, <1>7 DEF IInv, WaitingTrue
<1>15. OwnedTrue'
  <2>0. ASSUME NEW d \in Conn, NEW p \in owns'[d] PROVE p = o \/ p \in owns[d]
    <3>1. owns'[d] = owns[d] \union {o} \/ owns'[d] = owns[d]
      BY <1>5
    <3> QED
      BY <3>1
  <2>1. ASSUME NEW d \in Conn, NEW e \in Conn, NEW p \in owns'[d], p \in owns'[e]
        PROVE  d = e
    <3>1. CASE p = o
      <4>1. \A x \in Conn : o \in owns'[x] => x = c
        BY <1>3, <1>5
      <4> QED
        BY <2>1, <3>1, <4>1
    <3>2. CASE p # o
      <4>1. p \in owns[d]
        BY <2>0, <3>2
      <4>2. p \in owns[e]
        BY <2>0, <2>1, <3>2
      <4> QED
        BY <4>1, <4>2 DEF IInv, OwnedTrue, EntryOfOwner
    <3> QED
      BY <3>1, <3>2
  <2>2. /\ \A d \in Conn : owns'[d] # {} =>
                kind'[d] = "stream" /\ at'[d] \in {"running", "asleep"}
        /\ \A d \in Conn : at'[d] = "asleep" /\ awaits'[d] \notin Shared =>
                awaits'[d] = d \/ awaits'[d] \in owns'[d]
    BY <1>1, <1>2, <1>5 DEF IInv, OwnedTrue, EntryOfOwner
  <2>3. ASSUME NEW d \in Conn, NEW p \in owns'[d]
        PROVE  EntryOfOwner(p, d)'
    <3>1. CASE p = o
      BY <1>3, <1>4, <1>5, <1>9, <3>1 DEF EntryOfOwner
    <3>2. CASE p # o
      BY <1>1, <1>4, <1>5, <1>9, <3>2 DEF IInv, OwnedTrue, EntryOfOwner
    <3> QED
      BY <3>1, <3>2
  <2> QED
    BY <2>1, <2>2, <2>3 DEF OwnedTrue, EntryOfOwner
<1>16. ConnTrue' /\ PoolsMade'
  BY <1>1, <1>6, <1>9 DEF IInv, ConnTrue, PoolsMade
<1>17. PendingTrue'
  <2>1. StreamChange(u)' /\ SharedChange(u)'
    BY <1>3, <1>4 DEF StreamChange, SharedChange
  <2>2. OwnedChange(u)'
    <3>1. Registers(u, w)'
      BY <1>1, <1>2, <1>4, <1>5 DEF Registers
    <3>2. u \notin Elements(applying')
      BY <1>4, <1>8, <1>9 DEF Pending
    <3>3. u.owner \in Conn /\ u.fd \in owns'[u.owner]
      BY <1>4, <1>5
    <3> QED
      BY <1>4, <3>1, <3>2, <3>3 DEF OwnedChange
  <2>3. ASSUME NEW v \in Pending PROVE StreamChange(v)' /\ SharedChange(v)'
    BY <1>1, <1>6, <1>7, <1>9 DEF IInv, PendingTrue, StreamChange, SharedChange
  <2>4. ASSUME NEW v \in Pending PROVE OwnedChange(v)'
    <3>1. \A x \in Worker : Registers(v, x) => Registers(v, x)'
      BY <1>1, <1>2, <1>5 DEF Registers
    <3> QED
      BY <1>1, <1>5, <1>7, <1>9, <3>1
      DEF IInv, PendingTrue, OwnedChange, Restored
  <2> QED
    BY <1>4, <1>9, <2>1, <2>2, <2>3, <2>4 DEF IInv, PendingTrue
<1>18. StrayThrow \/ SleeperKnown'
  BY <1>1, <1>9 DEF IInv, SleeperKnown, WaitPends
<1> QED
  BY <1>1, <1>9, <1>10, <1>11, <1>12, <1>13, <1>14, <1>15, <1>16, <1>17, <1>18
  DEF IInv

(* A handler closes a descriptor it owns: the removal is requested.         *)
LEMMA UnregisterIInv ==
    ASSUME IInv, NEW w \in Worker, unregisterYield(w) PROVE IInv'
<1>1. PICK c \in Conn : \E o \in owns[c] :
        /\ Runs(w, c)
        /\ owns' = [owns EXCEPT ![c] = @ \ {o}]
        /\ ready' = ready \ {o}
        /\ requestChange("Remove", o, None)
        /\ UNCHANGED <<kind, link, waiting, armed, applying, jobs, held, stage,
                       task, at, awaits, leased, strayed, pool, peerClosed>>
  BY DEF unregisterYield, dataVars, workerVars
<1>2. PICK o \in owns[c] :
        /\ Runs(w, c)
        /\ owns' = [owns EXCEPT ![c] = @ \ {o}]
        /\ ready' = ready \ {o}
        /\ requestChange("Remove", o, None)
        /\ UNCHANGED <<kind, link, waiting, armed, applying, jobs, held, stage,
                       task, at, awaits, leased, strayed, pool, peerClosed>>
  BY <1>1
<1>3. /\ held[w] \in Job /\ held[w].co = c /\ stage[w] = "running"
      /\ at[c] = "running" /\ kind[c] = "stream" /\ ~HandsOff(c)
      /\ \A v \in Worker : v # w => held[v].co # c
      /\ \A j \in Elements(jobs) : j.co # c
  BY <1>2, InsideAlone DEF Runs
<1>4. /\ o \in Owned /\ o \in Fd /\ o \notin Conn /\ o \notin Shared
      /\ \A d \in Conn : o \in owns[d] => d = c
  BY FdAssumption DEF IInv, TypeOK, OwnedTrue, EntryOfOwner, FdAssumption, Fd
<1>5. PICK u \in Update : /\ updates' = Append(updates, u)
                          /\ u.op = "Remove" /\ u.fd = o /\ u.owner = None
  <2>1. Requested("Remove", o, None) \in Update
    BY <1>4 DEF Requested, Update
  <2> QED
    BY <1>2, <2>1 DEF requestChange, Requested
<1>6. \A v \in Pending : v.fd = o => v.op = "Remove"
  BY <1>3, OwnedQuiet
<1>7. \A d \in Conn : owns'[d] = IF d = c THEN owns[d] \ {o} ELSE owns[d]
  BY <1>2 DEF IInv, TypeOK
<1>8. \A d : HandsOff(d) <=> HandsOff(d)'
  BY <1>2 DEF HandsOff
<1>9. \A d, g : AsleepOn(d, g) => AsleepOn(d, g)'
  BY <1>2, <1>8 DEF AsleepOn
<1>10. /\ updates' \in Seq(Update) /\ ChangesOrdered'
       /\ Elements(updates') = Elements(updates) \union {u}
       /\ Elements(applying') = Elements(applying)
       /\ Pending' = Pending \union {u}
  <2>1. \A v \in Pending : Before(v, u)
    BY <1>4, <1>5, <1>6 DEF Before
  <2> QED
    BY <1>2, <1>5, <2>1, RequestEffect DEF IInv
<1>11. TypeOK'
  BY <1>2, <1>10 DEF IInv, TypeOK
<1>12. KindTrue' /\ OneHolder' /\ JobsTrue'
  BY <1>2 DEF IInv, KindTrue, OneHolder, JobsTrue
<1>13. \A v \in Worker : HeldTrue(v)'
  BY <1>2, <1>3, <1>7 DEF IInv, HeldTrue, Job
<1>14. ArmedTrue'
  BY <1>2, <1>4, <1>5, <1>9, <1>10 DEF IInv, ArmedTrue
<1>15. WaitingTrue' /\ \A s \in Shared : Once(waiting'[s])
  BY <1>2, <1>9 DEF IInv, WaitingTrue
<1>16. OwnedTrue'
  <2>1. /\ \A d, e \in Conn : \A p \in owns'[d] : p \in owns'[e] => d = e
        /\ \A d \in Conn : owns'[d] # {} =>
                kind'[d] = "stream" /\ at'[d] \in {"running", "asleep"}
        /\ \A d \in Conn : at'[d] = "asleep" /\ awaits'[d] \notin Shared =>
                awaits'[d] = d \/ awaits'[d] \in owns'[d]
    BY <1>2, <1>3, <1>4, <1>7 DEF IInv, OwnedTrue, EntryOfOwner
  <2>2. ASSUME NEW d \in Conn, NEW p \in owns'[d]
        PROVE  EntryOfOwner(p, d)'
    <3>1. p # o /\ p \in owns[d]
      BY <1>4, <1>7
    <3> QED
      BY <1>2, <1>5, <1>10, <3>1 DEF IInv, OwnedTrue, EntryOfOwner
  <2> QED
    BY <2>1, <2>2 DEF OwnedTrue, EntryOfOwner
<1>17. ConnTrue' /\ PoolsMade'
  BY <1>2, <1>8, <1>10 DEF IInv, ConnTrue, PoolsMade
<1>18. PendingTrue'
  <2>1. StreamChange(u)' /\ OwnedChange(u)' /\ SharedChange(u)'
    BY <1>4, <1>5 DEF StreamChange, OwnedChange, SharedChange
  <2>2. ASSUME NEW v \in Pending PROVE StreamChange(v)' /\ SharedChange(v)'
    BY <1>2, <1>8, <1>9, <1>10 DEF IInv, PendingTrue, StreamChange, SharedChange
  <2>3. ASSUME NEW v \in Pending PROVE OwnedChange(v)'
    BY <1>2, <1>6, <1>7, <1>9, <1>10
    DEF IInv, PendingTrue, OwnedChange, Restored, Registers
  <2> QED
    BY <1>5, <1>10, <2>1, <2>2, <2>3 DEF IInv, PendingTrue
<1>19. StrayThrow \/ SleeperKnown'
  BY <1>2, <1>10 DEF IInv, SleeperKnown, WaitPends
<1> QED
  BY <1>2, <1>10, <1>11, <1>12, <1>13, <1>14, <1>15, <1>16, <1>17, <1>18, <1>19
  DEF IInv

(* The change a coroutine asked for goes into the queue, and the worker     *)
(* has nothing more to do with it.                                          *)
LEMMA PostTaskIInv == ASSUME IInv, NEW w \in Worker, PostTask(w) PROVE IInv'
<1>1. PICK c : c = held[w].co
  OBVIOUS
<1>2. /\ stage[w] \in {"registered", "yielded"}
      /\ held[w] \in Job /\ c \in Conn /\ held[w].fd \in Fd /\ kind[c] = "stream"
      /\ task[w] \in Task /\ held[w] # NoJob
      /\ held[w].fd \in Conn => held[w].fd = c
      /\ ~HandsOff(c) /\ at[c] # "closed"
      /\ \A v \in Worker : v # w => held[v].co # c
      /\ \A j \in Elements(jobs) : j.co # c
  <2>1. stage[w] \in {"registered", "yielded"}
    BY DEF PostTask
  <2>2. HeldTrue(w)
    BY DEF IInv
  <2>3. held[w] \in Job /\ held[w] # NoJob /\ c \in Conn /\ held[w].fd \in Fd
    BY <1>1, <2>1, <2>2 DEF HeldTrue, Job
  <2> QED
    BY <1>1, <2>1, <2>2, <2>3 DEF IInv, HeldTrue, OneHolder, JobsTrue, HandsOff
<1>3. /\ held' = [held EXCEPT ![w] = NoJob]
      /\ stage' = [stage EXCEPT ![w] = "idle"]
      /\ task' = [task EXCEPT ![w] = None]
      /\ UNCHANGED <<kind, link, waiting, armed, applying, jobs, at, awaits, owns,
                     leased, strayed, ready, pool, peerClosed>>
  BY DEF PostTask, dataVars, coVars, worldVars
<1>4. PICK u \in Update : /\ updates' = Append(updates, u)
                          /\ u.op = task[w].op /\ u.fd = task[w].fd
                          /\ u.owner = held[w].fd
  <2>1. Requested(task[w].op, task[w].fd, held[w].fd) \in Update
    BY <1>2 DEF Requested, Update, Task
  <2> QED
    BY <2>1 DEF PostTask, requestChange, Requested
<1>5. \/ /\ at[c] = "ended" /\ u.op = "Remove"
         /\ u.fd = c \/ (StrayThrow /\ u.fd \notin Conn)
      \/ /\ at[c] = "asleep" /\ u.op = "Restore" /\ u.fd = awaits[c]
         /\ u.fd \in Shared => u.owner = c \/ c \in strayed
  BY <1>1, <1>2, <1>4, FdAssumption DEF IInv, HeldTrue, FdAssumption
<1>6. /\ \A v \in Worker : held'[v] = IF v = w THEN NoJob ELSE held[v]
      /\ \A v \in Worker : stage'[v] = IF v = w THEN "idle" ELSE stage[v]
      /\ \A v \in Worker : task'[v] = IF v = w THEN None ELSE task[v]
  BY <1>3 DEF IInv, TypeOK
<1>7. NoJob.co = None /\ NoJob.fd = None /\ None \notin Fd /\ None \notin Conn
  BY FdAssumption DEF NoJob, FdAssumption, Fd
<1>8. HandsOff(c)' /\ \A d \in Conn : HandsOff(d) => HandsOff(d)' /\ d # c
  BY <1>2, <1>3, <1>6, <1>7 DEF HandsOff
<1>9. /\ \A d \in Conn : \A g : AsleepOn(d, g) => AsleepOn(d, g)' /\ d # c
      /\ at[c] = "asleep" => AsleepOn(c, u.fd)'
  BY <1>3, <1>5, <1>8 DEF AsleepOn
<1>10. \A d \in Conn : u.fd \in owns[d] /\ at[c] = "asleep" => d = c
  <2>1. \A d \in Conn : owns[d] \subseteq Owned
    BY DEF IInv, TypeOK
  <2> QED
    BY <1>2, <1>5, <2>1, FdAssumption DEF IInv, OwnedTrue, EntryOfOwner, FdAssumption
<1>11. u.fd \in Conn => u.fd = c
  BY <1>2, <1>5, FdAssumption DEF IInv, OwnedTrue, EntryOfOwner, TypeOK, FdAssumption
<1>12. \A v \in Pending : v.fd # c
  BY <1>2, <1>8, <1>9 DEF IInv, PendingTrue, StreamChange
<1>13. u.fd \in Owned /\ at[c] = "asleep" =>
        /\ u.fd \in owns[c] /\ u.op = "Restore"
        /\ \A v \in Pending : v.fd = u.fd => v.op \in {"Remove", "CreateOwned"}
  <2> SUFFICES ASSUME u.fd \in Owned, at[c] = "asleep"
               PROVE  /\ u.fd \in owns[c] /\ u.op = "Restore"
                      /\ \A v \in Pending : v.fd = u.fd
                            => v.op \in {"Remove", "CreateOwned"}
    OBVIOUS
  <2>1. u.fd # c /\ u.fd \notin Shared
    BY <1>2, FdAssumption DEF FdAssumption
  <2>2. u.fd \in owns[c] /\ at[c] = "asleep" /\ u.op = "Restore"
    BY <1>2, <1>5, <2>1 DEF IInv, OwnedTrue, EntryOfOwner
  <2>3. \A v \in Pending : v.fd = u.fd => v.op # "Restore"
    BY <1>9, <1>10, <2>2 DEF IInv, PendingTrue, OwnedChange
  <2> QED
    BY <2>2, <2>3 DEF IInv, PendingTrue, OwnedChange
<1>14. u.fd \in Shared /\ at[c] = "asleep" =>
        /\ u.op = "Restore"
        /\ u.owner \in Conn => u.owner = c
        /\ \A v \in Pending : v.fd = u.fd /\ v.op = "Restore" => v.owner # c
        /\ c \notin Elements(waiting[u.fd])
  <2> SUFFICES ASSUME u.fd \in Shared, at[c] = "asleep"
               PROVE  /\ u.op = "Restore"
                      /\ u.owner \in Conn => u.owner = c
                      /\ \A v \in Pending :
                            v.fd = u.fd /\ v.op = "Restore" => v.owner # c
                      /\ c \notin Elements(waiting[u.fd])
    OBVIOUS
  <2>1. at[c] = "asleep" /\ u.op = "Restore" /\ u.owner \in Conn => u.owner = c
    BY <1>2, <1>4, <1>5, FdAssumption DEF FdAssumption
  <2>2. at[c] = "asleep" /\ u.op = "Restore"
    BY <1>2, <1>5, FdAssumption DEF FdAssumption
  <2>3. \A v \in Pending : v.fd = u.fd /\ v.op = "Restore" => v.owner # c
    BY <1>2, <1>9 DEF IInv, PendingTrue, SharedChange
  <2>4. c \notin Elements(waiting[u.fd])
    BY <1>2, <1>9 DEF IInv, WaitingTrue
  <2> QED
    BY <2>1, <2>2, <2>3, <2>4
<1>15. /\ updates' \in Seq(Update) /\ ChangesOrdered'
       /\ Elements(updates') = Elements(updates) \union {u}
       /\ Elements(applying') = Elements(applying)
       /\ Pending' = Pending \union {u}
  <2>1. ASSUME NEW v \in Pending PROVE Before(v, u)
    BY <1>5, <1>11, <1>12, <1>13, <1>14 DEF Before
  <2> QED
    BY <1>3, <1>4, <2>1, RequestEffect DEF IInv
<1>16. TypeOK'
  BY <1>3, <1>15 DEF IInv, TypeOK
<1>17. KindTrue' /\ OneHolder'
  <2>1. \A v \in Worker : held[v] # NoJob => held[v].co # None
    BY <1>7 DEF IInv, TypeOK, Job
  <2> QED
    BY <1>3, <1>6, <1>7, <2>1 DEF IInv, KindTrue, OneHolder
<1>18. JobsTrue'
  <2>1. \A j \in Elements(jobs) : j.co \in Conn
    BY MembersTyped DEF IInv, Job
  <2> QED
    BY <1>3, <1>6, <1>7, <2>1 DEF IInv, JobsTrue
<1>19. \A v \in Worker : HeldTrue(v)'
  BY <1>3, <1>6, <1>7 DEF IInv, HeldTrue
<1>20. ArmedTrue'
  <2>1. ASSUME NEW d \in armed \intersect Conn PROVE u.fd # d
    BY <1>9, <1>11, <2>1 DEF IInv, ArmedTrue
  <2>2. ASSUME NEW o \in armed \intersect Owned, u.op = "Restore" PROVE u.fd # o
    <3>1. link[o] \in Conn /\ AsleepOn(link[o], o) /\ link[o] # c
      BY <1>9, <2>2 DEF IInv, ArmedTrue
    <3>2. o \in owns[link[o]]
      BY <3>1, FdAssumption DEF IInv, OwnedTrue, EntryOfOwner, AsleepOn, FdAssumption
    <3> QED
      BY <1>5, <1>10, <2>2, <3>1, <3>2
  <2>3. u.op # "CreateOwned"
    BY <1>5
  <2> QED
    BY <1>3, <1>9, <1>15, <2>1, <2>2, <2>3 DEF IInv, ArmedTrue
<1>21. WaitingTrue' /\ \A s \in Shared : Once(waiting'[s])
  BY <1>3, <1>9, MembersTyped DEF IInv, WaitingTrue
<1>22. OwnedTrue'
  <2>1. \A v \in Pending : v \in Pending'
    BY <1>15
  <2>2. \A p \in Owned : u.fd = p => u.op = "Restore" \/ (StrayThrow /\ u.op = "Remove")
    BY <1>2, <1>5, FdAssumption DEF FdAssumption
  <2>3. \A d \in Conn : owns[d] \subseteq Owned
    BY DEF IInv, TypeOK
  <2>4. ASSUME NEW d \in Conn, NEW p \in owns[d] PROVE EntryOfOwner(p, d)'
    <3>1. EntryOfOwner(p, d) /\ p \in Owned
      BY <2>3 DEF IInv, OwnedTrue
    <3> QED
      BY <1>3, <1>15, <2>1, <2>2, <3>1 DEF EntryOfOwner
  <2> QED
    BY <1>3, <2>4 DEF IInv, OwnedTrue
<1>23. ConnTrue'
  <2>1. ASSUME NEW d \in Conn, at[d] = "ended", HandsOff(d)'
        PROVE  StrayThrow \/ \E v \in Pending' : v.op = "Remove" /\ v.fd = d
    <3>1. CASE d = c
      BY <1>5, <1>15, <2>1, <3>1
    <3>2. CASE d # c
      <4>1. HandsOff(d)
        BY <1>1, <1>3, <1>6, <2>1, <3>2 DEF HandsOff
      <4> QED
        BY <1>15, <2>1, <4>1 DEF IInv, ConnTrue
    <3> QED
      BY <3>1, <3>2
  <2> QED
    BY <1>3, <2>1 DEF IInv, ConnTrue
<1>24. PendingTrue'
  <2>1. StreamChange(u)'
    BY <1>2, <1>3, <1>5, <1>8, <1>9, <1>11 DEF StreamChange
  <2>2. OwnedChange(u)'
    BY <1>2, <1>3, <1>5, <1>9, <1>13 DEF OwnedChange
  <2>3. SharedChange(u)'
    <3>1. u.fd \in Shared => \/ kind[u.fd] = "shared"
                             \/ \E v \in Pending : v.op = "CreateShared" /\ v.fd = u.fd
                             \/ StrayThrow
      BY <1>2 DEF IInv, PoolsMade
    <3> QED
      BY <1>2, <1>3, <1>5, <1>9, <1>14, <1>15, <3>1, FdAssumption
      DEF SharedChange, FdAssumption
  <2>4. ASSUME NEW v \in Pending PROVE StreamChange(v)' /\ SharedChange(v)'
    BY <1>3, <1>8, <1>9, <1>15 DEF IInv, PendingTrue, StreamChange, SharedChange
  <2>5. ASSUME NEW v \in Pending PROVE OwnedChange(v)'
    <3>1. ASSUME NEW x \in Worker, v.op = "CreateOwned", Registers(v, x),
                 v \notin Elements(applying)
          PROVE  Registers(v, x)' \/ Restored(v.fd, Elements(updates'))
      <4>1. CASE x = w
        <5>1. u.fd = v.fd
          BY <1>4, <3>1, <4>1 DEF Registers
        <5>2. stage[w] = "registered"
          BY <1>2, <3>1, <4>1 DEF Registers
        <5>3. u.op = "Restore"
          BY <1>4, <5>2 DEF IInv, HeldTrue
        <5> QED
          BY <1>15, <5>1, <5>3 DEF Restored
      <4>2. CASE x # w
        BY <1>6, <3>1, <4>2 DEF Registers
      <4> QED
        BY <4>1, <4>2
    <3>2. /\ Restored(v.fd, Elements(updates)) => Restored(v.fd, Elements(updates'))
          /\ Restored(v.fd, Elements(applying)) => Restored(v.fd, Elements(applying'))
      BY <1>15 DEF Restored
    <3> QED
      BY <1>3, <1>9, <1>15, <3>1, <3>2 DEF IInv, PendingTrue, OwnedChange
  <2>6. u.op = "Restore" => u.owner \in Fd
    BY <1>2, <1>4
  <2> QED
    BY <1>15, <2>1, <2>2, <2>3, <2>4, <2>5, <2>6 DEF IInv, PendingTrue
<1>25. PoolsMade'
  BY <1>3, <1>15 DEF IInv, PoolsMade
<1>26. StrayThrow \/ SleeperKnown'
  <2> SUFFICES ASSUME ~StrayThrow PROVE SleeperKnown'
    OBVIOUS
  <2>1. ASSUME NEW d \in Conn, d # c, WaitPends(d) PROVE WaitPends(d)'
    <3>1. CASE \E v \in Worker : held[v].co = d
      <4>1. \E v \in Worker : held'[v].co = d
        BY <1>1, <1>6, <2>1, <3>1
      <4> QED
        BY <4>1 DEF WaitPends
    <3>2. CASE ~\E v \in Worker : held[v].co = d
      BY <1>3, <1>15, <2>1, <3>2 DEF WaitPends
    <3> QED
      BY <3>1, <3>2
  <2>2. ASSUME at[c] = "asleep" PROVE WaitPends(c)' \/ c \in strayed
    <3>1. u \in Pending' /\ u.fd = awaits'[c] /\ u.op = "Restore"
      BY <1>3, <1>5, <1>15, <2>2
    <3> QED
      BY <1>5, <2>2, <3>1 DEF WaitPends
  <2>3. ASSUME NEW d \in Conn, at[d] = "asleep" PROVE WaitPends(d)' \/ d \in strayed
    BY <2>1, <2>2, <2>3 DEF IInv, SleeperKnown
  <2> QED
    BY <1>3, <2>3 DEF SleeperKnown
<1> QED
  BY <1>3, <1>15, <1>16, <1>17, <1>18, <1>19, <1>20, <1>21, <1>22, <1>23, <1>24,
     <1>25, <1>26 DEF IInv

(* The removals that a handler leaves behind: of what it owned, and all may *)
(* come in any order.                                                       *)
LEMMA RemovalEffect ==
    ASSUME IInv, NEW c \in Conn, NEW r \in RemovalOf(owns[c]),
           \A o \in owns[c] : \A u \in Pending : u.fd = o => u.op = "Remove"
    PROVE  /\ r \in Seq(Update) /\ InOrder(r)
           /\ \A u \in Elements(r) : /\ u \in Update /\ u.op = "Remove"
                                     /\ u.fd \in owns[c]
           /\ \A u \in Pending, v \in Elements(r) : Before(u, v)
<1> DEFINE n == Cardinality(owns[c])
           R == {Requested("Remove", o, None) : o \in owns[c]}
<1>1. owns[c] \subseteq Owned /\ Owned \subseteq Fd
  BY DEF IInv, TypeOK, Fd
<1>2. n \in Nat
  BY <1>1, FS_Subset, FS_CardinalityType, FdAssumption DEF FdAssumption
<1>3. R \subseteq Update
  BY <1>1 DEF Requested, Update
<1>4. r \in [1 .. n -> R] /\ Elements(r) = R
  BY DEF RemovalOf
<1>5. \A u \in R : u.op = "Remove" /\ u.fd \in owns[c]
  BY DEF Requested
<1> HIDE DEF n, R
<1>6. r \in Seq(Update)
  <2>1. r \in [1 .. n -> Update]
    BY <1>3, <1>4
  <2> QED
    BY <1>2, <2>1, SeqDef
<1>7. \A u \in R, v \in R : Before(u, v)
  BY <1>1, <1>5, FdAssumption DEF Before, FdAssumption
<1>8. InOrder(r)
  BY <1>4, <1>6, <1>7, AnyInOrder
<1>9. \A u \in Pending, v \in R : Before(u, v)
  BY <1>1, <1>5, FdAssumption DEF Before, FdAssumption
<1> QED
  BY <1>3, <1>4, <1>5, <1>6, <1>8, <1>9

(* What unwinding a handler appends to the changes stays in order.          *)
LEMMA UnwindEffect ==
    ASSUME IInv, NEW c \in Conn, Unwinds(c),
           \A o \in owns[c] : \A u \in Pending : u.fd = o => u.op = "Remove"
    PROVE  /\ updates' \in Seq(Update) /\ InOrder(updates')
           /\ Elements(updates) \subseteq Elements(updates')
           /\ \A u \in Elements(updates') :
                  u \in Elements(updates) \/ (u.op = "Remove" /\ u.fd \in owns[c])
           /\ \A u \in Elements(applying), v \in Elements(updates') : Before(u, v)
<1>1. PICK r \in RemovalOf(owns[c]) : updates' = updates \o r
  BY DEF Unwinds
<1>2. /\ r \in Seq(Update) /\ InOrder(r)
      /\ \A u \in Elements(r) : u.op = "Remove" /\ u.fd \in owns[c]
      /\ \A u \in Pending, v \in Elements(r) : Before(u, v)
  BY RemovalEffect
<1>3. updates \in Seq(Update) /\ InOrder(updates)
  BY DEF IInv, TypeOK, ChangesOrdered
<1>4. /\ updates' \in Seq(Update)
      /\ Elements(updates') = Elements(updates) \union Elements(r)
  BY <1>1, <1>2, <1>3, ConcatElements
<1>5. InOrder(updates')
  BY <1>1, <1>2, <1>3, ConcatInOrder DEF Pending
<1> QED
  BY <1>2, <1>4, <1>5 DEF IInv, ChangesOrdered, Pending

(* ... and leaves the connection with nothing owned and nothing leased.     *)
LEMMA UnwindType ==
    ASSUME IInv, NEW c \in Conn, Unwinds(c)
    PROVE  /\ owns' \in [Conn -> SUBSET Owned]
           /\ leased' \in [Conn -> Shared \union {None}]
           /\ pool' \in [Shared -> Nat] /\ ready' \subseteq Conn \union Owned
           /\ \A d \in Conn : owns'[d] = IF d = c THEN {} ELSE owns[d]
           /\ \A d \in Conn : leased'[d] = IF d = c THEN None ELSE leased[d]
<1>1. /\ owns' = [owns EXCEPT ![c] = {}] /\ leased' = [leased EXCEPT ![c] = None]
      /\ pool' = [s \in Shared |-> IF s = leased[c] THEN pool[s] + 1 ELSE pool[s]]
      /\ ready' = ready \ (owns[c] \union {c})
  BY DEF Unwinds
<1> QED
  BY <1>1 DEF IInv, TypeOK

(* The end of a coroutine, in the hands of a worker.                        *)
LEMMA EndsIInv ==
    ASSUME IInv, NEW w \in Worker, NEW c \in Conn, Runs(w, c), TypeOK',
           NEW f \in Fd, Ends(w, f), f = c \/ (StrayThrow /\ f \notin Conn),
           ChangesOrdered',
           Elements(updates) \subseteq Elements(updates'),
           \A u \in Elements(updates') :
               u \in Elements(updates) \/ (u.op = "Remove" /\ u.fd \in owns[c]),
           \A d \in Conn : owns'[d] = IF d = c THEN {} ELSE owns[d],
           \A d \in Conn : leased'[d] = IF d = c THEN None ELSE leased[d]
    PROVE  IInv'
<1>1. /\ held[w] \in Job /\ held[w].co = c /\ stage[w] = "running"
      /\ at[c] = "running" /\ kind[c] = "stream" /\ ~HandsOff(c)
      /\ \A v \in Worker : v # w => held[v].co # c
      /\ \A j \in Elements(jobs) : j.co # c
  BY InsideAlone DEF Runs
<1>2. /\ at' = [at EXCEPT ![c] = "ended"]
      /\ task' = [task EXCEPT ![w] = [op |-> "Remove", fd |-> f]]
      /\ stage' = [stage EXCEPT ![w] = "yielded"]
      /\ UNCHANGED <<kind, link, waiting, armed, applying, jobs, held, awaits,
                     strayed>>
  BY <1>1 DEF Ends, dataVars
<1>3. /\ \A v \in Worker : stage'[v] = IF v = w THEN "yielded" ELSE stage[v]
      /\ \A v \in Worker : task'[v] = IF v = w THEN [op |-> "Remove", fd |-> f]
                                      ELSE task[v]
      /\ \A d \in Conn : at'[d] = IF d = c THEN "ended" ELSE at[d]
  BY <1>2 DEF IInv, TypeOK
<1>4. \A d : HandsOff(d) <=> HandsOff(d)'
  BY <1>2 DEF HandsOff
<1>5. \A d \in Conn : \A g : AsleepOn(d, g) => AsleepOn(d, g)' /\ d # c
  BY <1>1, <1>2, <1>3, <1>4 DEF AsleepOn
<1>6. Elements(applying') = Elements(applying)
  BY <1>2
<1>7. /\ Pending \subseteq Pending'
      /\ \A u \in Pending' : u \in Pending \/ (u.op = "Remove" /\ u.fd \in owns[c])
      /\ \A u \in Elements(updates') : u.op # "Remove" => u \in Elements(updates)
  BY <1>6 DEF Pending
<1>8. \A o \in owns[c] : /\ o \in Owned /\ o \notin Conn /\ o \notin Shared
                         /\ \A d \in Conn : o \in owns[d] => d = c
  BY FdAssumption DEF IInv, TypeOK, OwnedTrue, EntryOfOwner, FdAssumption
<1>9. KindTrue' /\ OneHolder'
  BY <1>2 DEF IInv, KindTrue, OneHolder
<1>10. \A v \in Worker : HeldTrue(v)'
  <2>1. HeldTrue(w)'
    BY <1>1, <1>2, <1>3 DEF IInv, HeldTrue, Task, Fd
  <2>2. ASSUME NEW v \in Worker, v # w PROVE HeldTrue(v)'
    BY <1>1, <1>2, <1>3, <2>2 DEF IInv, HeldTrue, Job
  <2> QED
    BY <2>1, <2>2
<1>11. JobsTrue'
  BY <1>1, <1>2, <1>3, MembersTyped DEF IInv, JobsTrue, Job
<1>12. ArmedTrue'
  <2>1. ASSUME NEW d \in armed \intersect Conn, NEW u \in Pending' PROVE u.fd # d
    BY <1>7, <1>8 DEF IInv, ArmedTrue
  <2>2. ASSUME NEW o \in armed \intersect Owned
        PROVE  /\ \A u \in Pending' : u.fd = o => u.op # "CreateOwned"
               /\ \A u \in Elements(updates') : u.fd = o => u.op # "Restore"
    BY <1>7 DEF IInv, ArmedTrue
  <2> QED
    BY <1>2, <1>5, <2>1, <2>2 DEF IInv, ArmedTrue
<1>13. WaitingTrue' /\ \A s \in Shared : Once(waiting'[s])
  BY <1>2, <1>5, MembersTyped DEF IInv, WaitingTrue
<1>14. OwnedTrue'
  <2>1. /\ \A d, e \in Conn : \A p \in owns'[d] : p \in owns'[e] => d = e
        /\ \A d \in Conn : owns'[d] # {} =>
                kind'[d] = "stream" /\ at'[d] \in {"running", "asleep"}
        /\ \A d \in Conn : at'[d] = "asleep" /\ awaits'[d] \notin Shared =>
                awaits'[d] = d \/ awaits'[d] \in owns'[d]
    BY <1>2, <1>3 DEF IInv, OwnedTrue, EntryOfOwner
  <2>2. ASSUME NEW d \in Conn, NEW p \in owns'[d]
        PROVE  EntryOfOwner(p, d)'
    <3>1. d # c /\ p \in owns[d] /\ p \notin owns[c]
      BY <1>8
    <3> QED
      BY <1>2, <1>7, <3>1 DEF IInv, OwnedTrue, EntryOfOwner
  <2> QED
    BY <2>1, <2>2 DEF OwnedTrue, EntryOfOwner
<1>15. ConnTrue'
  BY <1>1, <1>2, <1>3, <1>4, <1>7 DEF IInv, ConnTrue
<1>16. PoolsMade'
  BY <1>1, <1>2, <1>3, <1>7 DEF IInv, PoolsMade
<1>17. PendingTrue'
  <2>1. ASSUME NEW u \in Pending', u.op = "Remove", u.fd \in owns[c]
        PROVE  StreamChange(u)' /\ OwnedChange(u)' /\ SharedChange(u)'
    BY <1>8, <2>1 DEF StreamChange, OwnedChange, SharedChange
  <2>2. ASSUME NEW v \in Pending PROVE StreamChange(v)'
    BY <1>1, <1>2, <1>3, <1>4, <1>5 DEF IInv, PendingTrue, StreamChange
  <2>3. ASSUME NEW v \in Pending PROVE SharedChange(v)'
    BY <1>2, <1>5, <1>7 DEF IInv, PendingTrue, SharedChange
  <2>4. ASSUME NEW v \in Pending PROVE OwnedChange(v)'
    <3>1. \A x \in Worker : Registers(v, x) => Registers(v, x)'
      BY <1>1, <1>2, <1>3 DEF Registers
    <3>2. /\ Restored(v.fd, Elements(updates)) => Restored(v.fd, Elements(updates'))
          /\ Restored(v.fd, Elements(applying)) => Restored(v.fd, Elements(applying'))
      BY <1>6 DEF Restored
    <3>3. v.op # "Remove" => \A d \in Conn : v.fd \in owns[d] => v.fd \in owns'[d]
      <4>1. \A o \in owns[c] : \A u \in Pending : u.fd = o => u.op = "Remove"
        BY <1>1, OwnedQuiet
      <4> QED
        BY <4>1
    <3> QED
      BY <1>5, <1>6, <3>1, <3>2, <3>3 DEF IInv, PendingTrue, OwnedChange
  <2> QED
    BY <1>7, <2>1, <2>2, <2>3, <2>4 DEF IInv, PendingTrue
<1>18. StrayThrow \/ SleeperKnown'
  BY <1>2, <1>3, <1>7 DEF IInv, SleeperKnown, WaitPends
<1> QED
  BY <1>2, <1>9, <1>10, <1>11, <1>12, <1>13, <1>14, <1>15, <1>16, <1>17, <1>18
  DEF IInv

(* A handler returns or throws, in a job of whatever descriptor.            *)
LEMMA FinishIInv ==
    ASSUME IInv, NEW w \in Worker, Finish(w) \/ HandlerThrows(w)
    PROVE  IInv'
<1>1. CASE Finish(w)
  <2>1. PICK c \in Conn : /\ Runs(w, c) /\ Ends(w, c)
                          /\ owns[c] = {} /\ leased[c] = None
                          /\ UNCHANGED <<updates, owns, leased, worldVars>>
    BY <1>1 DEF Finish
  <2>2. held[w].co = c /\ c \in Fd
    BY <2>1 DEF Runs, Fd
  <2>3. TypeOK'
    BY <2>1, <2>2 DEF IInv, TypeOK, Ends, Task, dataVars, worldVars
  <2>4. ChangesOrdered'
    BY <2>1, QuietEffect DEF Ends, IInv
  <2> QED
    BY <2>1, <2>2, <2>3, <2>4, EndsIInv
<1>2. CASE HandlerThrows(w)
  <2>1. PICK c \in Conn : /\ Runs(w, c) /\ (StrayThrow \/ held[w].fd = c)
                          /\ Unwinds(c) /\ Ends(w, held[w].fd)
                          /\ UNCHANGED peerClosed
    BY <1>2 DEF HandlerThrows
  <2>2. /\ held[w].co = c /\ c \in Fd /\ at[c] = "running" /\ stage[w] = "running"
        /\ \A v \in Worker : v # w => held[v].co # c
        /\ held[w].fd \in Fd
        /\ held[w].fd \in Conn => held[w].fd = c
    BY <2>1, InsideAlone DEF Runs, Fd, IInv, HeldTrue, Job
  <2>3. \A o \in owns[c] : \A u \in Pending : u.fd = o => u.op = "Remove"
    BY <2>2, OwnedQuiet
  <2>4. applying' = applying
    BY <2>1 DEF Ends
  <2>5. /\ updates' \in Seq(Update) /\ ChangesOrdered'
        /\ Elements(updates) \subseteq Elements(updates')
        /\ \A u \in Elements(updates') :
               u \in Elements(updates) \/ (u.op = "Remove" /\ u.fd \in owns[c])
    BY <2>1, <2>3, <2>4, UnwindEffect DEF IInv, ChangesOrdered
  <2>6. TypeOK'
    <3>1. task'[w] \in Task /\ task' \in [Worker -> Task \union {None}]
      BY <2>1, <2>2 DEF IInv, TypeOK, Ends, Task
    <3> QED
      BY <2>1, <2>2, <2>5, <3>1, UnwindType DEF IInv, TypeOK, Ends, dataVars
  <2> QED
    <3>1. /\ \A d \in Conn : owns'[d] = IF d = c THEN {} ELSE owns[d]
          /\ \A d \in Conn : leased'[d] = IF d = c THEN None ELSE leased[d]
      BY <2>1, UnwindType
    <3> QED
      BY <2>1, <2>2, <2>5, <2>6, <3>1, EndsIInv
<1> QED
  BY <1>1, <1>2

(* An event fires for a coroutine: what it waited for no longer wakes it,   *)
(* the job does.                                                            *)
LEMMA AddJobIInv ==
    ASSUME IInv, NEW c \in Conn, NEW f \in armed, AsleepOn(c, f),
           kind[c] = "stream", addJob(c, f),
           UNCHANGED <<kind, link, updates, applying, workerVars, coVars, worldVars>>,
           armed' \subseteq armed, armed \ {f} \subseteq armed',
           f \notin Shared => f \notin armed' /\ waiting' = waiting,
           waiting' \in [Shared -> Seq(Conn)],
           \A s \in Shared : Once(waiting'[s]),
           \A s \in Shared : s # f => waiting'[s] = waiting[s],
           f \in Shared => /\ kind[f] = "shared"
                           /\ Elements(waiting[f]) = Elements(waiting'[f]) \union {c}
                           /\ c \notin Elements(waiting'[f])
                           /\ Elements(waiting'[f]) # {} => f \in armed',
           \A u \in Pending : u.fd = f => f \in Shared \/ u.op # "Restore"
    PROVE  IInv'
<1> USE DEF workerVars, coVars, worldVars
<1>1. at[c] = "asleep" /\ awaits[c] = f /\ HandsOff(c) /\ f \in Fd
  BY DEF AsleepOn, IInv, TypeOK
<1>2. PICK j \in Job : j.co = c /\ j.fd = f /\ jobs' = Append(jobs, j)
  BY <1>1 DEF addJob, Job
<1>3. /\ jobs' \in Seq(Job) /\ OneJob(jobs')
      /\ Elements(jobs') = Elements(jobs) \union {j}
  BY <1>1, <1>2, AppendElements, AppendOneJob DEF IInv, TypeOK, HandsOff
<1>4. \A d \in Conn : d # c => (HandsOff(d) <=> HandsOff(d)')
  BY <1>2, <1>3 DEF HandsOff
<1>5. \A d \in Conn : \A g : AsleepOn(d, g) /\ d # c => AsleepOn(d, g)'
  BY <1>4 DEF AsleepOn
<1>6. Pending' = Pending /\ ChangesOrdered'
      /\ Elements(updates') = Elements(updates)
      /\ Elements(applying') = Elements(applying)
  BY QuietEffect DEF IInv
<1>7. \A g : AsleepOn(c, g) => g = f
  BY <1>1 DEF AsleepOn
<1>8. f \in Conn => f = c
  BY <1>1, FdAssumption DEF IInv, OwnedTrue, EntryOfOwner, TypeOK, FdAssumption
<1>9. f \in Owned => f \in owns[c]
  BY <1>1, FdAssumption DEF IInv, OwnedTrue, EntryOfOwner, FdAssumption
<1>10. \A u \in Pending : u.fd # c
  <2>1. CASE f = c
    BY <2>1 DEF IInv, ArmedTrue
  <2>2. CASE f # c
    BY <1>1, <1>7, <2>2 DEF IInv, PendingTrue, StreamChange
  <2> QED
    BY <2>1, <2>2
<1>11. TypeOK'
  BY <1>3 DEF IInv, TypeOK
<1>12. KindTrue' /\ OneHolder'
  BY DEF IInv, KindTrue, OneHolder
<1>13. \A v \in Worker : HeldTrue(v)'
  BY DEF IInv, HeldTrue
<1>14. JobsTrue'
  <2>1. \A v \in Worker : held[v].co # c
    BY <1>1 DEF HandsOff
  <2> QED
    BY <1>1, <1>2, <1>3, <2>1 DEF IInv, JobsTrue
<1>15. ArmedTrue'
  <2>1. ASSUME NEW d \in armed' \intersect Conn
        PROVE  kind[d] = "stream" /\ AsleepOn(d, d)' /\ \A u \in Pending : u.fd # d
    <3>1. d \in armed /\ AsleepOn(d, d)
      BY DEF IInv, ArmedTrue
    <3>2. d # c
      BY <1>7, <3>1, FdAssumption DEF FdAssumption
    <3> QED
      BY <1>5, <3>1, <3>2 DEF IInv, ArmedTrue
  <2>2. ASSUME NEW o \in armed' \intersect Owned
        PROVE  /\ kind[o] = "owned"
               /\ link[o] \in Conn /\ kind[link[o]] = "stream" /\ AsleepOn(link[o], o)'
               /\ \A u \in Pending : u.fd = o => u.op # "CreateOwned"
               /\ \A u \in Elements(updates) : u.fd = o => u.op # "Restore"
    <3>1. o \in armed /\ link[o] \in Conn /\ AsleepOn(link[o], o)
      BY DEF IInv, ArmedTrue
    <3>2. link[o] # c
      BY <1>7, <3>1, FdAssumption DEF FdAssumption
    <3>3. AsleepOn(link[o], o)'
      <4>1. PICK d \in Conn : d = link[o]
        BY <3>1
      <4>2. AsleepOn(d, o)'
        BY <1>5, <3>1, <3>2, <4>1
      <4> QED
        BY <4>1, <4>2 DEF AsleepOn, HandsOff
    <3> QED
      BY <3>1, <3>3 DEF IInv, ArmedTrue
  <2> QED
    BY <1>6, <2>1, <2>2 DEF ArmedTrue, AsleepOn, HandsOff
<1>16. WaitingTrue'
  <2>1. ASSUME NEW s \in Shared, NEW d \in Elements(waiting'[s])
        PROVE  kind[d] = "stream" /\ AsleepOn(d, s)'
    <3>1. d \in Elements(waiting[s])
      BY <2>1
    <3>2. d \in Conn /\ AsleepOn(d, s) /\ kind[d] = "stream"
      BY <3>1, MembersTyped DEF IInv, WaitingTrue
    <3>3. d # c
      BY <1>7, <3>2
    <3> QED
      BY <1>5, <3>2, <3>3
  <2>2. \A s \in Shared : waiting'[s] # <<>> => kind[s] = "shared"
    BY DEF IInv, WaitingTrue
  <2> QED
    BY <2>1, <2>2 DEF WaitingTrue
<1>17. OwnedTrue'
  BY <1>6 DEF IInv, OwnedTrue, EntryOfOwner
<1>18. ConnTrue' /\ PoolsMade'
  <2>1. \A d \in Conn : HandsOff(d)' => HandsOff(d)
    BY <1>3 DEF HandsOff
  <2> QED
    BY <1>6, <2>1 DEF IInv, ConnTrue, PoolsMade
<1>19. PendingTrue'
  <2>1. ASSUME NEW u \in Pending PROVE StreamChange(u)'
    BY <1>4, <1>5, <1>10 DEF IInv, PendingTrue, StreamChange
  <2>2. ASSUME NEW u \in Pending PROVE OwnedChange(u)'
    <3>1. ASSUME NEW d \in Conn, u.fd \in owns[d], AsleepOn(d, u.fd), u.op = "Restore",
                 u.fd \in Owned
          PROVE  AsleepOn(d, u.fd)'
      BY <1>5, <1>7, <3>1, FdAssumption DEF FdAssumption
    <3> QED
      BY <1>6, <3>1 DEF IInv, PendingTrue, OwnedChange, Restored, Registers
  <2>3. ASSUME NEW u \in Pending PROVE SharedChange(u)'
    <3>1. ASSUME u.fd \in Shared, u.op = "Restore", u.owner \in Conn
          PROVE  /\ kind[u.owner] = "stream" /\ AsleepOn(u.owner, u.fd)'
                 /\ u.owner \notin Elements(waiting'[u.fd])
      <4>1. /\ kind[u.owner] = "stream" /\ AsleepOn(u.owner, u.fd)
            /\ u.owner \notin Elements(waiting[u.fd])
        BY <3>1 DEF IInv, PendingTrue, SharedChange
      <4>2. u.owner # c
        BY <1>7, <3>1, <4>1
      <4>3. u.owner \notin Elements(waiting'[u.fd])
        BY <3>1, <4>1
      <4> QED
        BY <1>5, <3>1, <4>1, <4>2, <4>3
    <3> QED
      BY <1>6, <3>1 DEF IInv, PendingTrue, SharedChange
  <2> QED
    BY <1>6, <2>1, <2>2, <2>3 DEF IInv, PendingTrue
<1>20. StrayThrow \/ SleeperKnown'
  <2> SUFFICES ASSUME ~StrayThrow PROVE SleeperKnown'
    OBVIOUS
  <2>1. ASSUME NEW d \in Conn, d # c, WaitPends(d), at[d] = "asleep"
        PROVE  WaitPends(d)'
    <3>1. CASE /\ awaits[d] \in armed
               /\ \/ awaits[d] = d
                  \/ awaits[d] \in Owned /\ link[awaits[d]] = d
                  \/ awaits[d] \in Shared /\ d \in Elements(waiting[awaits[d]])
      <4>1. awaits[d] = d => awaits[d] # f
        BY <1>8, <2>1
      <4>2. awaits[d] \in Owned /\ link[awaits[d]] = d => awaits[d] # f
        BY <1>7, <2>1, <3>1, <1>9, FdAssumption
        DEF IInv, OwnedTrue, EntryOfOwner, FdAssumption
      <4>3. awaits[d] \in Shared /\ d \in Elements(waiting[awaits[d]]) =>
                awaits[d] \in armed' /\ d \in Elements(waiting'[awaits[d]])
        BY <2>1, <3>1
      <4> QED
        BY <3>1, <4>1, <4>2, <4>3 DEF WaitPends
    <3>2. CASE \E x \in Elements(jobs) : x.co = d
      BY <1>3, <3>2 DEF WaitPends
    <3> QED
      BY <1>6, <2>1, <3>1, <3>2 DEF WaitPends
  <2>2. WaitPends(c)'
    BY <1>2, <1>3 DEF WaitPends
  <2> QED
    BY <2>1, <2>2 DEF IInv, SleeperKnown
<1> QED
  BY <1>3, <1>6, <1>11, <1>12, <1>13, <1>14, <1>15, <1>16, <1>17, <1>18, <1>19,
     <1>20 DEF IInv

(* The event of an owned or of a shared descriptor.                         *)
LEMMA EventsIInv ==
    ASSUME IInv,
           \/ \E o \in Owned : handleLinkStreamEvent(o)
           \/ \E s \in Shared : handlePipeStreamEvent(s)
    PROVE  IInv'
<1> USE DEF workerVars, coVars, worldVars
<1>1. waiting \in [Shared -> Seq(Conn)] /\ \A s \in Shared : Once(waiting[s])
  BY DEF IInv, TypeOK
<1>2. ASSUME NEW o \in Owned, handleLinkStreamEvent(o) PROVE IInv'
  <2>1. /\ applying = <<>> /\ o \in armed
        /\ armed' = armed \ {o} /\ addJob(link[o], o)
        /\ UNCHANGED <<waiting, updates>>
        /\ UNCHANGED <<kind, link, applying, workerVars, coVars, worldVars>>
    BY <1>2 DEF handleLinkStreamEvent, Fires
  <2>2. /\ link[o] \in Conn /\ kind[link[o]] = "stream" /\ AsleepOn(link[o], o)
        /\ \A u \in Elements(updates) : u.fd = o => u.op # "Restore"
    BY <2>1 DEF IInv, ArmedTrue
  <2>3. \A u \in Pending : u.fd = o => u.op # "Restore"
    BY <2>1, <2>2, NoElements DEF Pending
  <2>4. o \notin Shared
    BY FdAssumption DEF FdAssumption
  <2> QED
    BY <1>1, <2>1, <2>2, <2>3, <2>4, AddJobIInv
<1>3. ASSUME NEW s \in Shared, handlePipeStreamEvent(s) PROVE IInv'
  <2>1. /\ applying = <<>> /\ s \in armed /\ kind[s] = "shared"
        /\ armed' = IF Len(waiting[s]) > 1 THEN armed ELSE armed \ {s}
        /\ IF waiting[s] = <<>> THEN UNCHANGED <<waiting, jobs>>
           ELSE /\ addJob(Head(waiting[s]), s)
                /\ waiting' = [waiting EXCEPT ![s] = Tail(@)]
        /\ updates' = updates
        /\ UNCHANGED <<kind, link, applying, workerVars, coVars, worldVars>>
    BY <1>3 DEF handlePipeStreamEvent, Fires
  <2>2. CASE waiting[s] # <<>>
    <3>1. PICK c : c = Head(waiting[s])
      OBVIOUS
    <3>2. waiting[s] \in Seq(Conn) /\ Once(waiting[s])
      BY <1>1
    <3>3. /\ c \in Conn /\ Tail(waiting[s]) \in Seq(Conn)
          /\ Elements(waiting[s]) = Elements(Tail(waiting[s])) \union {c}
          /\ Once(Tail(waiting[s])) /\ c \notin Elements(Tail(waiting[s]))
      BY <2>2, <3>1, <3>2, TailElements, TailOnce
    <3>4. waiting' = [waiting EXCEPT ![s] = Tail(waiting[s])]
      BY <2>1, <2>2
    <3>5. \A r \in Shared : waiting'[r] = IF r = s THEN Tail(waiting[s]) ELSE waiting[r]
      BY <1>1, <3>4
    <3>6. /\ waiting' \in [Shared -> Seq(Conn)] /\ \A r \in Shared : Once(waiting'[r])
          /\ Elements(waiting[s]) = Elements(waiting'[s]) \union {c}
          /\ c \notin Elements(waiting'[s])
      BY <1>1, <3>3, <3>4, <3>5
    <3>7. Elements(waiting'[s]) # {} => s \in armed'
      <4>1. Tail(waiting[s]) # <<>> => Len(waiting[s]) > 1
        BY <2>2, <3>2
      <4> QED
        BY <2>1, <3>5, <4>1, NoElements
    <3>8. kind[c] = "stream" /\ AsleepOn(c, s)
      BY <3>3 DEF IInv, WaitingTrue
    <3>9. armed' \subseteq armed /\ armed \ {s} \subseteq armed'
      BY <2>1
    <3>10. addJob(c, s)
      BY <2>1, <2>2, <3>1
    <3> QED
      BY <2>1, <3>3, <3>5, <3>6, <3>7, <3>8, <3>9, <3>10, AddJobIInv
  \* nobody is listed: the event is not added again, which nobody waits for
  <2>3. CASE waiting[s] = <<>>
    <3>1. armed' = armed \ {s} /\ UNCHANGED <<waiting, jobs>>
      BY <2>1, <2>3
    <3>2. Elements(waiting[s]) = {} /\ s \notin Conn /\ s \notin Owned
      BY <2>3, NoElements, FdAssumption DEF FdAssumption
    <3>3. Pending' = Pending /\ ChangesOrdered'
          /\ Elements(updates') = Elements(updates)
          /\ Elements(applying') = Elements(applying)
      BY <2>1, QuietEffect DEF IInv
    <3>4. \A c : HandsOff(c) <=> HandsOff(c)'
      BY <2>1, <3>1 DEF HandsOff
    <3>5. \A c, f : AsleepOn(c, f) <=> AsleepOn(c, f)'
      BY <2>1, <3>4 DEF AsleepOn
    <3>6. TypeOK' /\ KindTrue' /\ OneHolder' /\ JobsTrue'
      BY <2>1, <3>1 DEF IInv, TypeOK, KindTrue, OneHolder, JobsTrue
    <3>7. \A w \in Worker : HeldTrue(w)'
      BY <2>1 DEF IInv, HeldTrue
    <3>8. ArmedTrue' /\ WaitingTrue'
      BY <2>1, <3>1, <3>2, <3>3, <3>5 DEF IInv, ArmedTrue, WaitingTrue
    <3>9. OwnedTrue' /\ ConnTrue' /\ PoolsMade'
      BY <2>1, <3>3, <3>4 DEF IInv, OwnedTrue, EntryOfOwner, ConnTrue, PoolsMade
    <3>10. PendingTrue'
      BY <2>1, <3>1, <3>3, <3>4, <3>5
      DEF IInv, PendingTrue, StreamChange, OwnedChange, SharedChange, Registers, Restored
    <3>11. StrayThrow \/ SleeperKnown'
      BY <2>1, <3>1, <3>2, <3>3 DEF IInv, SleeperKnown, WaitPends
    <3> QED
      BY <2>1, <3>1, <3>3, <3>6, <3>7, <3>8, <3>9, <3>10, <3>11 DEF IInv
  <2> QED
    BY <2>2, <2>3
<1> QED
  BY <1>2, <1>3

(* The event of a connection: a job, or the wish to be rid of it.           *)
LEMMA StreamEventIInv ==
    ASSUME IInv, NEW c \in Conn, handleStreamEvent(c) PROVE IInv'
<1> USE DEF workerVars, coVars, worldVars
<1>1. /\ applying = <<>> /\ c \in armed /\ armed' = armed \ {c}
      /\ UNCHANGED waiting
      /\ UNCHANGED <<kind, link, applying, workerVars, coVars, worldVars>>
      /\ IF c \in ready THEN addJob(c, c) /\ UNCHANGED updates
         ELSE requestChange("ExternallyClosed", c, None) /\ UNCHANGED jobs
  BY DEF handleStreamEvent, Fires
<1>2. /\ kind[c] = "stream" /\ AsleepOn(c, c) /\ \A u \in Pending : u.fd # c
      /\ c \in Fd /\ c \notin Shared /\ c \notin Owned
  BY <1>1, FdAssumption DEF IInv, ArmedTrue, FdAssumption, Fd
<1>3. CASE c \in ready
  <2>1. waiting \in [Shared -> Seq(Conn)] /\ \A s \in Shared : Once(waiting[s])
    BY DEF IInv, TypeOK
  <2> QED
    BY <1>1, <1>2, <1>3, <2>1, AddJobIInv
<1>4. CASE c \notin ready
  <2>1. PICK u \in Update : /\ updates' = Append(updates, u)
                            /\ u.op = "ExternallyClosed" /\ u.fd = c
    <3>1. Requested("ExternallyClosed", c, None) \in Update
      BY <1>2 DEF Requested, Update
    <3> QED
      BY <1>1, <1>4, <3>1 DEF requestChange, Requested
  <2>2. UNCHANGED jobs
    BY <1>1, <1>4
  <2>3. /\ updates' \in Seq(Update) /\ ChangesOrdered'
        /\ Elements(updates') = Elements(updates) \union {u}
        /\ Elements(applying') = Elements(applying)
        /\ Pending' = Pending \union {u}
    BY <1>1, <1>2, <2>1, RequestEffect DEF IInv, Before
  <2>4. \A d : HandsOff(d) <=> HandsOff(d)'
    BY <1>1, <2>2 DEF HandsOff
  <2>5. \A d, f : AsleepOn(d, f) <=> AsleepOn(d, f)'
    BY <1>1, <2>4 DEF AsleepOn
  <2>6. TypeOK'
    BY <1>1, <2>2, <2>3 DEF IInv, TypeOK
  <2>7. KindTrue' /\ OneHolder' /\ JobsTrue'
    BY <1>1, <2>2 DEF IInv, KindTrue, OneHolder, JobsTrue
  <2>8. \A w \in Worker : HeldTrue(w)'
    BY <1>1 DEF IInv, HeldTrue
  <2>9. ArmedTrue' /\ WaitingTrue'
    BY <1>1, <1>2, <2>1, <2>3, <2>5 DEF IInv, ArmedTrue, WaitingTrue
  <2>10. OwnedTrue'
    BY <1>1, <1>2, <2>1, <2>3 DEF IInv, OwnedTrue, EntryOfOwner, TypeOK
  <2>11. ConnTrue' /\ PoolsMade'
    BY <1>1, <2>3, <2>4 DEF IInv, ConnTrue, PoolsMade
  <2>12. PendingTrue'
    <3>1. StreamChange(u)' /\ OwnedChange(u)' /\ SharedChange(u)'
      BY <1>1, <1>2, <2>1, <2>5 DEF StreamChange, OwnedChange, SharedChange
    <3>2. ASSUME NEW v \in Pending PROVE StreamChange(v)' /\ SharedChange(v)'
      BY <1>1, <2>3, <2>4, <2>5 DEF IInv, PendingTrue, StreamChange, SharedChange
    <3>3. ASSUME NEW v \in Pending PROVE OwnedChange(v)'
      BY <1>1, <2>3, <2>5 DEF IInv, PendingTrue, OwnedChange, Restored, Registers
    <3> QED
      BY <2>1, <2>3, <3>1, <3>2, <3>3 DEF IInv, PendingTrue
  <2>13. StrayThrow \/ SleeperKnown'
    <3> SUFFICES ASSUME ~StrayThrow PROVE SleeperKnown'
      OBVIOUS
    <3>1. ASSUME NEW d \in Conn, d # c, WaitPends(d), at[d] = "asleep"
          PROVE  WaitPends(d)'
      <4>1. awaits[d] # c
        BY <1>2, <3>1 DEF IInv, OwnedTrue, EntryOfOwner, TypeOK
      <4> QED
        BY <1>1, <2>2, <2>3, <3>1, <4>1 DEF WaitPends
    <3>2. WaitPends(c)'
      <4>1. u \in Pending' /\ u.fd = awaits'[c]
        BY <1>1, <1>2, <2>1, <2>3 DEF AsleepOn
      <4> QED
        BY <2>1, <4>1 DEF WaitPends
    <3> QED
      BY <1>1, <3>1, <3>2 DEF IInv, SleeperKnown
  <2> QED
    BY <1>1, <2>2, <2>3, <2>6, <2>7, <2>8, <2>9, <2>10, <2>11, <2>12, <2>13
    DEF IInv
<1> QED
  BY <1>3, <1>4

(* The control timer takes the batch: no wait it will restore is missing.   *)
LEMMA TickIInv == ASSUME IInv, PromptYield = TRUE, Tick PROVE IInv'
<1>1. /\ applying = <<>> /\ applying' = updates /\ updates' = <<>>
      /\ \A w \in Worker : stage[w] \notin {"registering", "registered"}
      /\ UNCHANGED <<kind, link, waiting, armed, jobs, held, stage, task, at, awaits,
                     owns, leased, strayed, ready, pool, peerClosed>>
  BY DEF Tick, MayTick, dataVars, workerVars, coVars, worldVars
<1>2. /\ Elements(applying') = Elements(updates) /\ Elements(updates') = {}
      /\ Elements(applying) = {}
      /\ Pending' = Pending /\ Pending = Elements(updates)
  BY <1>1, NoElements DEF Pending
<1>3. ChangesOrdered'
  BY <1>1, <1>2 DEF IInv, ChangesOrdered, InOrder
<1>4. \A d : HandsOff(d) <=> HandsOff(d)'
  BY <1>1 DEF HandsOff
<1>5. \A d, f : AsleepOn(d, f) <=> AsleepOn(d, f)'
  BY <1>1, <1>4 DEF AsleepOn
<1>6. TypeOK'
  BY <1>1 DEF IInv, TypeOK
<1>7. KindTrue' /\ OneHolder' /\ JobsTrue'
  BY <1>1 DEF IInv, KindTrue, OneHolder, JobsTrue
<1>8. \A w \in Worker : HeldTrue(w)'
  BY <1>1 DEF IInv, HeldTrue
<1>9. ArmedTrue' /\ WaitingTrue'
  BY <1>1, <1>2, <1>5 DEF IInv, ArmedTrue, WaitingTrue
<1>10. OwnedTrue' /\ ConnTrue' /\ PoolsMade'
  BY <1>1, <1>2, <1>4 DEF IInv, OwnedTrue, EntryOfOwner, ConnTrue, PoolsMade
<1>11. PendingTrue'
  <2>1. ASSUME NEW u \in Pending PROVE StreamChange(u)' /\ SharedChange(u)'
    BY <1>1, <1>2, <1>4, <1>5 DEF IInv, PendingTrue, StreamChange, SharedChange
  <2>2. ASSUME NEW u \in Pending PROVE OwnedChange(u)'
    <3>1. \A w \in Worker : ~Registers(u, w)
      BY <1>1 DEF Registers
    <3>2. ~Restored(u.fd, Elements(applying))
      BY <1>2 DEF Restored
    <3>3. Restored(u.fd, Elements(updates)) => Restored(u.fd, Elements(applying'))
      BY <1>2
    <3> QED
      BY <1>1, <1>5, <3>1, <3>2, <3>3 DEF IInv, PendingTrue, OwnedChange
  <2> QED
    BY <1>2, <2>1, <2>2 DEF IInv, PendingTrue
<1>12. StrayThrow \/ SleeperKnown'
  BY <1>1, <1>2 DEF IInv, SleeperKnown, WaitPends
<1> QED
  BY <1>1, <1>3, <1>6, <1>7, <1>8, <1>9, <1>10, <1>11, <1>12 DEF IInv

-----------------------------------------------------------------------------
(* The changes the control timer applies, one at a time.                    *)

(* An entry is made for an accepted connection, and its event is added.     *)
LEMMA CreateStreamIInv == ASSUME IInv, ApplyCreateStream PROVE IInv'
<1>1. PICK h : h = Head(applying)
  OBVIOUS
<1>2. /\ applying # <<>> /\ h.op = "CreateStream" /\ applying' = Tail(applying)
      /\ kind' = [kind EXCEPT ![h.fd] = "stream"] /\ armed' = armed \union {h.fd}
      /\ UNCHANGED <<link, waiting, updates, jobs, held, stage, task, at, awaits,
                     owns, leased, strayed, ready, pool, peerClosed>>
  BY <1>1 DEF ApplyCreateStream, Applies, workerVars, coVars, worldVars
<1>3. /\ h \in Update /\ applying' \in Seq(Update) /\ ChangesOrdered'
      /\ Elements(applying) = Elements(applying') \union {h}
      /\ Elements(updates') = Elements(updates)
      /\ Pending = Pending' \union {h}
      /\ \A v \in Pending' : Before(h, v)
  BY <1>1, <1>2, ApplyEffect DEF IInv, Pending
<1>4. h \in Pending /\ h.fd \in Conn /\ h.fd \in Fd
  BY <1>2, <1>3, FdAssumption
  DEF IInv, PendingTrue, OwnedChange, SharedChange, Update, Fd
<1>5. PICK c \in Conn : c = h.fd
  BY <1>4
<1>6. /\ kind[c] = "none" /\ AsleepOn(c, c)
      /\ c \notin Owned /\ c \notin Shared /\ c \in Fd
      /\ \A v \in Pending' : v.fd # c
  BY <1>2, <1>3, <1>4, <1>5, FdAssumption
  DEF IInv, PendingTrue, StreamChange, Before, FdAssumption
<1>7. \A f \in Fd : kind'[f] = IF f = c THEN "stream" ELSE kind[f]
  BY <1>2, <1>5 DEF IInv, TypeOK
<1>8. \A d : HandsOff(d) <=> HandsOff(d)'
  BY <1>2 DEF HandsOff
<1>9. \A d, f : AsleepOn(d, f) <=> AsleepOn(d, f)'
  BY <1>2, <1>8 DEF AsleepOn
<1>10. Conn \subseteq Fd /\ Owned \subseteq Fd /\ Shared \subseteq Fd
  BY DEF Fd
<1>11. TypeOK'
  BY <1>2, <1>3, <1>4 DEF IInv, TypeOK
<1>12. KindTrue' /\ OneHolder'
  BY <1>2, <1>7 DEF IInv, KindTrue, OneHolder
<1>13. JobsTrue'
  BY <1>2, <1>7, <1>10, MembersTyped DEF IInv, JobsTrue, Job
<1>14. \A w \in Worker : HeldTrue(w)'
  BY <1>2, <1>7, <1>10 DEF IInv, HeldTrue, Job
<1>15. ArmedTrue'
  <2>1. ASSUME NEW d \in armed' \intersect Conn
        PROVE  kind'[d] = "stream" /\ AsleepOn(d, d) /\ \A u \in Pending' : u.fd # d
    <3>1. CASE d = c
      BY <1>6, <1>7, <3>1
    <3>2. CASE d # c
      BY <1>2, <1>3, <1>5, <1>7, <1>10, <3>2 DEF IInv, ArmedTrue
    <3> QED
      BY <3>1, <3>2
  <2>2. ASSUME NEW o \in armed' \intersect Owned
        PROVE  /\ kind'[o] = "owned"
               /\ link[o] \in Conn /\ kind'[link[o]] = "stream" /\ AsleepOn(link[o], o)
               /\ \A u \in Pending' : u.fd = o => u.op # "CreateOwned"
               /\ \A u \in Elements(updates) : u.fd = o => u.op # "Restore"
    <3>1. o \in armed /\ o # c
      BY <1>2, <1>5, <1>6
    <3> QED
      BY <1>3, <1>7, <1>10, <3>1 DEF IInv, ArmedTrue
  <2> QED
    BY <1>2, <1>9, <2>1, <2>2 DEF ArmedTrue
<1>16. WaitingTrue' /\ \A s \in Shared : Once(waiting'[s])
  BY <1>2, <1>6, <1>7, <1>9, <1>10, MembersTyped DEF IInv, WaitingTrue
<1>17. OwnedTrue'
  BY <1>2, <1>3, <1>6, <1>7, <1>10 DEF IInv, OwnedTrue, EntryOfOwner, TypeOK
<1>18. ConnTrue'
  BY <1>2, <1>3, <1>6, <1>7, <1>8, <1>10 DEF IInv, ConnTrue, AsleepOn
<1>19. PoolsMade'
  BY <1>2, <1>3, <1>6, <1>7, <1>10 DEF IInv, PoolsMade
<1>20. PendingTrue'
  <2>1. ASSUME NEW u \in Pending' PROVE StreamChange(u)'
    BY <1>3, <1>6, <1>7, <1>8, <1>9, <1>10, <1>2 DEF IInv, PendingTrue, StreamChange
  <2>2. ASSUME NEW u \in Pending' PROVE OwnedChange(u)'
    <3>1. Restored(u.fd, Elements(applying)) => Restored(u.fd, Elements(applying'))
      BY <1>2, <1>3 DEF Restored
    <3> QED
      BY <1>2, <1>3, <1>9, <3>1 DEF IInv, PendingTrue, OwnedChange, Registers
  <2>3. ASSUME NEW u \in Pending' PROVE SharedChange(u)'
    <3>1. \A v \in Pending : v.op = "CreateShared" => v \in Pending'
      BY <1>2, <1>3
    <3> QED
      BY <1>2, <1>3, <1>6, <1>7, <1>9, <1>10, <3>1 DEF IInv, PendingTrue, SharedChange
  <2> QED
    BY <1>3, <2>1, <2>2, <2>3 DEF IInv, PendingTrue
<1>21. StrayThrow \/ SleeperKnown'
  <2> SUFFICES ASSUME ~StrayThrow PROVE SleeperKnown'
    OBVIOUS
  <2>1. ASSUME NEW d \in Conn, d # c, WaitPends(d), at[d] = "asleep"
        PROVE  WaitPends(d)'
    <3>1. awaits[d] # c
      BY <1>6, <2>1 DEF IInv, OwnedTrue, EntryOfOwner, TypeOK
    <3> QED
      BY <1>2, <1>3, <1>5, <2>1, <3>1 DEF WaitPends
  <2>2. WaitPends(c)'
    BY <1>2, <1>5, <1>6 DEF WaitPends, AsleepOn
  <2> QED
    BY <1>2, <2>1, <2>2 DEF IInv, SleeperKnown
<1> QED
  BY <1>2, <1>3, <1>11, <1>12, <1>13, <1>14, <1>15, <1>16, <1>17, <1>18, <1>19,
     <1>20, <1>21 DEF IInv

(* An entry is made for an owned descriptor; its restore is still to come.  *)
LEMMA CreateOwnedIInv == ASSUME IInv, ApplyCreateOwned PROVE IInv'
<1>1. PICK h : h = Head(applying)
  OBVIOUS
<1>2. /\ applying # <<>> /\ h.op = "CreateOwned" /\ applying' = Tail(applying)
      /\ UNCHANGED <<updates, jobs, held, stage, task, at, awaits,
                     owns, leased, strayed, ready, pool, peerClosed>>
  BY <1>1 DEF ApplyCreateOwned, Applies, workerVars, coVars, worldVars
<1>3. /\ h \in Update /\ applying' \in Seq(Update) /\ ChangesOrdered'
      /\ Elements(applying) = Elements(applying') \union {h}
      /\ Elements(updates') = Elements(updates)
      /\ Pending = Pending' \union {h}
      /\ \A v \in Pending' : Before(h, v)
  BY <1>1, <1>2, ApplyEffect DEF IInv, Pending
<1>4. h \in Pending /\ h.fd \in Owned
  BY <1>2, <1>3 DEF IInv, PendingTrue, StreamChange, SharedChange, Update, Fd
<1>5. PICK o \in Owned : o = h.fd
  BY <1>4
<1>6. h.owner \in Conn /\ o \in owns[h.owner] /\ Restored(o, Elements(applying))
  BY <1>2, <1>3, <1>4, <1>5 DEF IInv, PendingTrue, OwnedChange
<1>7. PICK d \in Conn : d = h.owner
  BY <1>6
<1>8. /\ o \in owns[d] /\ kind[d] = "stream"
      /\ \A e \in Conn : o \in owns[e] => e = d
      /\ o \notin Conn /\ o \notin Shared /\ o \in Fd
  BY <1>6, <1>7, FdAssumption DEF IInv, OwnedTrue, EntryOfOwner, FdAssumption, Fd
<1>9. /\ kind' = [kind EXCEPT ![o] = "owned"] /\ link' = [link EXCEPT ![o] = d]
      /\ armed' = armed \union {o} /\ waiting' = waiting
  BY <1>1, <1>5, <1>7, <1>8 DEF ApplyCreateOwned
<1>10. /\ \A v \in Pending' : v.fd = o => v.op = "Restore" \/ (StrayThrow /\ v.op = "Remove")
       /\ \E v \in Elements(applying') : v.op = "Restore" /\ v.fd = o
  <2>1. \A v \in Pending' :
            v.fd = o => v.op = "Restore" \/ (StrayThrow /\ v.op = "Remove")
    BY <1>2, <1>3, <1>5 DEF Before
  <2> QED
    BY <1>2, <1>3, <1>6, <2>1 DEF Restored
<1>11. AsleepOn(d, o) /\ \A v \in Elements(updates) : v.fd = o => v.op # "Restore"
  <2>1. PICK v \in Elements(applying') : v.op = "Restore" /\ v.fd = o
    BY <1>10
  <2>2. v \in Pending
    BY <1>3 DEF Pending
  <2>3. AsleepOn(d, o)
    BY <1>8, <2>1, <2>2 DEF IInv, PendingTrue, OwnedChange
  <2>4. \A x \in Elements(updates) : Before(v, x)
    BY <1>3, <2>1 DEF IInv, ChangesOrdered
  <2> QED
    BY <1>8, <2>1, <2>3, <2>4 DEF Before
<1>12. /\ \A f \in Fd : kind'[f] = IF f = o THEN "owned" ELSE kind[f]
       /\ \A p \in Owned : link'[p] = IF p = o THEN d ELSE link[p]
  BY <1>9 DEF IInv, TypeOK
<1>13. \A e : HandsOff(e) <=> HandsOff(e)'
  BY <1>2 DEF HandsOff
<1>14. \A e, f : AsleepOn(e, f) <=> AsleepOn(e, f)'
  BY <1>2, <1>13 DEF AsleepOn
<1>15. /\ Conn \subseteq Fd /\ Owned \subseteq Fd /\ Shared \subseteq Fd
       /\ \A c \in Conn : kind'[c] = kind[c]
       /\ \A s \in Shared : kind'[s] = kind[s]
  BY <1>8, <1>12 DEF Fd
<1>16. TypeOK'
  BY <1>2, <1>3, <1>8, <1>9 DEF IInv, TypeOK
<1>17. KindTrue' /\ OneHolder'
  BY <1>2, <1>12 DEF IInv, KindTrue, OneHolder
<1>18. JobsTrue'
  BY <1>2, <1>15, MembersTyped DEF IInv, JobsTrue, Job
<1>19. \A w \in Worker : HeldTrue(w)'
  BY <1>2, <1>15 DEF IInv, HeldTrue, Job
<1>20. ArmedTrue'
  <2>1. ASSUME NEW c \in armed' \intersect Conn
        PROVE  kind'[c] = "stream" /\ AsleepOn(c, c) /\ \A u \in Pending' : u.fd # c
    BY <1>3, <1>8, <1>9, <1>15 DEF IInv, ArmedTrue
  <2>2. ASSUME NEW p \in armed' \intersect Owned
        PROVE  /\ kind'[p] = "owned"
               /\ link'[p] \in Conn /\ kind'[link'[p]] = "stream" /\ AsleepOn(link'[p], p)
               /\ \A u \in Pending' : u.fd = p => u.op # "CreateOwned"
               /\ \A u \in Elements(updates) : u.fd = p => u.op # "Restore"
    <3>1. CASE p = o
      BY <1>8, <1>10, <1>11, <1>12, <1>15, <3>1
    <3>2. CASE p # o
      BY <1>3, <1>9, <1>12, <1>15, <3>2 DEF IInv, ArmedTrue
    <3> QED
      BY <3>1, <3>2
  <2> QED
    BY <1>2, <1>14, <2>1, <2>2 DEF ArmedTrue
<1>21. WaitingTrue' /\ \A s \in Shared : Once(waiting'[s])
  BY <1>9, <1>14, <1>15, MembersTyped DEF IInv, WaitingTrue
<1>22. OwnedTrue'
  <2>1. /\ \A c, e \in Conn : \A p \in owns'[c] : p \in owns'[e] => c = e
        /\ \A c \in Conn : owns'[c] # {} =>
                kind'[c] = "stream" /\ at'[c] \in {"running", "asleep"}
        /\ \A c \in Conn : at'[c] = "asleep" /\ awaits'[c] \notin Shared =>
                awaits'[c] = c \/ awaits'[c] \in owns'[c]
    BY <1>2, <1>15 DEF IInv, OwnedTrue, EntryOfOwner
  <2>2. ASSUME NEW c \in Conn, NEW p \in owns'[c]
        PROVE  EntryOfOwner(p, c)'
    <3>1. CASE p = o
      BY <1>2, <1>8, <1>10, <1>12, <3>1 DEF EntryOfOwner
    <3>2. CASE p # o
      <4>1. p \in owns[c] /\ p \in Owned /\ p \in Fd
        BY <1>2, <1>15 DEF IInv, TypeOK
      <4> QED
        BY <1>3, <1>5, <1>12, <3>2, <4>1 DEF IInv, OwnedTrue, EntryOfOwner
    <3> QED
      BY <3>1, <3>2
  <2> QED
    BY <2>1, <2>2 DEF OwnedTrue, EntryOfOwner
<1>23. ConnTrue'
  BY <1>2, <1>3, <1>13, <1>15 DEF IInv, ConnTrue
<1>24. PoolsMade'
  BY <1>2, <1>3, <1>15 DEF IInv, PoolsMade
<1>25. PendingTrue'
  <2>1. ASSUME NEW u \in Pending' PROVE StreamChange(u)'
    BY <1>2, <1>3, <1>13, <1>14, <1>15 DEF IInv, PendingTrue, StreamChange
  <2>2. ASSUME NEW u \in Pending' PROVE OwnedChange(u)'
    <3>1. Restored(u.fd, Elements(applying)) => Restored(u.fd, Elements(applying'))
      BY <1>2, <1>3 DEF Restored
    <3> QED
      BY <1>2, <1>3, <1>14, <3>1 DEF IInv, PendingTrue, OwnedChange, Registers
  <2>3. ASSUME NEW u \in Pending' PROVE SharedChange(u)'
    <3>1. \A v \in Pending : v.op = "CreateShared" => v \in Pending'
      BY <1>2, <1>3
    <3> QED
      BY <1>3, <1>9, <1>14, <1>15, <3>1 DEF IInv, PendingTrue, SharedChange
  <2> QED
    BY <1>3, <2>1, <2>2, <2>3 DEF IInv, PendingTrue
<1>26. StrayThrow \/ SleeperKnown'
  <2> SUFFICES ASSUME ~StrayThrow PROVE SleeperKnown'
    OBVIOUS
  <2>1. ASSUME NEW c \in Conn, WaitPends(c), at[c] = "asleep"
        PROVE  WaitPends(c)'
    <3>1. awaits[c] = o => c = d
      BY <1>8, <2>1 DEF IInv, OwnedTrue, EntryOfOwner
    <3> QED
      BY <1>2, <1>3, <1>9, <1>12, <2>1, <3>1 DEF WaitPends
  <2> QED
    BY <1>2, <2>1 DEF IInv, SleeperKnown
<1> QED
  BY <1>2, <1>3, <1>9, <1>16, <1>17, <1>18, <1>19, <1>20, <1>21, <1>22, <1>23,
     <1>24, <1>25, <1>26 DEF IInv

(* An entry is made for a pool; nobody is listed yet.                       *)
LEMMA CreateSharedIInv == ASSUME IInv, ApplyCreateShared PROVE IInv'
<1>1. PICK h : h = Head(applying)
  OBVIOUS
<1>2. /\ applying # <<>> /\ h.op = "CreateShared" /\ applying' = Tail(applying)
      /\ kind' = [kind EXCEPT ![h.fd] = "shared"]
      /\ waiting' = [waiting EXCEPT ![h.fd] = <<>>]
      /\ UNCHANGED <<link, armed, updates, jobs, held, stage, task, at, awaits,
                     owns, leased, strayed, ready, pool, peerClosed>>
  BY <1>1 DEF ApplyCreateShared, Applies, workerVars, coVars, worldVars
<1>3. /\ h \in Update /\ applying' \in Seq(Update) /\ ChangesOrdered'
      /\ Elements(applying) = Elements(applying') \union {h}
      /\ Elements(updates') = Elements(updates)
      /\ Pending = Pending' \union {h}
      /\ \A v \in Pending' : Before(h, v)
  BY <1>1, <1>2, ApplyEffect DEF IInv, Pending
<1>4. h \in Pending /\ h.fd \in Shared
  BY <1>2, <1>3 DEF IInv, PendingTrue, StreamChange, OwnedChange, Update, Fd
<1>5. PICK s \in Shared : s = h.fd
  BY <1>4
<1>6. /\ kind[s] = "none" /\ waiting[s] = <<>>
      /\ s \notin Conn /\ s \notin Owned /\ s \in Fd
  BY <1>2, <1>4, <1>5, FdAssumption
  DEF IInv, PendingTrue, SharedChange, WaitingTrue, FdAssumption, Fd
<1>7. \A f \in Fd : kind'[f] = IF f = s THEN "shared" ELSE kind[f]
  BY <1>2, <1>5 DEF IInv, TypeOK
<1>8. waiting' = waiting
  BY <1>2, <1>5, <1>6 DEF IInv, TypeOK
<1>9. \A d : HandsOff(d) <=> HandsOff(d)'
  BY <1>2 DEF HandsOff
<1>10. \A d, f : AsleepOn(d, f) <=> AsleepOn(d, f)'
  BY <1>2, <1>9 DEF AsleepOn
<1>11. /\ Conn \subseteq Fd /\ Owned \subseteq Fd /\ Shared \subseteq Fd
       /\ \A c \in Conn : kind'[c] = kind[c]
       /\ \A o \in Owned : kind'[o] = kind[o]
  BY <1>6, <1>7 DEF Fd
<1>12. TypeOK'
  BY <1>2, <1>3, <1>6, <1>8 DEF IInv, TypeOK
<1>13. KindTrue' /\ OneHolder'
  BY <1>2, <1>7 DEF IInv, KindTrue, OneHolder
<1>14. JobsTrue'
  BY <1>2, <1>11, MembersTyped DEF IInv, JobsTrue, Job
<1>15. \A w \in Worker : HeldTrue(w)'
  BY <1>2, <1>11 DEF IInv, HeldTrue, Job
<1>16. ArmedTrue'
  BY <1>2, <1>3, <1>10, <1>11 DEF IInv, ArmedTrue
<1>17. WaitingTrue' /\ \A r \in Shared : Once(waiting'[r])
  BY <1>7, <1>8, <1>10, <1>11, MembersTyped DEF IInv, WaitingTrue
<1>18. OwnedTrue'
  <2>1. ASSUME NEW c \in Conn, NEW o \in owns[c] PROVE EntryOfOwner(o, c)'
    <3>1. o \in Owned /\ EntryOfOwner(o, c)
      BY DEF IInv, TypeOK, OwnedTrue
    <3>2. \A u \in Pending : u.op = "CreateOwned" => u \in Pending'
      BY <1>2, <1>3
    <3> QED
      BY <1>2, <1>3, <1>11, <3>1, <3>2 DEF EntryOfOwner
  <2> QED
    BY <1>2, <1>11, <2>1 DEF IInv, OwnedTrue
<1>19. ConnTrue'
  BY <1>2, <1>3, <1>9, <1>11 DEF IInv, ConnTrue
<1>20. PoolsMade'
  BY <1>2, <1>3, <1>5, <1>7, <1>11 DEF IInv, PoolsMade
<1>21. PendingTrue'
  <2>1. ASSUME NEW u \in Pending' PROVE StreamChange(u)'
    BY <1>2, <1>3, <1>9, <1>10, <1>11 DEF IInv, PendingTrue, StreamChange
  <2>2. ASSUME NEW u \in Pending' PROVE OwnedChange(u)'
    <3>1. Restored(u.fd, Elements(applying)) => Restored(u.fd, Elements(applying'))
      BY <1>2, <1>3 DEF Restored
    <3> QED
      BY <1>2, <1>3, <1>10, <3>1 DEF IInv, PendingTrue, OwnedChange, Registers
  <2>3. ASSUME NEW u \in Pending' PROVE SharedChange(u)'
    <3>1. CASE u.fd = s
      <4>1. u.op = "Restore" \/ (StrayThrow /\ u.op = "Remove")
        BY <1>2, <1>3, <1>4, <1>5, <3>1 DEF Before
      <4>2. u \in Pending
        BY <1>3
      <4>3. u.op = "Restore" /\ u.owner \in Conn =>
                /\ kind[u.owner] = "stream" /\ AsleepOn(u.owner, u.fd)
                /\ u.owner \notin Elements(waiting[u.fd])
        BY <3>1, <4>2 DEF IInv, PendingTrue, SharedChange
      <4> QED
        BY <1>6, <1>7, <1>8, <1>10, <1>11, <3>1, <4>1, <4>3 DEF SharedChange
    <3>2. CASE u.fd # s
      <4>1. \A v \in Pending : v.fd = u.fd => v \in Pending'
        BY <1>3, <1>5, <3>2
      <4> QED
        BY <1>3, <1>7, <1>8, <1>10, <1>11, <3>2, <4>1 DEF IInv, PendingTrue, SharedChange
    <3> QED
      BY <3>1, <3>2
  <2> QED
    BY <1>3, <2>1, <2>2, <2>3 DEF IInv, PendingTrue
<1>22. StrayThrow \/ SleeperKnown'
  BY <1>2, <1>3, <1>8 DEF IInv, SleeperKnown, WaitPends
<1> QED
  BY <1>2, <1>3, <1>8, <1>12, <1>13, <1>14, <1>15, <1>16, <1>17, <1>18, <1>19,
     <1>20, <1>21, <1>22 DEF IInv

(* The entry of a connection goes: that of a coroutine that has ended, or   *)
(* that of one that waits for its own stream.                               *)
LEMMA EraseConnIInv ==
    ASSUME IInv, NEW c \in Conn, NEW h \in Pending, h.fd = c,
           h.op \in {"Remove", "ExternallyClosed"},
           HandsOff(c), at[c] = "ended" \/ AsleepOn(c, c),
           Erase(c), UNCHANGED <<jobs, workerVars>>, TypeOK',
           Elements(applying) = Elements(applying') \union {h},
           \A v \in Elements(applying') \union Elements(updates) : v.fd # c,
           ChangesOrdered',
           Elements(updates) \subseteq Elements(updates'),
           \A u \in Elements(updates') :
               u \in Elements(updates) \/ (u.op = "Remove" /\ u.fd \in owns[c]),
           \A d \in Conn : owns'[d] = IF d = c THEN {} ELSE owns[d],
           \A d \in Conn : leased'[d] = IF d = c THEN None ELSE leased[d]
    PROVE  IInv'
<1> USE DEF workerVars
<1>1. c \in Fd /\ c \notin Owned /\ c \notin Shared
  BY FdAssumption DEF FdAssumption, Fd
<1>2. /\ kind' = [kind EXCEPT ![c] = "none"]
      /\ armed' = armed \ {c}
      /\ \A o \in Owned : link'[o] = link[o]
      /\ waiting' = waiting
      /\ \A d \in Conn : at'[d] = IF d = c THEN "closed" ELSE at[d]
      /\ strayed' = strayed \ {c} /\ awaits' = awaits
  <2>1. waiting' = [s \in Shared |-> waiting[s]]
    BY <1>1 DEF Erase
  <2>2. waiting' = waiting
    BY <2>1 DEF IInv, TypeOK
  <2>3. \A o \in Owned : link'[o] = link[o]
    BY <1>1 DEF Erase
  <2> QED
    BY <2>2, <2>3 DEF Erase
<1>3. \A f \in Fd : kind'[f] = IF f = c THEN "none" ELSE kind[f]
  BY <1>1, <1>2 DEF IInv, TypeOK
<1>4. \A d : HandsOff(d) <=> HandsOff(d)'
  BY DEF HandsOff
<1>5. \A d \in Conn : \A f : AsleepOn(d, f) /\ d # c => AsleepOn(d, f)'
  BY <1>2, <1>4 DEF AsleepOn
<1>6. \A f : AsleepOn(c, f) => f = c
  BY DEF AsleepOn
<1>7. /\ Conn \subseteq Fd /\ Owned \subseteq Fd /\ Shared \subseteq Fd
      /\ \A d \in Conn : d # c => kind'[d] = kind[d]
      /\ \A o \in Owned : kind'[o] = kind[o]
      /\ \A s \in Shared : kind'[s] = kind[s]
  BY <1>1, <1>3 DEF Fd
<1>8. \A o \in owns[c] : /\ o \in Owned /\ o \notin Conn /\ o \notin Shared
                         /\ \A d \in Conn : o \in owns[d] => d = c
                         /\ \A u \in Pending : u.fd = o => u.op = "Remove"
  <2>1. \A o \in owns[c] : /\ o \in Owned /\ o \notin Conn /\ o \notin Shared
                           /\ \A d \in Conn : o \in owns[d] => d = c
    BY FdAssumption DEF IInv, TypeOK, OwnedTrue, EntryOfOwner, FdAssumption
  <2>2. ASSUME NEW o \in owns[c]
        PROVE  \A u \in Pending : u.fd = o => u.op = "Remove"
    <3>1. AsleepOn(c, c) /\ o # c
      BY <2>1 DEF IInv, OwnedTrue
    <3> QED
      BY <3>1, OwnedQuiet DEF AsleepOn, HandsOff
  <2> QED
    BY <2>1, <2>2
<1>9. /\ \A u \in Pending : u # h => u \in Pending'
      /\ \A u \in Pending' :
            (u \in Pending /\ u.fd # c) \/ (u.op = "Remove" /\ u.fd \in owns[c])
      /\ \A u \in Elements(updates') : u.op # "Remove" => u \in Elements(updates)
      /\ \A u \in Elements(applying') : u \in Elements(applying)
      /\ \A u \in Elements(applying) : u.fd # c => u \in Elements(applying')
  BY DEF Pending
<1>10. KindTrue' /\ OneHolder'
  BY <1>3 DEF IInv, KindTrue, OneHolder
<1>11. JobsTrue'
  <2>1. \A j \in Elements(jobs) : j.co \in Conn /\ j.co # c
    BY MembersTyped DEF IInv, Job, HandsOff
  <2> QED
    BY <1>2, <1>7, <2>1 DEF IInv, JobsTrue
<1>12. \A w \in Worker : HeldTrue(w)'
  <2>1. \A w \in Worker : /\ held[w].co # c
                          /\ held[w] \in Job => held[w].co \in Conn
    BY DEF HandsOff, Job
  <2> QED
    BY <1>2, <1>7, <2>1 DEF IInv, HeldTrue
<1>13. ArmedTrue'
  <2>1. ASSUME NEW d \in armed' \intersect Conn
        PROVE  kind'[d] = "stream" /\ AsleepOn(d, d)' /\ \A u \in Pending' : u.fd # d
    BY <1>2, <1>5, <1>7, <1>8, <1>9 DEF IInv, ArmedTrue
  <2>2. ASSUME NEW o \in armed' \intersect Owned
        PROVE  /\ kind'[o] = "owned"
               /\ link'[o] \in Conn /\ kind'[link'[o]] = "stream" /\ AsleepOn(link[o], o)'
               /\ \A u \in Pending' : u.fd = o => u.op # "CreateOwned"
               /\ \A u \in Elements(updates') : u.fd = o => u.op # "Restore"
    <3>1. PICK d \in Conn : d = link[o] /\ d = link'[o]
      BY <1>2 DEF IInv, ArmedTrue
    <3>2. AsleepOn(d, o) /\ kind[o] = "owned" /\ kind[d] = "stream"
      BY <1>2, <3>1 DEF IInv, ArmedTrue
    <3>3. d # c
      BY <1>1, <1>6, <3>2
    <3>4. AsleepOn(d, o)'
      BY <1>5, <3>2, <3>3
    <3>5. AsleepOn(link[o], o)'
      BY <1>2, <3>1, <3>4
    <3> QED
      BY <1>2, <1>7, <1>9, <3>1, <3>2, <3>3, <3>5 DEF IInv, ArmedTrue
  <2> QED
    BY <2>1, <2>2 DEF ArmedTrue, AsleepOn, HandsOff
<1>14. WaitingTrue' /\ \A s \in Shared : Once(waiting'[s])
  <2>1. ASSUME NEW s \in Shared, NEW d \in Elements(waiting[s])
        PROVE  kind'[d] = "stream" /\ AsleepOn(d, s)'
    <3>1. d \in Conn /\ kind[d] = "stream" /\ AsleepOn(d, s)
      BY MembersTyped DEF IInv, WaitingTrue
    <3>2. d # c
      BY <1>1, <1>6, <3>1
    <3> QED
      BY <1>5, <1>7, <3>1, <3>2
  <2> QED
    BY <1>2, <1>7, <2>1 DEF IInv, WaitingTrue
<1>15. OwnedTrue'
  <2>1. /\ \A d, e \in Conn : \A p \in owns'[d] : p \in owns'[e] => d = e
        /\ \A d \in Conn : owns'[d] # {} =>
                kind'[d] = "stream" /\ at'[d] \in {"running", "asleep"}
        /\ \A d \in Conn : at'[d] = "asleep" /\ awaits'[d] \notin Shared =>
                awaits'[d] = d \/ awaits'[d] \in owns'[d]
    BY <1>2, <1>7 DEF IInv, OwnedTrue, EntryOfOwner
  <2>2. ASSUME NEW d \in Conn, NEW p \in owns'[d]
        PROVE  EntryOfOwner(p, d)'
    <3>1. d # c /\ p \in owns[d] /\ p \notin owns[c] /\ p \in Owned
      BY <1>8 DEF IInv, TypeOK
    <3> QED
      BY <1>2, <1>7, <1>9, <3>1 DEF IInv, OwnedTrue, EntryOfOwner
  <2> QED
    BY <2>1, <2>2 DEF OwnedTrue, EntryOfOwner
<1>16. ConnTrue'
  <2>1. ASSUME NEW d \in Conn, at'[d] = "ended", HandsOff(d)'
        PROVE  StrayThrow \/ \E u \in Pending' : u.op = "Remove" /\ u.fd = d
    <3> SUFFICES ASSUME ~StrayThrow PROVE \E u \in Pending' : u.op = "Remove" /\ u.fd = d
      OBVIOUS
    <3>1. d # c /\ at[d] = "ended" /\ HandsOff(d)
      BY <1>2, <1>4, <2>1
    <3>2. PICK u \in Pending : u.op = "Remove" /\ u.fd = d
      BY <3>1 DEF IInv, ConnTrue
    <3> QED
      BY <1>9, <3>1, <3>2
  <2>2. \A d \in Conn : /\ at'[d] = "closed" => kind'[d] = "none"
                        /\ at'[d] \in {"closed", "ended"} => leased'[d] = None
    BY <1>2, <1>1, <1>3, <1>7 DEF IInv, ConnTrue
  <2> QED
    BY <2>1, <2>2 DEF ConnTrue
<1>17. PoolsMade'
  <2>1. at[c] # "closed"
    BY DEF AsleepOn
  <2>2. \A u \in Pending : u.op = "CreateShared" => u \in Pending'
    BY <1>9
  <2> QED
    BY <1>2, <1>7, <2>1, <2>2 DEF IInv, PoolsMade
<1>18. PendingTrue'
  <2>1. ASSUME NEW u \in Pending', u.op = "Remove", u.fd \in owns[c]
        PROVE  StreamChange(u)' /\ OwnedChange(u)' /\ SharedChange(u)'
    BY <1>8, <2>1 DEF StreamChange, OwnedChange, SharedChange
  <2>2. ASSUME NEW v \in Pending, v.fd # c PROVE StreamChange(v)'
    BY <1>2, <1>4, <1>5, <1>7, <2>2 DEF IInv, PendingTrue, StreamChange
  <2>3. ASSUME NEW v \in Pending, v.fd # c PROVE SharedChange(v)'
    <3>1. ASSUME v.fd \in Shared, v.op = "Restore", v.owner \in Conn
          PROVE  /\ kind'[v.owner] = "stream" /\ AsleepOn(v.owner, v.fd)'
                 /\ v.owner \notin Elements(waiting'[v.fd])
      <4>1. /\ kind[v.owner] = "stream" /\ AsleepOn(v.owner, v.fd)
            /\ v.owner \notin Elements(waiting[v.fd])
        BY <3>1 DEF IInv, PendingTrue, SharedChange
      <4>2. v.owner # c
        BY <1>6, <2>3, <4>1
      <4> QED
        BY <1>2, <1>5, <1>7, <3>1, <4>1, <4>2
    <3>2. \A u \in Pending : u.op = "CreateShared" => u \in Pending'
      BY <1>9
    <3> QED
      BY <1>7, <3>1, <3>2 DEF IInv, PendingTrue, SharedChange
  <2>4. ASSUME NEW v \in Pending, v.fd # c PROVE OwnedChange(v)'
    <3>1. \A x \in Worker : Registers(v, x) => Registers(v, x)'
      BY DEF Registers
    <3>2. /\ Restored(v.fd, Elements(updates)) => Restored(v.fd, Elements(updates'))
          /\ Restored(v.fd, Elements(applying)) => Restored(v.fd, Elements(applying'))
      BY <1>9, <2>4 DEF Restored
    <3>3. v.op # "Remove" => \A d \in Conn : v.fd \in owns[d] => v.fd \in owns'[d]
      BY <1>8
    <3>4. \A d \in Conn : AsleepOn(d, v.fd) => AsleepOn(d, v.fd)'
      BY <1>5, <1>6, <2>4
    <3> QED
      BY <1>9, <3>1, <3>2, <3>3, <3>4 DEF IInv, PendingTrue, OwnedChange
  <2> QED
    BY <1>9, <2>1, <2>2, <2>3, <2>4 DEF IInv, PendingTrue
<1>19. StrayThrow \/ SleeperKnown'
  <2> SUFFICES ASSUME ~StrayThrow PROVE SleeperKnown'
    OBVIOUS
  <2>1. ASSUME NEW d \in Conn, d # c, WaitPends(d), at[d] = "asleep"
        PROVE  WaitPends(d)'
    <3>1. awaits[d] # c
      BY <1>1, <2>1 DEF IInv, OwnedTrue, EntryOfOwner, TypeOK
    <3>2. \A u \in Pending : u.fd = awaits[d] => u \in Pending'
      BY <1>9, <3>1
    <3> QED
      BY <1>2, <2>1, <3>1, <3>2 DEF WaitPends
  <2> QED
    BY <1>2, <2>1 DEF IInv, SleeperKnown
<1> QED
  BY <1>2, <1>10, <1>11, <1>12, <1>13, <1>14, <1>15, <1>16, <1>17, <1>18, <1>19
  DEF IInv

(* The entry of an owned descriptor goes; when the number is in use again,  *)
(* its next entry is still to be made.                                      *)
LEMMA RemoveOwnedIInv ==
    ASSUME IInv, ApplyRemove, Head(applying).fd \in Owned PROVE IInv'
<1>1. PICK h : h = Head(applying)
  OBVIOUS
<1>2. PICK o \in Owned : o = h.fd
  BY <1>1
<1>3. o \notin Conn /\ o \notin Shared /\ o \in Fd
  BY FdAssumption DEF FdAssumption, Fd
<1>4. /\ applying # <<>> /\ h.op = "Remove" /\ applying' = Tail(applying)
      /\ Erase(o) /\ ready' = ready \ ({o} \intersect Conn)
      /\ UNCHANGED <<updates, jobs, held, stage, task, owns, leased, pool>>
  BY <1>1, <1>2 DEF ApplyRemove, Applies, workerVars
<1>5. /\ kind' = [kind EXCEPT ![o] = "none"] /\ armed' = armed \ {o}
      /\ link' = [p \in Owned |-> IF p = o THEN None ELSE link[p]]
      /\ UNCHANGED <<waiting, at, awaits, strayed, peerClosed, ready>>
  <2>1. /\ waiting' = [s \in Shared |-> waiting[s]]
        /\ at' = [c \in Conn |-> at[c]]
    BY <1>3, <1>4 DEF Erase
  <2>2. waiting' = waiting /\ at' = at
    BY <2>1 DEF IInv, TypeOK
  <2>3. strayed' = strayed /\ peerClosed' = peerClosed /\ ready' = ready
    BY <1>3, <1>4 DEF Erase, IInv, TypeOK
  <2> QED
    BY <1>4, <2>2, <2>3 DEF Erase
<1>6. /\ h \in Update /\ applying' \in Seq(Update) /\ ChangesOrdered'
      /\ Elements(applying) = Elements(applying') \union {h}
      /\ Elements(updates') = Elements(updates)
      /\ Pending = Pending' \union {h}
  BY <1>1, <1>4, ApplyEffect DEF IInv, Pending
<1>7. /\ \A u \in Pending : u.op # "Remove" \/ u.fd # o => u \in Pending'
      /\ \A u \in Elements(applying) : u.op # "Remove" => u \in Elements(applying')
  BY <1>2, <1>4, <1>6
<1>8. \A f \in Fd : kind'[f] = IF f = o THEN "none" ELSE kind[f]
  BY <1>5 DEF IInv, TypeOK
<1>9. \A d : HandsOff(d) <=> HandsOff(d)'
  BY <1>4 DEF HandsOff
<1>10. \A d, f : AsleepOn(d, f) <=> AsleepOn(d, f)'
  BY <1>5, <1>9 DEF AsleepOn
<1>11. /\ Conn \subseteq Fd /\ Owned \subseteq Fd /\ Shared \subseteq Fd
       /\ \A c \in Conn : kind'[c] = kind[c]
       /\ \A s \in Shared : kind'[s] = kind[s]
       /\ \A p \in Owned : p # o => kind'[p] = kind[p] /\ link'[p] = link[p]
  BY <1>3, <1>5, <1>8 DEF Fd
<1>12. \A c \in Conn : o \in owns[c] =>
            \/ \E u \in Pending' : u.op = "CreateOwned" /\ u.fd = o /\ u.owner = c
            \/ StrayThrow /\ \A u \in Pending' : u.fd = o => u.op # "CreateOwned"
  <2>1. ASSUME NEW c \in Conn, o \in owns[c]
        PROVE  \/ \E u \in Pending : u.op = "CreateOwned" /\ u.fd = o /\ u.owner = c
               \/ StrayThrow /\ \A u \in Pending : u.fd = o => u.op # "CreateOwned"
    <3>1. h \in Pending /\ h.fd = o /\ h.op # "Restore"
      BY <1>2, <1>4, <1>6
    <3> QED
      BY <2>1, <3>1 DEF IInv, OwnedTrue, EntryOfOwner
  <2> QED
    BY <1>6, <1>7, <2>1
<1>13. TypeOK'
  BY <1>4, <1>5, <1>6 DEF IInv, TypeOK
<1>14. KindTrue' /\ OneHolder'
  BY <1>4, <1>8 DEF IInv, KindTrue, OneHolder
<1>15. JobsTrue'
  BY <1>4, <1>5, <1>11, MembersTyped DEF IInv, JobsTrue, Job
<1>16. \A w \in Worker : HeldTrue(w)'
  BY <1>4, <1>5, <1>11 DEF IInv, HeldTrue, Job
<1>17. ArmedTrue'
  <2>1. ASSUME NEW d \in armed' \intersect Conn
        PROVE  kind'[d] = "stream" /\ AsleepOn(d, d) /\ \A u \in Pending' : u.fd # d
    BY <1>5, <1>6, <1>11 DEF IInv, ArmedTrue
  <2>2. ASSUME NEW p \in armed' \intersect Owned
        PROVE  /\ kind'[p] = "owned"
               /\ link'[p] \in Conn /\ kind'[link'[p]] = "stream" /\ AsleepOn(link'[p], p)
               /\ \A u \in Pending' : u.fd = p => u.op # "CreateOwned"
               /\ \A u \in Elements(updates) : u.fd = p => u.op # "Restore"
    <3>1. p \in armed /\ p # o
      BY <1>5
    <3> QED
      BY <1>6, <1>11, <3>1 DEF IInv, ArmedTrue
  <2> QED
    BY <1>4, <1>10, <2>1, <2>2 DEF ArmedTrue
<1>18. WaitingTrue' /\ \A s \in Shared : Once(waiting'[s])
  BY <1>5, <1>10, <1>11, MembersTyped DEF IInv, WaitingTrue
<1>19. OwnedTrue'
  <2>1. /\ \A c, e \in Conn : \A p \in owns'[c] : p \in owns'[e] => c = e
        /\ \A c \in Conn : owns'[c] # {} =>
                kind'[c] = "stream" /\ at'[c] \in {"running", "asleep"}
        /\ \A c \in Conn : at'[c] = "asleep" /\ awaits'[c] \notin Shared =>
                awaits'[c] = c \/ awaits'[c] \in owns'[c]
    BY <1>4, <1>5, <1>11 DEF IInv, OwnedTrue, EntryOfOwner
  <2>2. ASSUME NEW c \in Conn, NEW p \in owns'[c]
        PROVE  EntryOfOwner(p, c)'
    <3>1. CASE p = o
      BY <1>3, <1>4, <1>8, <1>12, <3>1 DEF EntryOfOwner
    <3>2. CASE p # o
      <4>1. p \in owns[c] /\ p \in Owned
        BY <1>4 DEF IInv, TypeOK
      <4> QED
        BY <1>6, <1>7, <1>11, <3>2, <4>1 DEF IInv, OwnedTrue, EntryOfOwner
    <3> QED
      BY <3>1, <3>2
  <2> QED
    BY <2>1, <2>2 DEF OwnedTrue, EntryOfOwner
<1>20. ConnTrue'
  BY <1>3, <1>4, <1>5, <1>7, <1>9, <1>11 DEF IInv, ConnTrue
<1>21. PoolsMade'
  <2>1. \A u \in Pending : u.op = "CreateShared" => u \in Pending'
    BY <1>7
  <2> QED
    BY <1>5, <1>11, <2>1 DEF IInv, PoolsMade
<1>22. PendingTrue'
  <2>1. ASSUME NEW u \in Pending' PROVE StreamChange(u)'
    BY <1>5, <1>6, <1>9, <1>10, <1>11 DEF IInv, PendingTrue, StreamChange
  <2>2. ASSUME NEW u \in Pending' PROVE OwnedChange(u)'
    <3>1. Restored(u.fd, Elements(applying)) => Restored(u.fd, Elements(applying'))
      BY <1>7 DEF Restored
    <3> QED
      BY <1>4, <1>6, <1>10, <3>1 DEF IInv, PendingTrue, OwnedChange, Registers
  <2>3. ASSUME NEW u \in Pending' PROVE SharedChange(u)'
    <3>1. \A v \in Pending : v.op = "CreateShared" => v \in Pending'
      BY <1>7
    <3> QED
      BY <1>5, <1>6, <1>10, <1>11, <3>1 DEF IInv, PendingTrue, SharedChange
  <2> QED
    BY <1>6, <2>1, <2>2, <2>3 DEF IInv, PendingTrue
<1>23. StrayThrow \/ SleeperKnown'
  <2> SUFFICES ASSUME ~StrayThrow PROVE SleeperKnown'
    OBVIOUS
  <2>1. ASSUME NEW d \in Conn, WaitPends(d), at[d] = "asleep"
        PROVE  WaitPends(d)'
    <3>1. awaits[d] = o => o \in owns[d]
      BY <1>3, <2>1 DEF IInv, OwnedTrue, EntryOfOwner
    <3>2. awaits[d] = o => o \notin armed
      <4> SUFFICES ASSUME awaits[d] = o PROVE o \notin armed
        OBVIOUS
      <4>1. PICK u \in Pending' : u.op = "CreateOwned" /\ u.fd = o
        BY <1>12, <3>1
      <4>2. u \in Pending
        BY <1>6
      <4> QED
        BY <4>1, <4>2 DEF IInv, ArmedTrue
    <3>3. \A u \in Pending : u.op # "Remove" => u \in Pending'
      BY <1>7
    <3> QED
      BY <1>4, <1>5, <1>11, <2>1, <3>2, <3>3 DEF WaitPends
  <2> QED
    BY <1>5, <2>1 DEF IInv, SleeperKnown
<1> QED
  BY <1>4, <1>5, <1>6, <1>13, <1>14, <1>15, <1>16, <1>17, <1>18, <1>19, <1>20,
     <1>21, <1>22, <1>23 DEF IInv

(* An erased entry leaves everything of its type.                           *)
LEMMA EraseType ==
    ASSUME TypeOK, NEW f \in Fd, Erase(f)
    PROVE  /\ kind' \in [Fd -> {"none", "stream", "owned", "shared"}]
           /\ link' \in [Owned -> Conn \union {None}]
           /\ waiting' \in [Shared -> Seq(Conn)]
           /\ armed' \subseteq Fd
           /\ at' \in [Conn -> {"closed", "asleep", "running", "ended"}]
           /\ awaits' \in [Conn -> Fd]
           /\ strayed' \subseteq Conn /\ peerClosed' \subseteq Conn
<1>1. /\ kind' = [kind EXCEPT ![f] = "none"]
      /\ armed' = armed \ {f}
      /\ link' = [o \in Owned |-> IF o = f THEN None ELSE link[o]]
      /\ at' = [c \in Conn |-> IF c = f THEN "closed" ELSE at[c]]
      /\ strayed' = strayed \ {f} /\ peerClosed' = peerClosed \ {f}
      /\ awaits' = awaits
  BY DEF Erase
<1>2. waiting' = [s \in Shared |-> IF s = f THEN <<>> ELSE waiting[s]]
  BY DEF Erase
<1>3. waiting' \in [Shared -> Seq(Conn)]
  <2>1. \A s \in Shared : (IF s = f THEN <<>> ELSE waiting[s]) \in Seq(Conn)
    BY DEF TypeOK
  <2> QED
    BY <1>2, <2>1
<1> QED
  BY <1>1, <1>3 DEF TypeOK

(* The entry of a shared descriptor goes, with its list: a handler threw in *)
(* a job of it, so StrayThrow.  Those that are restored later find nothing. *)
LEMMA RemoveSharedIInv ==
    ASSUME IInv, ApplyRemove, Head(applying).fd \in Shared PROVE IInv'
<1>1. PICK h : h = Head(applying)
  OBVIOUS
<1>2. PICK s \in Shared : s = h.fd
  BY <1>1
<1>3. s \notin Conn /\ s \notin Owned /\ s \in Fd
  BY FdAssumption DEF FdAssumption, Fd
<1>4. /\ applying # <<>> /\ h.op = "Remove" /\ applying' = Tail(applying)
      /\ Erase(s) /\ ready' = ready \ ({s} \intersect Conn)
      /\ UNCHANGED <<updates, jobs, held, stage, task, owns, leased, pool>>
  BY <1>1, <1>2 DEF ApplyRemove, Applies, workerVars
<1>5. /\ kind' = [kind EXCEPT ![s] = "none"] /\ armed' = armed \ {s}
      /\ waiting' = [r \in Shared |-> IF r = s THEN <<>> ELSE waiting[r]]
      /\ UNCHANGED <<link, at, awaits, strayed, peerClosed, ready>>
  <2>1. /\ link' = [o \in Owned |-> link[o]]
        /\ at' = [c \in Conn |-> at[c]]
    BY <1>3, <1>4 DEF Erase
  <2>2. link' = link /\ at' = at
    BY <2>1 DEF IInv, TypeOK
  <2>3. strayed' = strayed /\ peerClosed' = peerClosed /\ ready' = ready
    BY <1>3, <1>4 DEF Erase, IInv, TypeOK
  <2> QED
    BY <1>4, <2>2, <2>3 DEF Erase
<1>6. /\ h \in Update /\ applying' \in Seq(Update) /\ ChangesOrdered'
      /\ Elements(applying) = Elements(applying') \union {h}
      /\ Elements(updates') = Elements(updates)
      /\ Pending = Pending' \union {h}
      /\ \A v \in Pending' : Before(h, v)
  BY <1>1, <1>4, ApplyEffect DEF IInv, Pending
<1>7. /\ \A u \in Pending : u.fd # s => u \in Pending'
      /\ \A u \in Elements(applying) : u.fd # s => u \in Elements(applying')
  BY <1>2, <1>6
<1>8. StrayThrow
  BY <1>2, <1>4, <1>6 DEF IInv, PendingTrue, SharedChange
<1>9. \A u \in Pending' : u.fd = s => u.op # "CreateShared"
  BY <1>2, <1>3, <1>6 DEF Before
<1>10. \A f \in Fd : kind'[f] = IF f = s THEN "none" ELSE kind[f]
  BY <1>5 DEF IInv, TypeOK
<1>11. \A d : HandsOff(d) <=> HandsOff(d)'
  BY <1>4 DEF HandsOff
<1>12. \A d, f : AsleepOn(d, f) <=> AsleepOn(d, f)'
  BY <1>5, <1>11 DEF AsleepOn
<1>13. /\ Conn \subseteq Fd /\ Owned \subseteq Fd /\ Shared \subseteq Fd
       /\ \A c \in Conn : kind'[c] = kind[c]
       /\ \A o \in Owned : kind'[o] = kind[o]
       /\ \A r \in Shared : r # s => kind'[r] = kind[r] /\ waiting'[r] = waiting[r]
       /\ waiting'[s] = <<>>
  BY <1>3, <1>5, <1>10 DEF Fd
<1>14. TypeOK'
  <2>1. waiting' \in [Shared -> Seq(Conn)]
    BY <1>3, <1>4, EraseType DEF IInv
  <2> QED
    BY <1>4, <1>5, <1>6, <2>1 DEF IInv, TypeOK
<1>15. KindTrue' /\ OneHolder'
  BY <1>4, <1>10 DEF IInv, KindTrue, OneHolder
<1>16. JobsTrue'
  BY <1>4, <1>5, <1>13, MembersTyped DEF IInv, JobsTrue, Job
<1>17. \A w \in Worker : HeldTrue(w)'
  BY <1>4, <1>5, <1>13 DEF IInv, HeldTrue, Job
<1>18. ArmedTrue'
  <2>1. ASSUME NEW d \in armed' \intersect Conn
        PROVE  kind'[d] = "stream" /\ AsleepOn(d, d) /\ \A u \in Pending' : u.fd # d
    BY <1>5, <1>6, <1>13 DEF IInv, ArmedTrue
  <2>2. ASSUME NEW o \in armed' \intersect Owned
        PROVE  /\ kind'[o] = "owned"
               /\ link[o] \in Conn /\ kind'[link[o]] = "stream" /\ AsleepOn(link[o], o)
               /\ \A u \in Pending' : u.fd = o => u.op # "CreateOwned"
               /\ \A u \in Elements(updates) : u.fd = o => u.op # "Restore"
    BY <1>5, <1>6, <1>13 DEF IInv, ArmedTrue
  <2> QED
    BY <1>4, <1>5, <1>12, <2>1, <2>2 DEF ArmedTrue
<1>19. WaitingTrue' /\ \A r \in Shared : Once(waiting'[r])
  <2>1. Once(<<>>)
    BY DEF Once
  <2>2. ASSUME NEW r \in Shared
        PROVE  /\ waiting'[r] # <<>> => kind'[r] = "shared"
               /\ \A c \in Elements(waiting'[r]) : kind'[c] = "stream" /\ AsleepOn(c, r)
               /\ Once(waiting'[r])
    <3>1. CASE r = s
      BY <1>13, <2>1, <3>1, NoElements
    <3>2. CASE r # s
      BY <1>13, <3>2, MembersTyped DEF IInv, WaitingTrue
    <3> QED
      BY <3>1, <3>2
  <2> QED
    BY <1>12, <2>2 DEF WaitingTrue
<1>20. OwnedTrue'
  <2>1. /\ \A c, e \in Conn : \A p \in owns'[c] : p \in owns'[e] => c = e
        /\ \A c \in Conn : owns'[c] # {} =>
                kind'[c] = "stream" /\ at'[c] \in {"running", "asleep"}
        /\ \A c \in Conn : at'[c] = "asleep" /\ awaits'[c] \notin Shared =>
                awaits'[c] = c \/ awaits'[c] \in owns'[c]
    BY <1>4, <1>5, <1>13 DEF IInv, OwnedTrue, EntryOfOwner
  <2>2. ASSUME NEW c \in Conn, NEW p \in owns'[c]
        PROVE  EntryOfOwner(p, c)'
    <3>1. p \in owns[c] /\ p \in Owned /\ p # s
      BY <1>3, <1>4 DEF IInv, TypeOK
    <3> QED
      BY <1>5, <1>6, <1>7, <1>13, <3>1 DEF IInv, OwnedTrue, EntryOfOwner
  <2> QED
    BY <2>1, <2>2 DEF OwnedTrue, EntryOfOwner
<1>21. ConnTrue'
  BY <1>3, <1>4, <1>5, <1>7, <1>8, <1>11, <1>13 DEF IInv, ConnTrue
<1>22. PoolsMade'
  BY <1>8 DEF PoolsMade
<1>23. PendingTrue'
  <2>1. ASSUME NEW u \in Pending' PROVE StreamChange(u)'
    BY <1>5, <1>6, <1>11, <1>12, <1>13 DEF IInv, PendingTrue, StreamChange
  <2>2. ASSUME NEW u \in Pending' PROVE OwnedChange(u)'
    <3>1. u.fd \in Owned /\ Restored(u.fd, Elements(applying))
            => Restored(u.fd, Elements(applying'))
      BY <1>3, <1>7 DEF Restored
    <3> QED
      BY <1>4, <1>6, <1>12, <3>1 DEF IInv, PendingTrue, OwnedChange, Registers
  <2>3. ASSUME NEW u \in Pending' PROVE SharedChange(u)'
    <3>1. ASSUME u.fd \in Shared, u.op = "Restore", u.owner \in Conn
          PROVE  /\ kind'[u.owner] = "stream" /\ AsleepOn(u.owner, u.fd)'
                 /\ u.owner \notin Elements(waiting'[u.fd])
      <4>1. /\ kind[u.owner] = "stream" /\ AsleepOn(u.owner, u.fd)
            /\ u.owner \notin Elements(waiting[u.fd])
        BY <1>6, <3>1 DEF IInv, PendingTrue, SharedChange
      <4>2. u.owner \notin Elements(waiting'[u.fd])
        BY <1>13, <3>1, <4>1, NoElements
      <4> QED
        BY <1>12, <1>13, <3>1, <4>1, <4>2
    <3>2. u.op = "CreateShared" /\ u.fd \in Shared => kind'[u.fd] = "none"
      BY <1>6, <1>9, <1>13 DEF IInv, PendingTrue, SharedChange
    <3>3. u.fd \in Shared =>
            u.op \in {"CreateShared", "Restore"} \/ (StrayThrow /\ u.op = "Remove")
      BY <1>6 DEF IInv, PendingTrue, SharedChange
    <3> QED
      BY <1>8, <3>1, <3>2, <3>3 DEF SharedChange
  <2> QED
    BY <1>6, <2>1, <2>2, <2>3 DEF IInv, PendingTrue
<1> QED
  BY <1>4, <1>5, <1>6, <1>8, <1>14, <1>15, <1>16, <1>17, <1>18, <1>19, <1>20,
     <1>21, <1>22, <1>23 DEF IInv

(* A removal: of a descriptor that is owned or shared, or of a connection   *)
(* whose coroutine has ended and owns nothing any more.                     *)
LEMMA RemoveIInv == ASSUME IInv, ApplyRemove PROVE IInv'
<1>1. PICK h : h = Head(applying)
  OBVIOUS
<1>2. /\ applying # <<>> /\ h.op = "Remove" /\ applying' = Tail(applying)
      /\ Erase(h.fd) /\ ready' \subseteq ready
      /\ UNCHANGED <<updates, jobs, workerVars, owns, leased, pool>>
  BY <1>1 DEF ApplyRemove, Applies
<1>3. /\ h \in Update /\ applying' \in Seq(Update) /\ ChangesOrdered'
      /\ Elements(applying) = Elements(applying') \union {h}
      /\ \A v \in Elements(applying') \union Elements(updates) : Before(h, v)
  BY <1>1, <1>2, ApplyEffect DEF IInv
<1>4. h \in Pending
  BY <1>3 DEF Pending
<1>5. h.fd \in Conn \/ h.fd \in Owned \/ h.fd \in Shared
  BY <1>3 DEF Update, Fd
<1>6. CASE h.fd \in Owned \/ h.fd \in Shared
  BY <1>1, <1>6, RemoveOwnedIInv, RemoveSharedIInv
<1>7. CASE h.fd \in Conn
  <2>1. PICK c \in Conn : c = h.fd
    BY <1>7
  <2>2. at[c] = "ended" /\ HandsOff(c) /\ owns[c] = {} /\ leased[c] = None
    BY <1>2, <1>4, <2>1
    DEF IInv, PendingTrue, StreamChange, OwnedTrue, EntryOfOwner, ConnTrue
  <2>3. /\ \A v \in Elements(applying') \union Elements(updates) : v.fd # c
        /\ Elements(updates') = Elements(updates)
    BY <1>2, <1>3, <2>1 DEF Before
  <2>4. /\ \A d \in Conn : owns'[d] = IF d = c THEN {} ELSE owns[d]
        /\ \A d \in Conn : leased'[d] = IF d = c THEN None ELSE leased[d]
    BY <1>2, <2>2
  <2>5. TypeOK'
    <3>1. h.fd \in Fd
      BY <1>7 DEF Fd
    <3> QED
      BY <1>2, <1>3, <3>1, EraseType DEF IInv, TypeOK, workerVars
  <2> QED
    BY <1>2, <1>3, <1>4, <2>1, <2>2, <2>3, <2>4, <2>5, EraseConnIInv
<1> QED
  BY <1>5, <1>6, <1>7

(* A client has closed: the coroutine that waits for it is unwound.         *)
LEMMA ExternallyClosedIInv == ASSUME IInv, ApplyExternallyClosed PROVE IInv'
<1>1. PICK h : h = Head(applying)
  OBVIOUS
<1>2. /\ applying # <<>> /\ h.op = "ExternallyClosed"
      /\ applying' = Tail(applying) /\ Erase(h.fd) /\ Unwinds(h.fd)
      /\ UNCHANGED <<jobs, workerVars>>
  BY <1>1 DEF ApplyExternallyClosed, Applies
<1>3. /\ h \in Update /\ applying' \in Seq(Update) /\ InOrder(applying')
      /\ Elements(applying) = Elements(applying') \union {h}
      /\ \A v \in Elements(applying') \union Elements(updates) : Before(h, v)
  BY <1>1, <1>2, ApplyEffect DEF IInv
<1>4. h \in Pending
  BY <1>3 DEF Pending
<1>5. h.fd \in Conn
  BY <1>2, <1>3, <1>4 DEF IInv, PendingTrue, OwnedChange, SharedChange, Update, Fd
<1>6. PICK c \in Conn : c = h.fd
  BY <1>5
<1>7. AsleepOn(c, c) /\ HandsOff(c)
  BY <1>2, <1>4, <1>6 DEF IInv, PendingTrue, StreamChange, AsleepOn
<1>8. ASSUME NEW o \in owns[c]
      PROVE  \A u \in Pending : u.fd = o => u.op = "Remove"
  <2>1. o # c
    BY FdAssumption DEF IInv, TypeOK, FdAssumption
  <2> QED
    BY <1>7, <2>1, OwnedQuiet DEF AsleepOn, HandsOff
<1>9. /\ updates' \in Seq(Update) /\ InOrder(updates')
      /\ Elements(updates) \subseteq Elements(updates')
      /\ \A u \in Elements(updates') :
             u \in Elements(updates) \/ (u.op = "Remove" /\ u.fd \in owns[c])
      /\ \A u \in Elements(applying), v \in Elements(updates') : Before(u, v)
  BY <1>2, <1>6, <1>8, UnwindEffect
<1>10. ChangesOrdered'
  BY <1>3, <1>9 DEF ChangesOrdered
<1>11. /\ owns' \in [Conn -> SUBSET Owned]
       /\ leased' \in [Conn -> Shared \union {None}]
       /\ pool' \in [Shared -> Nat] /\ ready' \subseteq Conn \union Owned
       /\ \A d \in Conn : owns'[d] = IF d = c THEN {} ELSE owns[d]
       /\ \A d \in Conn : leased'[d] = IF d = c THEN None ELSE leased[d]
  BY <1>2, <1>6, UnwindType
<1>12. TypeOK'
  <2>1. h.fd \in Fd
    BY <1>5 DEF Fd
  <2> QED
    BY <1>2, <1>3, <1>9, <1>11, <2>1, EraseType DEF IInv, TypeOK, workerVars
<1>13. \A v \in Elements(applying') \union Elements(updates) : v.fd # c
  BY <1>3, <1>6 DEF Before
<1> QED
  BY <1>2, <1>3, <1>4, <1>6, <1>7, <1>9, <1>10, <1>11, <1>12, <1>13,
     EraseConnIInv

(* What a restore finds: the entry it needs is there, and nothing else that *)
(* is still to be applied concerns the same wait.                           *)
LEMMA RestoreFinds ==
    ASSUME IInv, Applies("Restore"), NEW h, h = Head(applying), kind[h.fd] # "none"
    PROVE  /\ h.fd \in Conn => kind[h.fd] = "stream" /\ AsleepOn(h.fd, h.fd)
           /\ h.fd \in Owned => /\ kind[h.fd] = "owned" /\ link[h.fd] \in Conn
                                /\ h.fd \in owns[link[h.fd]]
                                /\ kind[link[h.fd]] = "stream"
                                /\ AsleepOn(link[h.fd], h.fd)
           /\ h.fd \in Shared => /\ kind[h.fd] = "shared"
                                 /\ kind[h.owner] = "stream" <=> h.owner \in Conn
                                 /\ h.owner \in Conn =>
                                        /\ AsleepOn(h.owner, h.fd)
                                        /\ h.owner \notin Elements(waiting[h.fd])
<1>1. applying # <<>> /\ h.op = "Restore" /\ applying' = Tail(applying)
  BY DEF Applies
<1>2. /\ h \in Update /\ h \in Pending
      /\ \A v \in Pending : v = h \/ Before(h, v)
  BY <1>1, ApplyEffect DEF IInv, Pending
<1>3. CASE h.fd \in Conn
  BY <1>1, <1>2, <1>3, FdAssumption
  DEF IInv, PendingTrue, StreamChange, FdAssumption
<1>4. CASE h.fd \in Owned
  <2>1. PICK c \in Conn : h.fd \in owns[c] /\ AsleepOn(c, h.fd)
    BY <1>1, <1>2, <1>4 DEF IInv, PendingTrue, OwnedChange
  <2>2. \A u \in Pending : u.op = "CreateOwned" => u.fd # h.fd
    BY <1>1, <1>2, <1>4 DEF Before
  <2>3. kind[h.fd] = "owned" /\ link[h.fd] = c /\ kind[c] = "stream"
    <3>1. kind[h.fd] = "owned"
      BY <1>4, FdAssumption DEF IInv, KindTrue, FdAssumption, Fd
    <3>2. EntryOfOwner(h.fd, c) /\ kind[c] = "stream"
      BY <2>1 DEF IInv, OwnedTrue
    <3> QED
      BY <2>2, <3>1, <3>2 DEF EntryOfOwner
  <2> QED
    BY <1>4, <2>1, <2>3, FdAssumption DEF FdAssumption
<1>5. CASE h.fd \in Shared
  <2>1. \A v \in Pending : v.op = "CreateShared" => v.fd # h.fd
    BY <1>1, <1>2, <1>5 DEF Before
  <2>2. SharedChange(h) /\ h.owner \in Fd
    BY <1>1, <1>2 DEF IInv, PendingTrue
  <2>3. kind[h.fd] = "shared"
    BY <1>5, FdAssumption DEF IInv, KindTrue, FdAssumption, Fd
  <2>4. kind[h.owner] = "stream" <=> h.owner \in Conn
    BY <1>1, <1>5, <2>2 DEF SharedChange, IInv, KindTrue
  <2> QED
    BY <1>1, <1>5, <2>2, <2>3, <2>4, FdAssumption DEF SharedChange, FdAssumption
<1> QED
  BY <1>2, <1>3, <1>4, <1>5 DEF Update, Fd

(* A wait begins: the event is added, and for a shared descriptor the       *)
(* coroutine is listed, unless its owner is not a stream.                   *)
LEMMA RestoreKeptIInv ==
    ASSUME IInv, ApplyRestore, kind[Head(applying).fd] # "none" PROVE IInv'
<1>1. PICK h : h = Head(applying)
  OBVIOUS
<1>2. /\ applying # <<>> /\ h.op = "Restore" /\ applying' = Tail(applying)
      /\ Applies("Restore")
      /\ UNCHANGED <<kind, link, updates, jobs, held, stage, task, at, awaits,
                     owns, leased, strayed, ready, pool, peerClosed>>
  BY <1>1 DEF ApplyRestore, Applies, workerVars, coVars, worldVars
<1>3. /\ h \in Update /\ applying' \in Seq(Update) /\ ChangesOrdered'
      /\ Elements(applying) = Elements(applying') \union {h}
      /\ Elements(updates') = Elements(updates)
      /\ Pending = Pending' \union {h}
      /\ \A v \in Pending' : Before(h, v)
  BY <1>1, <1>2, ApplyEffect DEF IInv, Pending
<1>4. PICK f \in Fd : f = h.fd
  BY <1>3 DEF Update
<1>5. /\ f \in Conn => kind[f] = "stream" /\ AsleepOn(f, f)
      /\ f \in Owned => /\ kind[f] = "owned" /\ link[f] \in Conn
                        /\ f \in owns[link[f]] /\ kind[link[f]] = "stream"
                        /\ AsleepOn(link[f], f)
      /\ f \in Shared => /\ kind[f] = "shared"
                         /\ kind[h.owner] = "stream" <=> h.owner \in Conn
                         /\ h.owner \in Conn => /\ AsleepOn(h.owner, f)
                                                /\ h.owner \notin Elements(waiting[f])
  BY <1>1, <1>2, <1>4, RestoreFinds
<1>6. /\ f \in Conn => f \notin Owned /\ f \notin Shared
      /\ f \in Owned => f \notin Shared
      /\ f \in Conn \/ f \in Owned \/ f \in Shared
  BY FdAssumption DEF FdAssumption, Fd
<1>7. /\ armed \subseteq armed' /\ armed' \subseteq armed \union {f}
      /\ waiting' \in [Shared -> Seq(Conn)]
      /\ \A s \in Shared : s # f => waiting'[s] = waiting[s]
      /\ f \in Shared /\ h.owner \notin Conn => waiting'[f] = waiting[f] /\ armed' = armed
      /\ f \in Shared /\ h.owner \in Conn =>
            /\ waiting'[f] = Append(waiting[f], h.owner)
            /\ Elements(waiting'[f]) = Elements(waiting[f]) \union {h.owner}
            /\ Once(waiting'[f])
      /\ f \notin Shared \/ h.owner \in Conn => f \in armed'
  <2>1. CASE f \in Shared /\ h.owner \notin Conn
    <3>1. waiting' = waiting /\ armed' = armed
      BY <1>1, <1>4, <1>5, <2>1 DEF ApplyRestore
    <3> QED
      BY <2>1, <3>1 DEF IInv, TypeOK
  <2>2. CASE f \notin Shared \/ h.owner \in Conn
    <3>1. /\ waiting' = [s \in Shared |->
                IF s = f THEN Append(waiting[s], h.owner) ELSE waiting[s]]
          /\ armed' = armed \union {f}
      BY <1>1, <1>4, <1>5, <1>6, <2>2 DEF ApplyRestore
    <3>2. CASE f \notin Shared
      BY <3>1, <3>2 DEF IInv, TypeOK
    <3>3. CASE f \in Shared /\ h.owner \in Conn
      <4>1. waiting[f] \in Seq(Conn) /\ Once(waiting[f])
        BY <3>3 DEF IInv, TypeOK
      <4>2. /\ Append(waiting[f], h.owner) \in Seq(Conn)
            /\ Elements(Append(waiting[f], h.owner)) = Elements(waiting[f]) \union {h.owner}
            /\ Once(Append(waiting[f], h.owner))
        BY <1>5, <3>3, <4>1, AppendElements, AppendOnce
      <4>3. waiting' \in [Shared -> Seq(Conn)]
        BY <3>1, <4>2 DEF IInv, TypeOK
      <4> QED
        BY <3>1, <3>3, <4>2, <4>3
    <3> QED
      BY <2>2, <3>2, <3>3
  <2> QED
    BY <2>1, <2>2
<1>8. \A d : HandsOff(d) <=> HandsOff(d)'
  BY <1>2 DEF HandsOff
<1>9. \A d, g : AsleepOn(d, g) <=> AsleepOn(d, g)'
  BY <1>2, <1>8 DEF AsleepOn
<1>10. /\ \A u \in Pending : u.op # "Restore" => u \in Pending'
       /\ \A v \in Pending' : v.fd = f =>
            /\ f \notin Conn
            /\ \/ v.op = "Remove"
               \/ /\ v.op = "Restore" /\ f \notin Owned
                  /\ v.owner = h.owner => v.owner \notin Conn
  BY <1>2, <1>3, <1>4, <1>6 DEF Before
<1>11. TypeOK'
  BY <1>2, <1>3, <1>7 DEF IInv, TypeOK
<1>12. KindTrue' /\ OneHolder' /\ JobsTrue' /\ \A w \in Worker : HeldTrue(w)'
  BY <1>2 DEF IInv, KindTrue, OneHolder, JobsTrue, HeldTrue
<1>13. ArmedTrue'
  <2>1. ASSUME NEW d \in armed' \intersect Conn
        PROVE  kind[d] = "stream" /\ AsleepOn(d, d) /\ \A u \in Pending' : u.fd # d
    <3>1. CASE d = f
      BY <1>5, <1>10, <3>1
    <3>2. CASE d # f
      BY <1>3, <1>7, <3>2 DEF IInv, ArmedTrue
    <3> QED
      BY <3>1, <3>2
  <2>2. ASSUME NEW o \in armed' \intersect Owned
        PROVE  /\ kind[o] = "owned"
               /\ link[o] \in Conn /\ kind[link[o]] = "stream" /\ AsleepOn(link[o], o)
               /\ \A u \in Pending' : u.fd = o => u.op # "CreateOwned"
               /\ \A u \in Elements(updates) : u.fd = o => u.op # "Restore"
    <3>1. CASE o = f
      <4>1. \A u \in Elements(updates) : u \in Pending'
        BY <1>3 DEF Pending
      <4> QED
        BY <1>5, <1>10, <3>1, <4>1
    <3>2. CASE o # f
      BY <1>3, <1>7, <3>2 DEF IInv, ArmedTrue
    <3> QED
      BY <3>1, <3>2
  <2> QED
    BY <1>2, <1>9, <2>1, <2>2 DEF ArmedTrue
<1>14. WaitingTrue' /\ \A s \in Shared : Once(waiting'[s])
  <2>1. ASSUME NEW s \in Shared
        PROVE  /\ waiting'[s] # <<>> => kind[s] = "shared"
               /\ \A c \in Elements(waiting'[s]) : kind[c] = "stream" /\ AsleepOn(c, s)
               /\ Once(waiting'[s])
    <3>1. CASE s = f /\ h.owner \in Conn
      BY <1>5, <1>7, <3>1 DEF IInv, WaitingTrue
    <3>2. CASE s # f \/ h.owner \notin Conn
      BY <1>7, <3>2 DEF IInv, WaitingTrue
    <3> QED
      BY <3>1, <3>2
  <2> QED
    BY <1>2, <1>9, <2>1 DEF WaitingTrue
<1>15. OwnedTrue'
  BY <1>2, <1>3, <1>10 DEF IInv, OwnedTrue, EntryOfOwner
<1>16. ConnTrue'
  BY <1>2, <1>8, <1>10 DEF IInv, ConnTrue
<1>17. PoolsMade'
  BY <1>2, <1>10 DEF IInv, PoolsMade
<1>18. PendingTrue'
  <2>1. ASSUME NEW u \in Pending' PROVE StreamChange(u)'
    BY <1>2, <1>3, <1>8, <1>9 DEF IInv, PendingTrue, StreamChange
  <2>2. ASSUME NEW u \in Pending' PROVE OwnedChange(u)'
    <3>1. u.fd \in Owned /\ Restored(u.fd, Elements(applying))
            => (u.fd # f /\ Restored(u.fd, Elements(applying'))) \/ u.op = "Remove"
      BY <1>3, <1>4, <1>10 DEF Restored
    <3>2. u.fd \in Owned /\ u.fd = f => u.op = "Remove"
      BY <1>10
    <3> QED
      BY <1>2, <1>3, <1>9, <3>1, <3>2 DEF IInv, PendingTrue, OwnedChange, Registers
  <2>3. ASSUME NEW u \in Pending' PROVE SharedChange(u)'
    <3>1. ASSUME u.fd \in Shared, u.op = "Restore", u.owner \in Conn
          PROVE  u.owner \notin Elements(waiting'[u.fd])
      <4>1. u.owner \notin Elements(waiting[u.fd])
        BY <1>3, <3>1 DEF IInv, PendingTrue, SharedChange
      <4>2. u.fd = f => u.owner # h.owner
        BY <1>10, <3>1
      <4> QED
        BY <1>7, <3>1, <4>1, <4>2
    <3> QED
      BY <1>2, <1>3, <1>9, <1>10, <3>1 DEF IInv, PendingTrue, SharedChange
  <2> QED
    BY <1>3, <2>1, <2>2, <2>3 DEF IInv, PendingTrue
<1>19. StrayThrow \/ SleeperKnown'
  <2> SUFFICES ASSUME ~StrayThrow PROVE SleeperKnown'
    OBVIOUS
  <2>1. ASSUME NEW d \in Conn, at[d] = "asleep", awaits[d] = f,
               f \in Shared => h.owner = d
        PROVE  WaitPends(d)'
    <3>1. f \in armed'
      BY <1>7, <2>1
    <3>2. f \in Conn => f = d
      BY <1>6, <2>1 DEF IInv, OwnedTrue, EntryOfOwner, TypeOK
    <3>3. f \in Owned => link[f] = d
      BY <1>5, <1>6, <2>1 DEF IInv, OwnedTrue, EntryOfOwner
    <3>4. f \in Shared => d \in Elements(waiting'[f])
      BY <1>7, <2>1
    <3> QED
      BY <1>2, <1>6, <2>1, <3>1, <3>2, <3>3, <3>4 DEF WaitPends
  <2>2. ASSUME NEW d \in Conn, at[d] = "asleep", WaitPends(d),
               awaits[d] # f \/ (f \in Shared /\ h.owner # d)
        PROVE  WaitPends(d)'
    <3>1. \A u \in Pending : u.fd = awaits[d] /\
            (u.op = "Restore" /\ u.fd \in Shared => u.owner = d) => u \in Pending'
      BY <1>2, <1>3, <1>4, <2>2
    <3>2. \A s \in Shared : Elements(waiting[s]) \subseteq Elements(waiting'[s])
      BY <1>7
    <3> QED
      BY <1>2, <1>7, <2>2, <3>1, <3>2 DEF WaitPends
  <2> QED
    BY <1>2, <2>1, <2>2 DEF IInv, SleeperKnown
<1> QED
  BY <1>2, <1>3, <1>7, <1>11, <1>12, <1>13, <1>14, <1>15, <1>16, <1>17, <1>18,
     <1>19 DEF IInv

(* A wait whose entry is gone is dropped: a handler threw in a job of that  *)
(* descriptor before, and had it removed.                                   *)
LEMMA RestoreDroppedIInv ==
    ASSUME IInv, ApplyRestore, kind[Head(applying).fd] = "none" PROVE IInv'
<1>1. PICK h : h = Head(applying)
  OBVIOUS
<1>2. /\ applying # <<>> /\ h.op = "Restore" /\ applying' = Tail(applying)
      /\ kind[h.fd] = "none"
      /\ UNCHANGED <<waiting, armed, kind, link, updates, jobs, held, stage, task,
                     at, awaits, owns, leased, strayed, ready, pool, peerClosed>>
  BY <1>1 DEF ApplyRestore, Applies, workerVars, coVars, worldVars
<1>3. /\ h \in Update /\ applying' \in Seq(Update) /\ ChangesOrdered'
      /\ Elements(applying) = Elements(applying') \union {h}
      /\ Elements(updates') = Elements(updates)
      /\ Pending = Pending' \union {h}
      /\ \A v \in Pending' : Before(h, v)
  BY <1>1, <1>2, ApplyEffect DEF IInv, Pending
<1>4. /\ \A u \in Pending : u.op # "Restore" => u \in Pending'
      /\ \A v \in Pending' : v.fd = h.fd /\ h.fd \in Owned => v.op = "Remove"
      /\ \A v \in Pending' : v.fd = h.fd /\ h.fd \in Shared => v.op # "CreateShared"
  BY <1>2, <1>3 DEF Before
<1>5. h.fd \notin Conn
  BY <1>2, <1>3 DEF IInv, PendingTrue, StreamChange
<1>6. StrayThrow
  <2>1. CASE h.fd \in Owned
    <3>1. PICK c \in Conn : h.fd \in owns[c]
      BY <1>2, <1>3, <2>1 DEF IInv, PendingTrue, OwnedChange
    <3>2. \A u \in Pending : u.op = "CreateOwned" => u.fd # h.fd
      BY <1>4, <2>1
    <3> QED
      BY <1>2, <3>1, <3>2 DEF IInv, OwnedTrue, EntryOfOwner
  <2>2. CASE h.fd \in Shared
    <3>1. \A u \in Pending : u.op = "CreateShared" => u.fd # h.fd
      BY <1>4, <2>2
    <3> QED
      BY <1>2, <1>3, <2>2, <3>1 DEF IInv, PendingTrue, SharedChange
  <2> QED
    BY <1>3, <1>5, <2>1, <2>2 DEF Update, Fd
<1>7. \A d, g : AsleepOn(d, g) <=> AsleepOn(d, g)'
  BY <1>2 DEF AsleepOn, HandsOff
<1>8. \A d : HandsOff(d) <=> HandsOff(d)'
  BY <1>2 DEF HandsOff
<1>9. TypeOK'
  BY <1>2, <1>3 DEF IInv, TypeOK
<1>10. /\ KindTrue' /\ OneHolder' /\ JobsTrue' /\ WaitingTrue'
       /\ \A w \in Worker : HeldTrue(w)'
       /\ \A s \in Shared : Once(waiting'[s])
  BY <1>2, <1>7
  DEF IInv, KindTrue, OneHolder, JobsTrue, WaitingTrue, HeldTrue
<1>11. ArmedTrue'
  BY <1>2, <1>3, <1>7 DEF IInv, ArmedTrue
<1>12. OwnedTrue'
  BY <1>2, <1>3, <1>4 DEF IInv, OwnedTrue, EntryOfOwner
<1>13. ConnTrue'
  BY <1>2, <1>4, <1>8 DEF IInv, ConnTrue
<1>14. PoolsMade'
  BY <1>6 DEF PoolsMade
<1>15. PendingTrue'
  <2>1. ASSUME NEW u \in Pending' PROVE StreamChange(u)'
    BY <1>2, <1>3, <1>7, <1>8 DEF IInv, PendingTrue, StreamChange
  <2>2. ASSUME NEW u \in Pending' PROVE OwnedChange(u)'
    <3>1. u.fd \in Owned /\ u.op # "Remove" /\ Restored(u.fd, Elements(applying))
            => Restored(u.fd, Elements(applying'))
      BY <1>3, <1>4 DEF Restored
    <3> QED
      BY <1>2, <1>3, <1>7, <3>1 DEF IInv, PendingTrue, OwnedChange, Registers
  <2>3. ASSUME NEW u \in Pending' PROVE SharedChange(u)'
    BY <1>2, <1>3, <1>4, <1>7 DEF IInv, PendingTrue, SharedChange
  <2> QED
    BY <1>3, <2>1, <2>2, <2>3 DEF IInv, PendingTrue
<1> QED
  BY <1>2, <1>3, <1>6, <1>9, <1>10, <1>11, <1>12, <1>13, <1>14, <1>15 DEF IInv

(* Either way.                                                              *)
LEMMA RestoreIInv == ASSUME IInv, ApplyRestore PROVE IInv'
BY RestoreKeptIInv, RestoreDroppedIInv

-----------------------------------------------------------------------------
(* The theorems.  All suppose that a worker that registers a descriptor has *)
(* yielded before the control timer runs: without it, OneRunner is false    *)
(* (DescriptorsEarly).  Only the last two suppose that no handler throws in *)
(* a job of another descriptor than its connection: the task that is sent   *)
(* then removes that descriptor, with the waits it keeps.                   *)

(* Each step of the specification keeps the inductive invariant.            *)
LEMMA StepIInv ==
    ASSUME IInv, PromptYield = TRUE, [Next]_vars
    PROVE  IInv'
<1>1. CASE UNCHANGED vars
  <2>1. UNCHANGED <<dataVars, updates, applying, jobs, workerVars, at, awaits,
                    owns, leased, strayed, ready, pool, peerClosed>>
    BY <1>1 DEF vars, coVars, worldVars
  <2>2. TypeOK'
    BY <2>1 DEF IInv, TypeOK, dataVars, workerVars
  <2>3. \A c \in Conn : at[c] \in {"closed", "ended"} => leased'[c] = None
    BY <2>1 DEF IInv, ConnTrue
  <2> QED
    BY <2>1, <2>2, <2>3, QuietIInv
<1>2. ASSUME NEW c \in Conn, Connected(c) \/ handleStreamEvent(c) PROVE IInv'
  BY <1>2, ConnectedIInv, StreamEventIInv
<1>3. ASSUME \/ \E c \in Conn : PeerCloses(c)
             \/ \E f \in Conn \union Owned : BecomesReady(f)
             \/ \E w \in Worker : Lease(w) \/ ReturnLease(w)
      PROVE  IInv'
  BY <1>3, QuietStepIInv
<1>4. ASSUME \/ \E o \in Owned : handleLinkStreamEvent(o)
             \/ \E s \in Shared : handlePipeStreamEvent(s)
      PROVE  IInv'
  BY <1>4, EventsIInv
<1>5. ASSUME NEW s \in Shared, registerSharedSocket(s) PROVE IInv'
  BY <1>5, SharedSocketIInv
<1>6. CASE Tick
  BY <1>6, TickIInv
<1>7. CASE Apply
  BY <1>7, CreateStreamIInv, CreateOwnedIInv, CreateSharedIInv, RemoveIInv,
     ExternallyClosedIInv, RestoreIInv DEF Apply
<1>8. ASSUME NEW w \in Worker, Resume(w) \/ PostTask(w) PROVE IInv'
  BY <1>8, ResumeIInv, PostTaskIInv
<1>9. ASSUME NEW w \in Worker,
             YieldRegistered(w) \/ Await(w) \/ AwaitShared(w)
      PROVE  IInv'
  BY <1>9, WaitsIInv
<1>10. ASSUME NEW w \in Worker,
              registerYield(w) \/ unregisterYield(w) \/ Finish(w) \/ HandlerThrows(w)
       PROVE  IInv'
  BY <1>10, RegisterIInv, UnregisterIInv, FinishIInv
<1>11. CASE Next
  BY <1>2, <1>3, <1>4, <1>5, <1>6, <1>7, <1>8, <1>9, <1>10, <1>11 DEF Next, Handler
<1> QED
  BY <1>1, <1>11

(* So it holds in every state.                                              *)
LEMMA Invariance ==
    ASSUME PromptYield = TRUE
    PROVE  Spec => []IInv
<1>1. IInv /\ [Next]_vars => IInv'
  BY StepIInv
<1> QED
  BY InitIInv, <1>1, PTL DEF Spec

(* Store's entries, the events, the changes, the jobs and what workers and  *)
(* coroutines hold have their types in every state.                         *)
THEOREM TypeCorrect ==
    ASSUME PromptYield = TRUE
    PROVE  Spec => []TypeOK
<1>1. IInv => TypeOK
  BY DEF IInv
<1> QED
  BY Invariance, <1>1, PTL

(* No two threads are ever inside one coroutine, through however many       *)
(* descriptors, its own, owned or shared, it can be resumed.                *)
THEOREM RunsAlone ==
    ASSUME PromptYield = TRUE
    PROVE  Spec => []OneRunner
<1>1. IInv => OneRunner
  <2> SUFFICES ASSUME IInv, NEW v \in Inside, NEW w \in Inside,
                      held[v].co = held[w].co
               PROVE  v = w
    BY DEF OneRunner
  <2>1. v \in Worker /\ w \in Worker /\ stage[v] # "idle"
    BY DEF Inside
  <2>2. held[v] # NoJob
    BY <2>1 DEF IInv, HeldTrue
  <2> QED
    BY <2>1, <2>2 DEF IInv, OneHolder
<1> QED
  BY Invariance, <1>1, PTL

(* A job finds its coroutine asleep on the descriptor it is for, and it is  *)
(* the only one of that coroutine: no event of a closed and reused          *)
(* descriptor, nor of an earlier wait, resumes anything.                    *)
THEOREM JobsResumeTheirWait ==
    ASSUME PromptYield = TRUE
    PROVE  Spec => []ResumesItsWait
<1>1. IInv => ResumesItsWait
  BY DEF IInv, ResumesItsWait, JobsTrue, OneJob
<1> QED
  BY Invariance, <1>1, PTL

(* No pointer to a coroutine that Store, an event or a job keeps outlives   *)
(* the coroutine's entry in the map.                                        *)
THEOREM PointersLive ==
    ASSUME PromptYield = TRUE
    PROVE  Spec => []NoDangling
<1>1. IInv => NoDangling
  <2> SUFFICES ASSUME IInv PROVE NoDangling
    OBVIOUS
  <2>1. \A o \in armed \intersect Owned : kind[link[o]] = "stream"
    BY DEF IInv, ArmedTrue
  <2>2. \A s \in Shared : \A c \in Elements(waiting[s]) : kind[c] = "stream"
    BY DEF IInv, WaitingTrue
  <2>3. \A j \in Elements(jobs) : kind[j.co] = "stream"
    BY DEF IInv, JobsTrue
  <2>4. \A w \in Worker : held[w] # NoJob => kind[held[w].co] = "stream"
    BY DEF IInv, HeldTrue
  <2> QED
    BY <2>1, <2>2, <2>3, <2>4 DEF NoDangling
<1> QED
  BY Invariance, <1>1, PTL

(* Whoever sleeps is listed where what it waits for will look: no wait is   *)
(* lost, but for the one Store.cpp:239 drops.                               *)
THEOREM NoWaitLost ==
    ASSUME PromptYield = TRUE, StrayThrow = FALSE
    PROVE  Spec => []SleeperKnown
<1>1. IInv => SleeperKnown
  BY DEF IInv
<1> QED
  BY Invariance, <1>1, PTL

(* A coroutine that has ended, in whatever job, is on its way out of the    *)
(* map.                                                                     *)
THEOREM EndedOnItsWay ==
    ASSUME PromptYield = TRUE, StrayThrow = FALSE
    PROVE  Spec => []EndedLeaves
<1>1. IInv => EndedLeaves
  <2> SUFFICES ASSUME IInv, NEW c \in Conn, at[c] = "ended"
               PROVE  \/ \E w \in Worker : held[w].co = c
                      \/ \E u \in Pending : u.op = "Remove" /\ u.fd = c
    BY DEF EndedLeaves
  <2>1. \A j \in Elements(jobs) : j.co # c
    BY DEF IInv, JobsTrue
  <2> QED
    BY <2>1 DEF IInv, ConnTrue, HandsOff
<1> QED
  BY Invariance, <1>1, PTL
=============================================================================
