-------------------------- MODULE EventStreamProofs --------------------------
(***************************************************************************)
(* What holds of EventStream for every set of requests and pages and for   *)
(* every bound.  TypeOK is proved first; SentOnce needs to know that an    *)
(* event is published before it is stored, and by one request only, which  *)
(* the invariant Inv says.                                                 *)
(***************************************************************************)
EXTENDS EventStream, FiniteSetTheorems, TLAPS

-----------------------------------------------------------------------------
(***************************************************************************)
(* Sequences.                                                              *)
(***************************************************************************)

\* Appending to a sequence adds one element to its range.
LEMMA AppendFacts ==
    ASSUME NEW S, NEW q \in Seq(S), NEW x \in S
    PROVE  /\ Append(q, x) \in Seq(S)
           /\ Range(Append(q, x)) = Range(q) \cup {x}
           /\ IsInjective(q) /\ x \notin Range(q) => IsInjective(Append(q, x))
<1> DEFINE a == Append(q, x)
<1>1. /\ a \in Seq(S)
      /\ Len(a) = Len(q) + 1
      /\ DOMAIN a = 1..(Len(q) + 1)
      /\ DOMAIN q = 1..Len(q)
      /\ Len(q) \in Nat
      /\ \A i \in 1..Len(q) : a[i] = q[i]
      /\ a[Len(q) + 1] = x
  OBVIOUS
<1> HIDE DEF a
<1>2. Range(a) = Range(q) \cup {x}
  <2>1. ASSUME NEW y \in Range(a) PROVE y \in Range(q) \cup {x}
    <3>1. PICK i \in DOMAIN a : a[i] = y
      BY <2>1 DEF Range
    <3>2. CASE i = Len(q) + 1
      BY <1>1, <3>1, <3>2
    <3>3. CASE i # Len(q) + 1
      <4>1. i \in 1..Len(q)
        BY <1>1, <3>3
      <4> QED
        BY <1>1, <3>1, <4>1 DEF Range
    <3> QED
      BY <3>2, <3>3
  <2>2. x \in Range(a)
    <3>1. Len(q) + 1 \in DOMAIN a
      BY <1>1
    <3> QED
      BY <1>1, <3>1 DEF Range
  <2>3. ASSUME NEW y \in Range(q) PROVE y \in Range(a)
    <3>1. PICK i \in DOMAIN q : q[i] = y
      BY <2>3 DEF Range
    <3>2. i \in DOMAIN a /\ a[i] = y
      BY <1>1, <3>1
    <3> QED
      BY <3>2 DEF Range
  <2> QED
    BY <2>1, <2>2, <2>3
<1>3. ASSUME IsInjective(q), x \notin Range(q)
      PROVE  IsInjective(a)
  <2> SUFFICES ASSUME NEW i \in DOMAIN a, NEW j \in DOMAIN a, a[i] = a[j]
               PROVE  i = j
    BY DEF IsInjective
  <2>1. \A k \in 1..Len(q) : q[k] \in Range(q)
    BY <1>1 DEF Range
  <2>2. CASE i \in 1..Len(q) /\ j \in 1..Len(q)
    BY <1>1, <1>3, <2>2 DEF IsInjective
  <2>3. CASE i = Len(q) + 1 /\ j \in 1..Len(q)
    BY <1>1, <1>3, <2>1, <2>3
  <2>4. CASE j = Len(q) + 1 /\ i \in 1..Len(q)
    BY <1>1, <1>3, <2>1, <2>4
  <2>5. \A k \in DOMAIN a : k = Len(q) + 1 \/ k \in 1..Len(q)
    BY <1>1
  <2> QED
    BY <2>2, <2>3, <2>4, <2>5
<1> QED
  BY <1>1, <1>2, <1>3 DEF a

\* Taking the head off a sequence.
LEMMA TailFacts ==
    ASSUME NEW S, NEW q \in Seq(S), q # <<>>
    PROVE  /\ Head(q) \in S
           /\ Tail(q) \in Seq(S)
           /\ Range(q) = Range(Tail(q)) \cup {Head(q)}
           /\ IsInjective(q) => /\ IsInjective(Tail(q))
                                /\ Head(q) \notin Range(Tail(q))
<1> DEFINE t == Tail(q)
<1>1. /\ Head(q) \in S
      /\ t \in Seq(S)
      /\ Len(q) \in Nat
      /\ Len(q) > 0
      /\ DOMAIN t = 1..(Len(q) - 1)
      /\ DOMAIN q = 1..Len(q)
      /\ \A i \in 1..(Len(q) - 1) : t[i] = q[i + 1]
      /\ Head(q) = q[1]
  OBVIOUS
<1> HIDE DEF t
<1>2. Range(q) = Range(t) \cup {Head(q)}
  <2>1. ASSUME NEW y \in Range(q) PROVE y \in Range(t) \cup {Head(q)}
    <3>1. PICK i \in DOMAIN q : q[i] = y
      BY <2>1 DEF Range
    <3>2. CASE i = 1
      BY <1>1, <3>1, <3>2
    <3>3. CASE i # 1
      <4>1. i - 1 \in DOMAIN t /\ t[i - 1] = q[i]
        BY <1>1, <3>3
      <4> QED
        BY <3>1, <4>1 DEF Range
    <3> QED
      BY <3>2, <3>3
  <2>2. Head(q) \in Range(q)
    BY <1>1 DEF Range
  <2>3. ASSUME NEW y \in Range(t) PROVE y \in Range(q)
    <3>1. PICK i \in DOMAIN t : t[i] = y
      BY <2>3 DEF Range
    <3>2. i + 1 \in DOMAIN q /\ q[i + 1] = y
      BY <1>1, <3>1
    <3> QED
      BY <3>2 DEF Range
  <2> QED
    BY <2>1, <2>2, <2>3
<1>3. ASSUME IsInjective(q)
      PROVE  IsInjective(t) /\ Head(q) \notin Range(t)
  <2>1. \A i \in DOMAIN t : i \in Nat /\ i + 1 \in DOMAIN q /\ i + 1 # 1
    BY <1>1
  <2>2. 1 \in DOMAIN q
    BY <1>1
  <2>3. IsInjective(t)
    <3> SUFFICES ASSUME NEW i \in DOMAIN t, NEW j \in DOMAIN t, t[i] = t[j]
                 PROVE  i = j
      BY DEF IsInjective
    <3>1. q[i + 1] = q[j + 1]
      BY <1>1
    <3>2. i + 1 = j + 1
      BY <1>3, <2>1, <3>1 DEF IsInjective
    <3> QED
      BY <2>1, <3>2
  <2>4. Head(q) \notin Range(t)
    <3> SUFFICES ASSUME NEW i \in DOMAIN t, t[i] = Head(q)
                 PROVE  FALSE
      BY DEF Range
    <3>1. q[i + 1] = q[1]
      BY <1>1
    <3> QED
      BY <1>3, <2>1, <2>2, <3>1 DEF IsInjective
  <2> QED
    BY <2>3, <2>4
<1> QED
  BY <1>1, <1>2, <1>3 DEF t

\* An increasing sequence of events repeats nothing.
LEMMA BacklogFacts ==
    ASSUME NEW E \in SUBSET Events, NEW b \in Backlogs(E)
    PROVE  b \in Seq(Events) /\ IsInjective(b) /\ Range(b) \subseteq E
<1> DEFINE oldest == Oldest(E, BacklogLimit)
<1>1. oldest \subseteq E
  BY DEF Oldest
<1>2. /\ b \in [1..Cardinality(oldest) -> oldest]
      /\ \A i, j \in DOMAIN b : i < j => b[i] < b[j]
  BY DEF Backlogs
<1>3. DOMAIN b = 1..Cardinality(oldest) /\ \A i \in DOMAIN b : b[i] \in E
  BY <1>1, <1>2
<1>4. Cardinality(oldest) \in Nat
  <2>1. IsFiniteSet(Events)
    BY FS_Interval, BoundsAssumption DEF Events
  <2>2. IsFiniteSet(oldest)
    BY <1>1, <2>1, FS_Subset
  <2> QED
    BY <2>2, FS_CardinalityType
<1> HIDE DEF oldest
<1>5. b \in Seq(Events)
  BY <1>2, <1>1, <1>4
<1>6. Range(b) \subseteq E
  BY <1>3 DEF Range
<1>7. IsInjective(b)
  <2> SUFFICES ASSUME NEW i \in DOMAIN b, NEW j \in DOMAIN b, b[i] = b[j]
               PROVE  i = j
    BY DEF IsInjective
  <2>1. i \in Nat /\ j \in Nat
    BY <1>3, <1>4
  <2>2. b[i] \in Nat /\ b[j] \in Nat
    <3>1. b[i] \in 1..MaxEvents /\ b[j] \in 1..MaxEvents
      BY <1>3 DEF Events
    <3> QED
      BY <3>1, BoundsAssumption
  <2>3. ~(i < j) /\ ~(j < i)
    BY <1>2, <2>2
  <2> QED
    BY <2>1, <2>3
<1> QED
  BY <1>5, <1>6, <1>7

-----------------------------------------------------------------------------
(***************************************************************************)
(* Types.                                                                  *)
(***************************************************************************)

LEMMA RequestKeepsTypes ==
    ASSUME TypeOK, NEW r \in Requests, AppendEvent(r) \/ Finish(r),
           \A q \in Requests : phase[q] = "publishing" => Newest(q) \in Events
    PROVE  TypeOK'
<1>1. CASE AppendEvent(r)
  <2>1. appended + 1 \in Events /\ appended + 1 \in 0..MaxEvents
    BY <1>1, BoundsAssumption DEF TypeOK, AppendEvent, Events
  <2> QED
    BY <1>1, <2>1 DEF TypeOK, AppendEvent, sockets, browsers
<1>2. CASE Publish(r)
  <2>1. Newest(r) \in Events
    BY <1>2 DEF Publish
  <2>2. \A s \in Sockets : Append(queue[s], Newest(r)) \in Seq(Events)
    BY <2>1, AppendFacts DEF TypeOK
  <2>3. queue' \in [Sockets -> Seq(Events)]
    BY <1>2, <2>2 DEF TypeOK, Publish
  <2> QED
    BY <1>2, <2>3 DEF TypeOK, Publish, browsers
<1>3. CASE Commit(r)
  BY <1>3 DEF TypeOK, Commit, sockets, browsers
<1>4. CASE Rollback(r)
  BY <1>4 DEF TypeOK, Rollback, sockets, browsers
<1> QED
  BY <1>1, <1>2, <1>3, <1>4 DEF Finish

LEMMA PageKeepsTypes ==
    ASSUME TypeOK, NEW p \in Pages, Connect(p) \/ Disconnect(p) \/ Fetch(p)
    PROVE  TypeOK'
<1>1. CASE Connect(p)
  <2>1. attempt[p] + 1 \in 0..MaxAttempts
    BY <1>1, BoundsAssumption DEF TypeOK, Connect
  <2> QED
    BY <1>1, <2>1 DEF TypeOK, Connect, requests
<1>2. CASE Disconnect(p)
  BY <1>2 DEF TypeOK, Disconnect, requests, sockets
<1>3. CASE Fetch(p)
  <2>1. Oldest(stored, PageLimit) \in SUBSET Events
    BY DEF TypeOK, Oldest
  <2> QED
    BY <1>3, <2>1 DEF TypeOK, Fetch, requests, sockets
<1> QED
  BY <1>1, <1>2, <1>3

LEMMA SocketKeepsTypes ==
    ASSUME TypeOK, NEW s \in Sockets, Serve(s) \/ SubscriptionBreaks(s)
    PROVE  TypeOK'
<1>1. CASE Accept(s)
  <2>1. PICK b \in Backlogs(stored) : queue' = [queue EXCEPT ![s] = b]
    BY <1>1 DEF Accept
  <2>2. b \in Seq(Events)
    BY BacklogFacts DEF TypeOK
  <2> QED
    BY <1>1, <2>1, <2>2 DEF TypeOK, Accept, requests, browsers
<1>2. CASE Send(s)
  <2>1. queue[s] \in Seq(Events) /\ queue[s] # <<>>
    BY <1>2 DEF TypeOK, Send
  <2>2. Head(queue[s]) \in Events /\ Tail(queue[s]) \in Seq(Events)
    BY <2>1, TailFacts
  <2>3. Append(received[s], Head(queue[s])) \in Seq(Events)
    BY <2>2, AppendFacts DEF TypeOK
  <2>4. queue' \in [Sockets -> Seq(Events)]
    <3>1. PICK q \in Seq(Events) : queue' = [queue EXCEPT ![s] = q]
      <4>1. CASE Alive(s)
        BY <1>2, <2>2, <4>1 DEF Send
      <4>2. CASE ~Alive(s)
        <5>1. <<>> \in Seq(Events)
          OBVIOUS
        <5> QED
          BY <1>2, <4>2, <5>1 DEF Send
      <4> QED
        BY <4>1, <4>2
    <3> QED
      BY <3>1 DEF TypeOK
  <2>5. received' \in [Sockets -> Seq(Events)]
    BY <1>2, <2>3 DEF TypeOK, Send
  <2>6. handler' \in [Sockets -> {"none", "accepting", "backlog", "live",
                                  "ended"}]
    BY <1>2 DEF TypeOK, Send
  <2> QED
    BY <1>2, <2>4, <2>5, <2>6 DEF TypeOK, Send, requests, browsers
<1>3. CASE Subscribe(s)
  BY <1>3 DEF TypeOK, Subscribe, requests, browsers
<1>4. CASE SubscriptionBreaks(s)
  <2>1. s[1] \in Pages
    BY DEF Sockets
  <2>2. (open[s[1]] /\ attempt[s[1]] # s[2]) \in BOOLEAN
    OBVIOUS
  <2>3. open' \in [Pages -> BOOLEAN]
    BY <1>4, <2>1, <2>2 DEF TypeOK, SubscriptionBreaks
  <2> QED
    BY <1>4, <2>3 DEF TypeOK, SubscriptionBreaks, requests
<1> QED
  BY <1>1, <1>2, <1>3, <1>4 DEF Serve

-----------------------------------------------------------------------------
(***************************************************************************)
(* The invariant.                                                          *)
(***************************************************************************)

\* Two requests never append the same event, none appends an event of the
\* future, and one that publishes has a newest event.
PendingApart ==
    \A q, r \in Requests : q # r => pending[q] \cap pending[r] = {}
PendingPast ==
    \A r \in Requests :
        /\ pending[r] \subseteq 1..appended
        /\ phase[r] = "publishing" =>
              \E e \in pending[r] : \A d \in pending[r] : d <= e

\* A stored event belongs to a request that has committed.
StoredIsCommitted ==
    \A e \in stored :
        \E r \in Requests : phase[r] = "committed" /\ e \in pending[r]

\* No event is on a socket before it is published.
SentOn(s) == Range(received[s]) \cup Range(queue[s])
SentPast == \A s \in Sockets : SentOn(s) \subseteq 1..appended
NewestUnsent ==
    \A r \in Requests, s \in Sockets :
        phase[r] = "publishing" => Newest(r) \notin SentOn(s)

\* A handler that has not accepted its socket has sent nothing, and there is
\* none for a later attempt of its page.
Untouched ==
    \A s \in Sockets :
        /\ handler[s] \in {"none", "accepting"} =>
              received[s] = <<>> /\ queue[s] = <<>>
        /\ attempt[s[1]] < s[2] => handler[s] = "none"

Inv == /\ TypeOK
       /\ PendingApart
       /\ PendingPast
       /\ StoredIsCommitted
       /\ SentPast
       /\ NewestUnsent
       /\ Untouched
       /\ SentOnce

\* What Newest chooses.
LEMMA NewestFacts ==
    ASSUME PendingPast, NEW r \in Requests, phase[r] = "publishing"
    PROVE  Newest(r) \in pending[r] /\ \A d \in pending[r] : d <= Newest(r)
BY DEF PendingPast, Newest

LEMMA EmptyFacts == Range(<<>>) = {} /\ IsInjective(<<>>)
BY DEF Range, IsInjective

LEMMA InvInit == Init => Inv
<1> SUFFICES ASSUME Init PROVE Inv
  OBVIOUS
<1>1. TypeOK
  BY BoundsAssumption DEF Init, TypeOK
<1>2. PendingApart /\ PendingPast /\ StoredIsCommitted
  BY DEF Init, PendingApart, PendingPast, StoredIsCommitted
<1>3. SentPast /\ NewestUnsent /\ SentOnce
  BY EmptyFacts DEF Init, SentPast, NewestUnsent, SentOnce, SentOn
<1>4. Untouched
  BY DEF Init, Untouched
<1> QED
  BY <1>1, <1>2, <1>3, <1>4 DEF Inv

LEMMA NewestTyped ==
    ASSUME Inv
    PROVE  \A q \in Requests : phase[q] = "publishing" => Newest(q) \in Events
<1> SUFFICES ASSUME NEW q \in Requests, phase[q] = "publishing"
             PROVE  Newest(q) \in Events
  OBVIOUS
<1>1. Newest(q) \in pending[q]
  BY NewestFacts DEF Inv
<1> QED
  BY <1>1 DEF Inv, TypeOK

LEMMA AppendKeepsInv ==
    ASSUME Inv, NEW r \in Requests, AppendEvent(r)
    PROVE  Inv'
<1> DEFINE e == appended + 1
<1>1. /\ appended \in Nat
      /\ appended' = e
      /\ phase[r] \in {"idle", "working"}
      /\ pending' = [pending EXCEPT ![r] = @ \cup {e}]
      /\ phase' = [phase EXCEPT ![r] = "publishing"]
      /\ UNCHANGED <<stored, handler, queue, received, attempt, open, fetched>>
  BY BoundsAssumption DEF AppendEvent, Inv, TypeOK, sockets, browsers
<1>2. TypeOK'
  BY NewestTyped, RequestKeepsTypes DEF Inv
<1>3. /\ pending'[r] = pending[r] \cup {e}
      /\ phase'[r] = "publishing"
      /\ \A q \in Requests \ {r} :
            pending'[q] = pending[q] /\ phase'[q] = phase[q]
  BY <1>1 DEF Inv, TypeOK
<1>4. \A q \in Requests : pending[q] \subseteq 1..appended
  BY DEF Inv, PendingPast
<1>5. /\ \A q \in Requests : e \notin pending[q]
      /\ 1..appended \subseteq 1..e
      /\ e \in 1..e
      /\ \A d \in 1..e : d <= e
      /\ \A d \in 1..appended : ~(e <= d)
  BY <1>1, <1>4
<1>6. PendingApart'
  BY <1>3, <1>5 DEF Inv, PendingApart
<1>7. PendingPast'
  <2> SUFFICES ASSUME NEW q \in Requests
               PROVE  /\ pending'[q] \subseteq 1..e
                      /\ phase'[q] = "publishing" =>
                            \E f \in pending'[q] :
                                \A d \in pending'[q] : d <= f
    BY <1>1 DEF PendingPast
  <2>1. pending'[q] \subseteq 1..e
    BY <1>3, <1>4, <1>5
  <2>2. CASE q = r
    <3>1. e \in pending'[q] /\ \A d \in pending'[q] : d <= e
      BY <1>3, <1>5, <2>1, <2>2
    <3> QED
      BY <2>1, <3>1
  <2>3. CASE q # r
    BY <1>3, <2>1, <2>3 DEF Inv, PendingPast
  <2> QED
    BY <2>2, <2>3
<1>8. StoredIsCommitted'
  <2> SUFFICES ASSUME NEW f \in stored
               PROVE  \E q \in Requests :
                          phase'[q] = "committed" /\ f \in pending'[q]
    BY <1>1 DEF StoredIsCommitted
  <2>1. PICK q \in Requests : phase[q] = "committed" /\ f \in pending[q]
    BY DEF Inv, StoredIsCommitted
  <2>2. q # r
    BY <1>1, <2>1
  <2> QED
    BY <1>3, <2>1, <2>2
<1>9. \A s \in Sockets :
          SentOn(s)' = SentOn(s) /\ SentOn(s) \subseteq 1..appended
  BY <1>1 DEF SentOn, Inv, SentPast
<1>10. SentPast'
  BY <1>1, <1>5, <1>9 DEF SentPast
<1>11. NewestUnsent'
  <2> SUFFICES ASSUME NEW q \in Requests, NEW s \in Sockets,
                      phase'[q] = "publishing"
               PROVE  Newest(q)' \notin SentOn(s)
    BY <1>9 DEF NewestUnsent
  <2>1. CASE q = r
    <3>1. /\ Newest(q)' \in pending'[q]
          /\ \A d \in pending'[q] : d <= Newest(q)'
      BY <1>7, <2>1, <1>3 DEF PendingPast, Newest
    <3>2. e <= Newest(q)'
      BY <1>3, <2>1, <3>1
    <3> QED
      BY <1>5, <1>9, <3>2
  <2>2. CASE q # r
    <3>1. Newest(q)' = Newest(q)
      BY <1>3, <2>2 DEF Newest
    <3> QED
      BY <1>3, <2>2, <3>1 DEF Inv, NewestUnsent
  <2> QED
    BY <2>1, <2>2
<1>12. Untouched' /\ SentOnce'
  BY <1>1 DEF Inv, Untouched, SentOnce
<1> QED
  BY <1>2, <1>6, <1>7, <1>8, <1>10, <1>11, <1>12 DEF Inv

LEMMA PublishKeepsInv ==
    ASSUME Inv, NEW r \in Requests, Publish(r)
    PROVE  Inv'
<1>1. /\ phase[r] = "publishing"
      /\ phase' = [phase EXCEPT ![r] = "working"]
      /\ UNCHANGED <<appended, pending, stored, handler, received, attempt,
                     open, fetched>>
  BY DEF Publish, browsers
<1>2. TypeOK'
  BY NewestTyped, RequestKeepsTypes DEF Inv, Finish
<1>3. Newest(r) \in pending[r] /\ Newest(r) \in Events
  BY <1>1, NewestFacts, NewestTyped DEF Inv
<1>4. \A q \in Requests : phase'[q] = "publishing" =>
          q # r /\ phase[q] = "publishing"
  BY <1>1 DEF Inv, TypeOK
<1>5. \A q \in Requests : Newest(q)' = Newest(q)
  BY <1>1 DEF Newest
<1>6. ASSUME NEW s \in Sockets
      PROVE  \/ queue'[s] = queue[s]
             \/ handler[s] = "live" /\ queue'[s] = Append(queue[s], Newest(r))
  BY DEF Publish
<1>7. ASSUME NEW s \in Sockets
      PROVE  /\ SentOn(s)' \subseteq SentOn(s) \cup {Newest(r)}
             /\ IsInjective(queue'[s])
             /\ Range(received[s]) \cap Range(queue'[s]) = {}
  <2>1. queue[s] \in Seq(Events)
    BY DEF Inv, TypeOK
  <2>2. /\ IsInjective(queue[s])
        /\ Range(received[s]) \cap Range(queue[s]) = {}
        /\ Newest(r) \notin Range(received[s]) \cup Range(queue[s])
    BY <1>1 DEF Inv, SentOnce, NewestUnsent, SentOn
  <2>3. CASE queue'[s] = queue[s]
    BY <1>1, <2>2, <2>3 DEF SentOn
  <2>4. CASE queue'[s] = Append(queue[s], Newest(r))
    <3>1. /\ Range(queue'[s]) = Range(queue[s]) \cup {Newest(r)}
          /\ IsInjective(queue'[s])
      BY <1>3, <2>1, <2>2, <2>4, AppendFacts
    <3> QED
      BY <1>1, <2>2, <3>1 DEF SentOn
  <2> QED
    BY <1>6, <2>3, <2>4
<1>8. PendingApart' /\ PendingPast'
  BY <1>1, <1>4 DEF Inv, PendingApart, PendingPast
<1>9. StoredIsCommitted'
  <2>1. \A q \in Requests : phase[q] = "committed" => phase'[q] = "committed"
    BY <1>1 DEF Inv, TypeOK
  <2> QED
    BY <1>1, <2>1 DEF Inv, StoredIsCommitted
<1>10. SentPast'
  <2>1. Newest(r) \in 1..appended
    BY <1>3 DEF Inv, PendingPast
  <2> QED
    BY <1>1, <1>7, <2>1 DEF Inv, SentPast
<1>11. NewestUnsent'
  <2> SUFFICES ASSUME NEW q \in Requests, NEW s \in Sockets,
                      phase'[q] = "publishing"
               PROVE  Newest(q) \notin SentOn(s)'
    BY <1>5 DEF NewestUnsent
  <2>1. Newest(q) \in pending[q] /\ q # r
    BY <1>4, NewestFacts DEF Inv
  <2>2. Newest(q) # Newest(r)
    BY <1>3, <2>1 DEF Inv, PendingApart
  <2>3. Newest(q) \notin SentOn(s)
    BY <1>4 DEF Inv, NewestUnsent
  <2> QED
    BY <1>7, <2>2, <2>3
<1>12. Untouched'
  BY <1>1, <1>6 DEF Inv, Untouched
<1>13. SentOnce'
  BY <1>1, <1>7 DEF Inv, SentOnce
<1> QED
  BY <1>2, <1>8, <1>9, <1>10, <1>11, <1>12, <1>13 DEF Inv

LEMMA EndKeepsInv ==
    ASSUME Inv, NEW r \in Requests, Commit(r) \/ Rollback(r)
    PROVE  Inv'
<1>1. /\ phase[r] \in {"working", "publishing"}
      /\ UNCHANGED <<appended, pending, handler, queue, received, attempt,
                     open, fetched>>
  BY DEF Commit, Rollback, sockets, browsers
<1>2. TypeOK'
  BY NewestTyped, RequestKeepsTypes DEF Inv, Finish
<1>3. /\ phase'[r] # "publishing"
      /\ \A q \in Requests \ {r} : phase'[q] = phase[q]
  BY DEF Inv, TypeOK, Commit, Rollback
<1>4. PendingApart' /\ PendingPast'
  BY <1>1, <1>3 DEF Inv, PendingApart, PendingPast
<1>5. StoredIsCommitted'
  <2>1. ASSUME NEW e \in stored
        PROVE  \E q \in Requests : phase'[q] = "committed" /\ e \in pending[q]
    <3>1. PICK q \in Requests : phase[q] = "committed" /\ e \in pending[q]
      BY DEF Inv, StoredIsCommitted
    <3> QED
      BY <1>1, <1>3, <3>1
  <2>2. CASE Commit(r)
    <3>1. phase'[r] = "committed" /\ stored' = stored \cup pending[r]
      BY <2>2 DEF Commit, Inv, TypeOK
    <3> QED
      BY <1>1, <2>1, <3>1 DEF StoredIsCommitted
  <2>3. CASE Rollback(r)
    <3>1. stored' = stored
      BY <2>3 DEF Rollback
    <3> QED
      BY <1>1, <2>1, <3>1 DEF StoredIsCommitted
  <2> QED
    BY <2>2, <2>3
<1>6. \A s \in Sockets : SentOn(s)' = SentOn(s)
  BY <1>1 DEF SentOn
<1>7. \A q \in Requests : Newest(q)' = Newest(q)
  BY <1>1 DEF Newest
<1>8. SentPast' /\ NewestUnsent'
  BY <1>1, <1>3, <1>6, <1>7 DEF Inv, SentPast, NewestUnsent
<1>9. Untouched' /\ SentOnce'
  BY <1>1 DEF Inv, Untouched, SentOnce
<1> QED
  BY <1>2, <1>4, <1>5, <1>8, <1>9 DEF Inv

\* What is said of the requests alone survives the steps of the others.
LEMMA RequestsApart ==
    ASSUME Inv, UNCHANGED requests
    PROVE  /\ PendingApart' /\ PendingPast' /\ StoredIsCommitted'
           /\ \A r \in Requests : Newest(r)' = Newest(r)
BY DEF requests, Inv, PendingApart, PendingPast, StoredIsCommitted, Newest

LEMMA PageKeepsInv ==
    ASSUME Inv, NEW p \in Pages, Connect(p) \/ Disconnect(p) \/ Fetch(p)
    PROVE  Inv'
<1>1. UNCHANGED requests /\ UNCHANGED <<queue, received>>
  BY DEF Connect, Disconnect, Fetch, sockets
<1>2. TypeOK'
  BY PageKeepsTypes DEF Inv
<1>3. SentPast' /\ NewestUnsent' /\ SentOnce'
  BY <1>1, RequestsApart
     DEF requests, Inv, SentPast, NewestUnsent, SentOnce, SentOn
<1>4. Untouched'
  <2>1. CASE Connect(p)
    <3> DEFINE new == <<p, attempt[p] + 1>>
    <3>1. /\ handler' = [handler EXCEPT ![new] = "accepting"]
          /\ attempt' = [attempt EXCEPT ![p] = @ + 1]
          /\ attempt[p] \in Nat
          /\ attempt[p] < MaxAttempts
      BY <2>1, BoundsAssumption DEF Connect, Inv, TypeOK
    <3>2. new \in Sockets /\ new[1] = p /\ new[2] = attempt[p] + 1
      BY <3>1, BoundsAssumption DEF Sockets
    <3> HIDE DEF new
    <3>3. handler[new] = "none"
      BY <3>1, <3>2 DEF Inv, Untouched
    <3> SUFFICES ASSUME NEW s \in Sockets
                 PROVE  /\ handler'[s] \in {"none", "accepting"} =>
                              received[s] = <<>> /\ queue[s] = <<>>
                        /\ attempt'[s[1]] < s[2] => handler'[s] = "none"
      BY <1>1 DEF Untouched
    <3>4. CASE s = new
      <4>1. handler'[s] = "accepting" /\ attempt'[s[1]] = s[2]
        BY <3>1, <3>2, <3>4 DEF Inv, TypeOK
      <4>2. received[s] = <<>> /\ queue[s] = <<>>
        BY <3>3, <3>4 DEF Inv, Untouched
      <4>3. ~(attempt'[s[1]] < s[2])
        BY <3>1, <3>2, <3>4, <4>1
      <4> QED
        BY <4>2, <4>3
    <3>5. CASE s # new
      <4>1. handler'[s] = handler[s]
        BY <3>1, <3>5 DEF Inv, TypeOK
      <4>2. /\ s[1] \in Pages
            /\ s[2] \in Nat
            /\ attempt[s[1]] \in Nat
            /\ attempt'[s[1]] \in Nat
            /\ attempt[s[1]] <= attempt'[s[1]]
        BY <3>1, BoundsAssumption DEF Inv, TypeOK, Sockets
      <4>3. attempt'[s[1]] < s[2] => attempt[s[1]] < s[2]
        BY <4>2
      <4> QED
        BY <4>1, <4>3 DEF Inv, Untouched
    <3> QED
      BY <3>4, <3>5
  <2>2. CASE Disconnect(p) \/ Fetch(p)
    BY <2>2 DEF Disconnect, Fetch, sockets, Inv, Untouched
  <2> QED
    BY <2>1, <2>2
<1> QED
  BY <1>1, <1>2, <1>3, <1>4, RequestsApart DEF Inv

\* A stored event is not being published.
LEMMA StoredFacts ==
    ASSUME Inv, NEW e \in stored
    PROVE  /\ e \in 1..appended
           /\ \A r \in Requests : phase[r] = "publishing" => e # Newest(r)
<1>1. PICK q \in Requests : phase[q] = "committed" /\ e \in pending[q]
  BY DEF Inv, StoredIsCommitted
<1>2. e \in 1..appended
  BY <1>1 DEF Inv, PendingPast
<1>3. ASSUME NEW r \in Requests, phase[r] = "publishing"
      PROVE  e # Newest(r)
  <2>1. Newest(r) \in pending[r]
    BY <1>3, NewestFacts DEF Inv
  <2>2. q # r
    BY <1>1, <1>3
  <2> QED
    BY <1>1, <2>1, <2>2 DEF Inv, PendingApart
<1> QED
  BY <1>2, <1>3

\* A handler that sends only what it had to send, or what is stored.
LEMMA SocketKeepsSent ==
    ASSUME Inv, UNCHANGED requests,
           \A s \in Sockets : SentOn(s)' \subseteq SentOn(s) \cup stored
    PROVE  SentPast' /\ NewestUnsent'
<1>1. SentPast'
  BY StoredFacts DEF requests, Inv, SentPast
<1>2. NewestUnsent'
  BY StoredFacts, RequestsApart DEF requests, Inv, NewestUnsent
<1> QED
  BY <1>1, <1>2

LEMMA SocketKeepsInv ==
    ASSUME Inv, NEW s \in Sockets, Serve(s) \/ SubscriptionBreaks(s)
    PROVE  Inv'
<1>1. TypeOK'
  BY SocketKeepsTypes DEF Inv
<1>2. UNCHANGED requests /\ UNCHANGED attempt
  BY DEF Serve, Accept, Send, Subscribe, SubscriptionBreaks, browsers
<1>3. \A t \in Sockets \ {s} :
          /\ handler'[t] = handler[t]
          /\ queue'[t] = queue[t]
          /\ received'[t] = received[t]
  BY DEF Inv, TypeOK, Serve, Accept, Send, Subscribe, SubscriptionBreaks
<1>4. /\ handler[s] # "none"
      /\ handler'[s] \notin {"none", "accepting"}
  BY DEF Inv, TypeOK, Serve, Accept, Send, Subscribe, SubscriptionBreaks
<1>5. /\ SentOn(s)' \subseteq SentOn(s) \cup stored
      /\ IsInjective(received'[s])
      /\ IsInjective(queue'[s])
      /\ Range(received'[s]) \cap Range(queue'[s]) = {}
  <2>1. /\ IsInjective(received[s])
        /\ IsInjective(queue[s])
        /\ Range(received[s]) \cap Range(queue[s]) = {}
        /\ received[s] \in Seq(Events)
        /\ queue[s] \in Seq(Events)
    BY DEF Inv, SentOnce, TypeOK
  <2>2. CASE Accept(s)
    <3>1. PICK b \in Backlogs(stored) : queue' = [queue EXCEPT ![s] = b]
      BY <2>2 DEF Accept
    <3>2. queue'[s] = b /\ IsInjective(b) /\ Range(b) \subseteq stored
      BY <3>1, BacklogFacts DEF Inv, TypeOK
    <3>3. received'[s] = <<>>
      BY <2>2 DEF Accept, Inv, Untouched
    <3> QED
      BY <3>2, <3>3, EmptyFacts DEF SentOn
  <2>3. CASE Send(s) /\ Alive(s)
    <3> DEFINE h == Head(queue[s])
    <3>1. /\ queue[s] # <<>>
          /\ received'[s] = Append(received[s], h)
          /\ queue'[s] = Tail(queue[s])
      BY <2>3 DEF Send, Inv, TypeOK
    <3>2. /\ h \in Events
          /\ Range(queue[s]) = Range(queue'[s]) \cup {h}
          /\ IsInjective(queue'[s])
          /\ h \notin Range(queue'[s])
      BY <2>1, <3>1, TailFacts
    <3>3. h \notin Range(received[s])
      BY <2>1, <3>2
    <3>4. /\ Range(received'[s]) = Range(received[s]) \cup {h}
          /\ IsInjective(received'[s])
      BY <2>1, <3>1, <3>2, <3>3, AppendFacts
    <3> HIDE DEF h
    <3> QED
      BY <2>1, <3>2, <3>4 DEF SentOn
  <2>4. CASE Send(s) /\ ~Alive(s)
    <3>1. queue'[s] = <<>> /\ received'[s] = received[s]
      BY <2>4 DEF Send, Inv, TypeOK
    <3> QED
      BY <2>1, <3>1, EmptyFacts DEF SentOn
  <2>5. CASE Subscribe(s)
    <3>1. queue'[s] = queue[s] /\ received'[s] = received[s]
      BY <2>5 DEF Subscribe
    <3> QED
      BY <2>1, <3>1 DEF SentOn
  <2>6. CASE SubscriptionBreaks(s)
    <3>1. queue'[s] = <<>> /\ received'[s] = received[s]
      BY <2>6 DEF SubscriptionBreaks, Inv, TypeOK
    <3> QED
      BY <2>1, <3>1, EmptyFacts DEF SentOn
  <2> QED
    BY <2>2, <2>3, <2>4, <2>5, <2>6 DEF Serve
<1>6. SentPast' /\ NewestUnsent'
  <2>1. ASSUME NEW t \in Sockets
        PROVE  SentOn(t)' \subseteq SentOn(t) \cup stored
    BY <1>3, <1>5 DEF SentOn
  <2> QED
    BY <1>2, <2>1, SocketKeepsSent
<1>7. Untouched'
  BY <1>2, <1>3, <1>4 DEF Inv, Untouched
<1>8. SentOnce'
  BY <1>3, <1>5 DEF Inv, SentOnce
<1> QED
  BY <1>1, <1>2, <1>6, <1>7, <1>8, RequestsApart DEF Inv

LEMMA InvStep == Inv /\ [Next]_vars => Inv'
<1> SUFFICES ASSUME Inv, [Next]_vars PROVE Inv'
  OBVIOUS
<1>1. CASE UNCHANGED vars
  <2>1. TypeOK'
    BY <1>1 DEF vars, requests, sockets, browsers, Inv, TypeOK
  <2>2. SentPast' /\ NewestUnsent' /\ Untouched' /\ SentOnce'
    BY <1>1, RequestsApart
       DEF vars, requests, sockets, browsers, Inv, SentPast, NewestUnsent,
           SentOn, Untouched, SentOnce
  <2> QED
    BY <1>1, <2>1, <2>2, RequestsApart DEF vars, Inv
<1>2. CASE \E r \in Requests : AppendEvent(r) \/ Finish(r)
  BY <1>2, AppendKeepsInv, PublishKeepsInv, EndKeepsInv DEF Finish
<1>3. CASE \E p \in Pages : Connect(p) \/ Disconnect(p) \/ Fetch(p)
  BY <1>3, PageKeepsInv
<1>4. CASE \E s \in Sockets : Serve(s) \/ SubscriptionBreaks(s)
  BY <1>4, SocketKeepsInv
<1> QED
  BY <1>1, <1>2, <1>3, <1>4 DEF Next

LEMMA InvAlways == Spec => []Inv
<1> QED
  BY InvInit, InvStep, PTL DEF Spec

-----------------------------------------------------------------------------
(***************************************************************************)
(* Theorems.                                                               *)
(***************************************************************************)

\* Every variable of EventStream stays in its set.
THEOREM StreamTyping == Spec => []TypeOK
<1>1. Inv => TypeOK
  BY DEF Inv
<1> QED
  BY <1>1, InvAlways, PTL

\* A WebSocket connection brings an event at most once, for any number of
\* requests and pages (workflows/events.py, append_event).
THEOREM EventsArriveOnce == Spec => []SentOnce
<1>1. Inv => SentOnce
  BY DEF Inv
<1> QED
  BY <1>1, InvAlways, PTL

\* What a handler has taken up for its client reaches it, unless the handler
\* ends (api/v1/workflows.py, stream_workflow_events).
THEOREM NoEventIsDropped == Spec => NothingDropped
<1> DEFINE Kept ==
      \A s \in Sockets :
          Range(queue[s]) \subseteq Range(queue'[s]) \cup Range(received'[s])
              \/ handler'[s] = "ended"
<1>1. ASSUME Inv, [Next]_vars PROVE Kept
  <2>1. CASE UNCHANGED vars
    BY <2>1 DEF vars, sockets
  <2>2. ASSUME NEW r \in Requests, AppendEvent(r) \/ Finish(r)
        PROVE  Kept
    <3>1. CASE Publish(r)
      <4> SUFFICES ASSUME NEW s \in Sockets
                   PROVE  Range(queue[s]) \subseteq Range(queue'[s])
        OBVIOUS
      <4>1. queue[s] \in Seq(Events) /\ Newest(r) \in Events
        BY <1>1, <3>1, NewestTyped DEF Inv, TypeOK, Publish
      <4>2. queue'[s] = queue[s] \/ queue'[s] = Append(queue[s], Newest(r))
        BY <3>1 DEF Publish
      <4>3. Range(Append(queue[s], Newest(r))) =
                Range(queue[s]) \cup {Newest(r)}
        BY <4>1, AppendFacts
      <4> QED
        BY <4>2, <4>3
    <3>2. CASE AppendEvent(r) \/ Commit(r) \/ Rollback(r)
      BY <3>2 DEF AppendEvent, Commit, Rollback, sockets
    <3> QED
      BY <2>2, <3>1, <3>2 DEF Finish
  <2>3. ASSUME NEW p \in Pages, Connect(p) \/ Disconnect(p) \/ Fetch(p)
        PROVE  Kept
    BY <2>3 DEF Connect, Disconnect, Fetch, sockets
  <2>4. ASSUME NEW s \in Sockets, Serve(s) \/ SubscriptionBreaks(s)
        PROVE  Kept
    <3> SUFFICES ASSUME NEW t \in Sockets
                 PROVE  \/ Range(queue[t]) \subseteq
                              Range(queue'[t]) \cup Range(received'[t])
                        \/ handler'[t] = "ended"
      OBVIOUS
    <3>1. CASE t # s
      BY <1>1, <2>4, <3>1
         DEF Inv, TypeOK, Serve, Accept, Send, Subscribe, SubscriptionBreaks
    <3>2. CASE t = s /\ Accept(s)
      <4>1. queue[t] = <<>>
        BY <1>1, <3>2 DEF Inv, Untouched, Accept
      <4> QED
        BY <4>1, EmptyFacts
    <3>3. CASE t = s /\ Send(s) /\ Alive(s)
      <4>1. /\ queue[s] \in Seq(Events)
            /\ received[s] \in Seq(Events)
            /\ queue[s] # <<>>
            /\ queue'[s] = Tail(queue[s])
            /\ received'[s] = Append(received[s], Head(queue[s]))
        BY <1>1, <3>3 DEF Send, Inv, TypeOK
      <4>2. /\ Head(queue[s]) \in Events
            /\ Range(queue[s]) = Range(queue'[s]) \cup {Head(queue[s])}
        BY <4>1, TailFacts
      <4>3. Head(queue[s]) \in Range(received'[s])
        BY <4>1, <4>2, AppendFacts
      <4> QED
        BY <3>3, <4>2, <4>3
    <3>4. CASE t = s /\ Send(s) /\ ~Alive(s)
      BY <1>1, <3>4 DEF Send, Inv, TypeOK
    <3>5. CASE t = s /\ Subscribe(s)
      BY <3>5 DEF Subscribe
    <3>6. CASE t = s /\ SubscriptionBreaks(s)
      BY <1>1, <3>6 DEF SubscriptionBreaks, Inv, TypeOK
    <3> QED
      BY <2>4, <3>1, <3>2, <3>3, <3>4, <3>5, <3>6 DEF Serve
  <2> QED
    BY <1>1, <2>1, <2>2, <2>3, <2>4 DEF Next
<1>2. Inv /\ [Next]_vars => [Kept]_vars
  BY <1>1
<1> QED
  BY <1>2, InvAlways, PTL DEF Spec, NothingDropped
=============================================================================
