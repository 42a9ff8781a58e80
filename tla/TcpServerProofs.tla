---------------------------- MODULE TcpServerProofs ----------------------------
(****************************************************************************)
(* Proofs about module TcpServer, for every number of clients and of        *)
(* threads, every way the loops interleave and every limit of descriptors:  *)
(* the types, what the user is told of each connection, when a connection   *)
(* is destroyed, and that the server implements ConnectionLife.             *)
(****************************************************************************)
EXTENDS TcpServer, SequenceTheorems, FiniteSetTheorems, TLAPS

At(s, i, x) == i \in 1..Len(s) /\ s[i] = x
Has(s, x) == \E i \in 1..Len(s) : s[i] = x

LEMMA HasAppend ==
  ASSUME NEW S, NEW s \in Seq(S), NEW y \in S, NEW x
  PROVE  Has(Append(s, y), x) => Has(s, x) \/ x = y
<1>1. /\ Len(Append(s, y)) = Len(s) + 1 /\ Len(s) \in Nat
      /\ \A i \in 1..Len(s) : Append(s, y)[i] = s[i]
      /\ Append(s, y)[Len(s) + 1] = y
  BY AppendProperties, LenProperties
<1> QED
  BY <1>1 DEF Has

LEMMA HasConcat ==
  ASSUME NEW S, NEW s \in Seq(S), NEW t \in Seq(S), NEW x
  PROVE  Has(s \o t, x) <=> Has(s, x) \/ Has(t, x)
<1>1. /\ Len(s \o t) = Len(s) + Len(t) /\ Len(s) \in Nat /\ Len(t) \in Nat
      /\ \A i \in 1..Len(s) + Len(t) : (s \o t)[i] = IF i <= Len(s) THEN s[i] ELSE t[i - Len(s)]
  BY ConcatProperties, LenProperties
<1>2. ASSUME Has(s \o t, x)
      PROVE  Has(s, x) \/ Has(t, x)
  <2>1. PICK i \in 1..Len(s) + Len(t) : (s \o t)[i] = x
    BY <1>1, <1>2 DEF Has
  <2>2. CASE i <= Len(s)
    BY <1>1, <2>1, <2>2 DEF Has
  <2>3. CASE i > Len(s)
    <3>1. i - Len(s) \in 1..Len(t) /\ t[i - Len(s)] = x
      BY <1>1, <2>1, <2>3
    <3> QED
      BY <3>1 DEF Has
  <2> QED
    BY <1>1, <2>2, <2>3
<1>3. ASSUME Has(s, x)
      PROVE  Has(s \o t, x)
  <2>1. PICK i \in 1..Len(s) : s[i] = x
    BY <1>3 DEF Has
  <2>2. i \in 1..Len(s \o t) /\ (s \o t)[i] = x
    BY <1>1, <2>1
  <2> QED
    BY <2>2 DEF Has
<1>4. ASSUME Has(t, x)
      PROVE  Has(s \o t, x)
  <2>1. PICK i \in 1..Len(t) : t[i] = x
    BY <1>4 DEF Has
  <2>2. i + Len(s) \in 1..Len(s \o t) /\ (s \o t)[i + Len(s)] = x
    BY <1>1, <2>1
  <2> QED
    BY <2>2 DEF Has
<1> QED
  BY <1>2, <1>3, <1>4

LEMMA HasTail ==
  ASSUME NEW S, NEW s \in Seq(S), s # <<>>, NEW x
  PROVE  /\ Has(Tail(s), x) => Has(s, x)
         /\ Has(s, x) => Head(s) = x \/ Has(Tail(s), x)
         /\ Has(s, Head(s))
<1>1. /\ Len(Tail(s)) = Len(s) - 1 /\ Len(s) \in Nat /\ Len(s) >= 1
      /\ \A i \in 1..Len(s) - 1 : Tail(s)[i] = s[i + 1]
      /\ Head(s) = s[1]
  BY HeadTailProperties, LenProperties, EmptySeq
<1>2. ASSUME Has(Tail(s), x)
      PROVE  Has(s, x)
  <2>1. PICK i \in 1..Len(s) - 1 : Tail(s)[i] = x
    BY <1>1, <1>2 DEF Has
  <2>2. i + 1 \in 1..Len(s) /\ s[i + 1] = x
    BY <1>1, <2>1
  <2> QED
    BY <2>2 DEF Has
<1>3. ASSUME Has(s, x), Head(s) # x
      PROVE  Has(Tail(s), x)
  <2>1. PICK i \in 1..Len(s) : s[i] = x
    BY <1>3 DEF Has
  <2>2. i - 1 \in 1..Len(Tail(s)) /\ Tail(s)[i - 1] = x
    BY <1>1, <1>3, <2>1
  <2> QED
    BY <2>2 DEF Has
<1>4. Has(s, Head(s))
  BY <1>1 DEF Has
<1> QED
  BY <1>2, <1>3, <1>4

LEMMA HasShort ==
  ASSUME NEW x, NEW y, NEW z
  PROVE  /\ ~Has(<<>>, x)
         /\ Has(<<y>>, x) <=> x = y
         /\ Has(<<y, z>>, x) <=> x = y \/ x = z
<1>1. Len(<<>>) = 0 /\ Len(<<y>>) = 1 /\ Len(<<y, z>>) = 2
  OBVIOUS
<1>2. <<y>>[1] = y /\ <<y, z>>[1] = y /\ <<y, z>>[2] = z
  OBVIOUS
<1> QED
  BY <1>1, <1>2 DEF Has

(* A connection is dealt to a loop that there is (getNextLoop).             *)
LEMMA LoopOfIsLoop ==
  ASSUME numThreads \in 0..MaxThreads, NEW c \in Conn
  PROVE  /\ LoopOf(c) \in Loop
         /\ LoopOf(c) = Base <=> numThreads = 0
<1>1. MaxThreads \in Nat /\ c - 1 \in Nat /\ numThreads \in Nat /\ numThreads <= MaxThreads
  BY ServerAssumption DEF Conn
<1>2. CASE numThreads = 0
  BY <1>1, <1>2 DEF LoopOf, Loop, Base
<1>3. CASE numThreads # 0
  <2>1. (c - 1) % numThreads \in 0..numThreads - 1
    BY <1>1, <1>3
  <2> QED
    BY <1>1, <1>3, <2>1 DEF LoopOf, Loop, Base
<1> QED
  BY <1>2, <1>3

(* ~TcpServer visits every connection it knows, in whatever order.          *)
LEMMA DestroyVisitsAll ==
  ASSUME NEW frames \in DestroyFrames, Kept \subseteq Conn
  PROVE  /\ frames \in Seq(Frame)
         /\ \A x : Has(frames, x) => \E c \in Kept : x = <<"destroy", c>>
         /\ \A c \in Kept : Has(frames, <<"destroy", c>>)
<1> DEFINE D == 1..Cardinality(Kept)
<1>1. IsFiniteSet(Kept) /\ Cardinality(Kept) \in Nat
  <2>1. IsFiniteSet(Conn)
    BY FS_Interval, ServerAssumption DEF Conn
  <2> QED
    BY <2>1, FS_Subset, FS_CardinalityType
<1>2. PICK s \in [D -> Kept] : /\ \A i, j \in D : i # j => s[i] # s[j]
                               /\ frames = [i \in DOMAIN s |-> <<"destroy", s[i]>>]
  BY DEF DestroyFrames, SetToSeqs
<1>3. \A c \in Kept : \E i \in D : s[i] = c
  <2>1. s \in Injection(D, Kept)
    BY <1>2 DEF Injection, IsInjective
  <2>2. IsFiniteSet(D) /\ Cardinality(D) = Cardinality(Kept)
    BY <1>1, FS_Interval
  <2>3. s \in Surjection(D, Kept)
    BY <1>1, <2>1, <2>2, FS_Injection
  <2> QED
    BY <2>3 DEF Surjection
<1>4. frames = [i \in D |-> <<"destroy", s[i]>>]
  BY <1>2
<1>5. frames \in Seq(Frame)
  <2> DEFINE e(i) == <<"destroy", s[i]>>
  <2>1. \A i \in D : e(i) \in Frame
    BY <1>2 DEF Frame
  <2>2. [i \in 1..Cardinality(Kept) |-> e(i)] \in Seq(Frame)
    <3> HIDE DEF e
    <3> QED
      BY <1>1, <2>1, IsASeq
  <2> QED
    BY <1>4, <2>2
<1>6. Len(frames) = Cardinality(Kept)
  <2>1. DOMAIN frames = 1..Len(frames) /\ Len(frames) \in Nat
    BY <1>5, LenProperties
  <2>2. DOMAIN frames = D
    BY <1>4
  <2> QED
    BY <1>1, <2>1, <2>2
<1>7. \A i \in D : frames[i] = <<"destroy", s[i]>>
  BY <1>4
<1> QED
  BY <1>2, <1>3, <1>5, <1>6, <1>7 DEF Has
-----------------------------------------------------------------------------
(* The invariant.  Names are unique because nextConnId_ counts with the     *)
(* accepted connections, and each stands in connections_ for that           *)
(* connection or for none.                                                  *)
Names ==
  /\ nextConnId = accepted + 1
  /\ \A n \in Conn : /\ connections[n] \in {n, NoConn}
                     /\ n <= accepted => name[n] = n
                     /\ n > accepted => connections[n] = NoConn /\ ups[n] = 0

(* Up at most once, and down only after it; what would make it down once    *)
(* more is state_ at kConnected or, while there is a server, a channel that *)
(* is on.                                                                   *)
Told ==
  \A c \in Conn : /\ ups[c] \in 0..1 /\ (downs[c] # 0 => ups[c] = 1)
                  /\ c \in connected => c \in registered /\ downs[c] = 0
                  /\ c \in registered => ups[c] = 1 /\ (server # "gone" => downs[c] = 0)

(* A connection that was reported was up, is its loop's own, and nothing    *)
(* but ~TcpServer takes its channel off before its turn comes.              *)
Reported ==
  \A l \in Loop, c \in Conn :
    c \in active[l] => LoopOf(c) = l /\ ups[c] = 1 /\ (server # "gone" => c \in registered)

(* connectEstablished is still to be run by the connection's own loop, once *)
(* at most, and not by the base loop, which does not queue it.              *)
Est(c) == <<"established", c>>
Dest(c) == <<"destroyed", c>>
Rem(c) == <<"remove", c>>
InPending(c, l, i) == At(pending[l], i, Est(c))
InBatch(c, l, i) == i \in ran[l] + 1..Len(batch[l]) /\ batch[l][i] = Est(c)

Queues ==
  \A c \in Conn, l \in Loop, i \in Nat :
    /\ InPending(c, l, i) \/ InBatch(c, l, i) =>
         l = LoopOf(c) /\ l # Base /\ c <= accepted /\ ups[c] = 0
    /\ \A j \in Nat : /\ InPending(c, l, i) /\ InPending(c, l, j) => i = j
                      /\ InBatch(c, l, i) /\ InBatch(c, l, j) => i = j
                      /\ ~(InPending(c, l, i) /\ InBatch(c, l, j))

(* Who is on the way to take the connection from connections_, or from its  *)
(* loop after that, comes from handleClose; whoever did not get there is in *)
(* connections_ still.                                                      *)
Removing ==
  \A c \in Conn, l \in Loop :
    \/ Has(todo[l], <<"close", c>>)
    \/ Has(pending[l], Rem(c)) \/ Has(batch[l], Rem(c))
    \/ Has(pending[l], Dest(c)) \/ Has(batch[l], Dest(c))
    => downs[c] # 0

Known == server # "gone" => \A c \in Conn : c <= accepted /\ downs[c] = 0 => connections[c] = c

(* ~TcpServer is not done with a connection that counts as connected.       *)
Gone == server = "gone" =>
          numThreads = 0 /\ \A c \in connected : Has(todo[Base], <<"destroy", c>>)

(* Only ~TcpServer calls connectDestroyed on the spot.                      *)
Leaving == \A c \in Conn, l \in Loop : Has(todo[l], <<"destroy", c>>) => server = "gone"

ServerInv == /\ TypeOK /\ Names /\ Told /\ Reported /\ Queues
             /\ Removing /\ Leaving /\ Known /\ Gone

(* What TypeOK says, variable by variable.                                  *)
LEMMA Types ==
  ASSUME ServerInv
  PROVE  /\ numThreads \in 0..MaxThreads /\ accepted \in Nat /\ accepted <= MaxConn /\ MaxConn \in Nat
         /\ name \in [Conn -> Conn \union {NoConn}]
         /\ connections \in [Conn -> Conn \union {NoConn}]
         /\ connected \subseteq Conn /\ registered \subseteq Conn
         /\ pending \in [Loop -> Seq(Functor)] /\ batch \in [Loop -> Seq(Functor)]
         /\ ran \in [Loop -> Nat] /\ \A l \in Loop : ran[l] <= Len(batch[l]) /\ Len(batch[l]) \in Nat
         /\ todo \in [Loop -> Seq(Frame)]
         /\ ups \in [Conn -> Nat] /\ downs \in [Conn -> Nat]
         /\ active \in [Loop -> SUBSET (Conn \union {Listener})] /\ Listener \notin Conn
         /\ Base \in Loop /\ NoConn \notin Conn
<1>1. MaxConn \in Nat /\ MaxThreads \in Nat
  BY ServerAssumption
<1>2. Base \in Loop /\ NoConn \notin Conn /\ Listener \notin Conn
  BY <1>1 DEF Loop, Base, Conn, NoConn, Listener
<1>3. \A l \in Loop : batch[l] \in Seq(Functor)
  BY DEF ServerInv, TypeOK
<1>4. \A l \in Loop : Len(batch[l]) \in Nat
  BY <1>3, LenProperties
<1>5. arrived \in 0..MaxConn /\ accepted \in 0..arrived
  BY DEF ServerInv, TypeOK
<1> QED
  BY <1>1, <1>2, <1>4, <1>5 DEF ServerInv, TypeOK

LEMMA AtAppend ==
  ASSUME NEW S, NEW s \in Seq(S), NEW y \in S, NEW i, NEW x
  PROVE  At(Append(s, y), i, x) => At(s, i, x) \/ (x = y /\ i = Len(s) + 1)
<1>1. /\ Len(Append(s, y)) = Len(s) + 1 /\ Len(s) \in Nat
      /\ \A j \in 1..Len(s) : Append(s, y)[j] = s[j]
      /\ Append(s, y)[Len(s) + 1] = y
  BY AppendProperties, LenProperties
<1> QED
  BY <1>1 DEF At

LEMMA FunctorsDiffer ==
  ASSUME NEW c, NEW d
  PROVE  /\ Est(d) # Dest(c) /\ Est(d) # Rem(c) /\ Rem(d) # Est(c) /\ Rem(d) # Dest(c)
         /\ (Est(d) = Est(c) => d = c) /\ (Rem(d) = Rem(c) => d = c)
         /\ (Dest(d) = Dest(c) => d = c)
         /\ c \in Conn => Est(c) \in Functor /\ Dest(c) \in Functor /\ Rem(c) \in Functor
BY DEF Est, Dest, Rem, Functor

LEMMA QueuedIs ==
  ASSUME ServerInv, NEW l \in Loop, NEW f \in Functor, pending' = Queued(pending, l, f)
  PROVE  /\ pending' \in [Loop -> Seq(Functor)]
         /\ \A k \in Loop : \A x : Has(pending'[k], x) => Has(pending[k], x) \/ x = f
         /\ \A k \in Loop : \A i, x : At(pending'[k], i, x) =>
              At(pending[k], i, x) \/ (k = l /\ x = f /\ i = Len(pending[l]) + 1)
<1>1. pending \in [Loop -> Seq(Functor)] /\ pending[l] \in Seq(Functor)
  BY Types
<1>2. Append(pending[l], f) \in Seq(Functor)
  BY <1>1, AppendProperties
<1>3. pending' = [pending EXCEPT ![l] = Append(pending[l], f)]
  BY <1>1 DEF Queued
<1>4. pending' \in [Loop -> Seq(Functor)]
  BY <1>1, <1>2, <1>3
<1>5. \A k \in Loop : pending'[k] = IF k = l THEN Append(pending[l], f) ELSE pending[k]
  BY <1>1, <1>3
<1>6. \A x : Has(Append(pending[l], f), x) => Has(pending[l], x) \/ x = f
  BY <1>1, HasAppend
<1>7. \A i, x : At(Append(pending[l], f), i, x) =>
        At(pending[l], i, x) \/ (x = f /\ i = Len(pending[l]) + 1)
  BY <1>1, AtAppend
<1> QED
  BY <1>4, <1>5, <1>6, <1>7

LEMMA PendingAppend ==
  ASSUME ServerInv, NEW f \in Functor
  PROVE  \A k \in Loop : \A x : Has(Append(pending[k], f), x) => Has(pending[k], x) \/ x = f
<1>1. \A k \in Loop : pending[k] \in Seq(Functor)
  BY Types
<1> QED
  BY <1>1, HasAppend

(* At the start there is no connection.                                     *)
LEMMA ServerInit == Init => ServerInv
<1> SUFFICES ASSUME Init
             PROVE  ServerInv
  OBVIOUS
<1>1. MaxConn \in Nat \ {0} /\ MaxThreads \in Nat
  BY ServerAssumption
<1>2. \A l \in Loop : pending[l] = <<>> /\ batch[l] = <<>> /\ todo[l] = <<>> /\ ran[l] = 0
  BY DEF Init
<1>3. TypeOK
  <2>1. /\ pending \in [Loop -> Seq(Functor)] /\ batch \in [Loop -> Seq(Functor)]
        /\ todo \in [Loop -> Seq(Frame)]
    BY DEF Init
  <2>2. ran \in [Loop -> Nat] /\ \A l \in Loop : ran[l] <= Len(batch[l])
    BY <1>2 DEF Init
  <2>3. /\ name \in [Conn -> Conn \union {NoConn}] /\ connections \in [Conn -> Conn \union {NoConn}]
        /\ active \in [Loop -> SUBSET (Conn \union {Listener})]
        /\ ups \in [Conn -> Nat] /\ downs \in [Conn -> Nat]
    BY DEF Init
  <2>4. /\ nextConnId \in 1..MaxConn + 1 /\ arrived \in 0..MaxConn /\ accepted \in 0..arrived
    BY <1>1 DEF Init
  <2> QED
    BY <2>1, <2>2, <2>3, <2>4 DEF Init, TypeOK
<1>4. Names /\ Told /\ Reported
  BY DEF Init, Names, Told, Reported, Conn
<1>5. Queues
  <2>1. \A c \in Conn, l \in Loop, i \in Nat : ~InPending(c, l, i) /\ ~InBatch(c, l, i)
    BY <1>2 DEF InPending, InBatch, At
  <2> QED
    BY <2>1 DEF Queues
<1>6. Removing /\ Leaving
  <2>1. \A x : ~Has(<<>>, x)
    BY HasShort
  <2> QED
    BY <1>2, <2>1 DEF Removing, Leaving
<1>7. Known /\ Gone
  BY DEF Init, Known, Gone, Conn
<1> QED
  BY <1>3, <1>4, <1>5, <1>6, <1>7 DEF ServerInv

(* Queues that only get shorter, or longer by something else than           *)
(* connectEstablished.                                                      *)
LEMMA QueuesShrink ==
  ASSUME Queues, numThreads' = numThreads, accepted' = accepted,
         \A c \in Conn, l \in Loop, i \in Nat :
           /\ InPending(c, l, i)' => InPending(c, l, i)
           /\ InBatch(c, l, i)' => InBatch(c, l, i)
           /\ InPending(c, l, i)' \/ InBatch(c, l, i)' => ups'[c] = ups[c]
  PROVE  Queues'
<1>1. \A c \in Conn : LoopOf(c)' = LoopOf(c)
  BY DEF LoopOf
<1> QED
  BY <1>1 DEF Queues
-----------------------------------------------------------------------------
(* The steps.                                                               *)

(* Nothing new is reported, and what was reported keeps its channel, or     *)
(* loses it to ~TcpServer.                                                  *)
LEMMA ReportedKeeps ==
  ASSUME ServerInv, numThreads' = numThreads, server' # "gone" => server # "gone",
         \A k \in Loop, d \in Conn : d \in active'[k] => d \in active[k],
         \A d \in Conn : ups[d] = 1 => ups'[d] = 1,
         \A k \in Loop, d \in Conn :
           d \in active'[k] /\ server' # "gone" /\ d \in registered => d \in registered'
  PROVE  Reported'
<1>1. \A d \in Conn : LoopOf(d)' = LoopOf(d)
  BY DEF LoopOf
<1> QED
  BY <1>1 DEF ServerInv, Reported

(* What users, clients and epoll do of their own accord.                    *)
LEMMA OutsideKeeps ==
  ASSUME ServerInv, TypeOK',
         UNCHANGED <<numThreads, nextConnId, name, connections, registered, ups, downs, pending,
                     batch, ran, todo, accepted>>,
         connected' \subseteq connected,
         server' = server \/ (server # "gone" /\ server' # "gone"),
         Reported' \/ \A k \in Loop : active'[k] \subseteq active[k]
  PROVE  ServerInv'
<1>0. Reported'
  BY ReportedKeeps
<1> USE DEF ServerInv
<1>1. Names' /\ Told'
  BY DEF Names, Told
<1>2. Queues'
  BY QueuesShrink DEF InPending, InBatch
<1>3. Removing' /\ Leaving' /\ Known' /\ Gone'
  BY DEF Removing, Leaving, Known, Gone, Has
<1> QED
  BY <1>0, <1>1, <1>2, <1>3

LEMMA OutsideSteps ==
  ASSUME ServerInv,
         \/ Start \/ AcceptFails \/ ClientConnects
         \/ \E l \in Loop : Poll(l)
         \/ \E c \in Conn : \/ \E l \in Loop : KeepPointer(l, c)
                            \/ DropPointer(c) \/ Shutdown(c) \/ ClientCloses(c)
  PROVE  ServerInv'
<1> USE DEF conns, loops, clients
<1>0. TypeOK
  BY DEF ServerInv
<1>1. CASE Start
  <2>1. TypeOK'
    BY <1>0, <1>1 DEF Start, TypeOK
  <2> QED
    BY <1>1, <2>1, OutsideKeeps DEF Start
<1>2. CASE AcceptFails
  <2>1. active' = [active EXCEPT ![Base] = @ \ {Listener}] /\ Base \in Loop
    BY <1>2, Types DEF AcceptFails, Handled
  <2>2. active' \in [Loop -> SUBSET (Conn \union {Listener})]
    BY <1>0, <2>1 DEF TypeOK
  <2>3. TypeOK'
    BY <1>0, <1>2, <2>2 DEF AcceptFails, TypeOK
  <2>4. \A k \in Loop : active'[k] \subseteq active[k]
    BY <2>1, Types
  <2> QED
    BY <1>2, <2>3, <2>4, OutsideKeeps DEF AcceptFails
<1>3. CASE ClientConnects
  <2>1. arrived' \in 0..MaxConn /\ accepted \in 0..arrived'
    <3>1. MaxConn \in Nat /\ arrived \in 0..MaxConn /\ accepted \in 0..arrived
      BY <1>0, ServerAssumption DEF TypeOK
    <3> QED
      BY <1>3, <3>1 DEF ClientConnects
  <2>2. TypeOK'
    BY <1>0, <1>3, <2>1 DEF ClientConnects, TypeOK
  <2> QED
    BY <1>3, <2>2, OutsideKeeps DEF ClientConnects
<1>4. ASSUME NEW l \in Loop, Poll(l)
      PROVE  ServerInv'
  <2>1. PICK messages \in SUBSET MayReport(l) :
          active' = [active EXCEPT ![l] = messages \union MustReport(l)]
    BY <1>4 DEF Poll
  <2>2. messages \union MustReport(l) \in SUBSET (Conn \union {Listener})
    BY <1>0 DEF MayReport, MustReport, TypeOK
  <2>3. active' \in [Loop -> SUBSET (Conn \union {Listener})]
    BY <1>0, <2>1, <2>2 DEF TypeOK
  <2>4. TypeOK'
    BY <1>0, <1>4, <2>3 DEF Poll, TypeOK
  <2>5. Reported'
    <3>1. ASSUME NEW k \in Loop, NEW c \in Conn, c \in active'[k]
          PROVE  LoopOf(c) = k /\ ups[c] = 1 /\ (server # "gone" => c \in registered)
      <4>1. CASE k # l
        <5>1. active'[k] = active[k]
          BY <2>1, <4>1, Types
        <5> QED
          BY <3>1, <5>1 DEF ServerInv, Reported
      <4>2. CASE k = l
        <5>1. c \in messages \union MustReport(l) /\ c # Listener
          BY <2>1, <3>1, <4>2, Types
        <5>2. c \in registered /\ LoopOf(c) = l
          BY <5>1 DEF MayReport, MustReport
        <5> QED
          BY <4>2, <5>2 DEF ServerInv, Told
      <4> QED
        BY <4>1, <4>2
    <3>2. UNCHANGED <<server, numThreads, registered, ups>>
      BY <1>4 DEF Poll
    <3>3. \A c \in Conn : LoopOf(c)' = LoopOf(c)
      BY <3>2 DEF LoopOf
    <3> QED
      BY <3>1, <3>2, <3>3 DEF Reported
  <2> QED
    BY <1>4, <2>4, <2>5, OutsideKeeps DEF Poll
<1>5. ASSUME NEW c \in Conn, NEW l \in Loop, KeepPointer(l, c)
      PROVE  ServerInv'
  <2>1. TypeOK'
    BY <1>0, <1>5 DEF KeepPointer, TypeOK
  <2> QED
    BY <1>5, <2>1, OutsideKeeps DEF KeepPointer
<1>6. ASSUME NEW c \in Conn, DropPointer(c)
      PROVE  ServerInv'
  <2>1. TypeOK'
    BY <1>0, <1>6 DEF DropPointer, TypeOK
  <2> QED
    BY <1>6, <2>1, OutsideKeeps DEF DropPointer
<1>7. ASSUME NEW c \in Conn, Shutdown(c)
      PROVE  ServerInv'
  <2>1. TypeOK'
    BY <1>0, <1>7 DEF Shutdown, TypeOK
  <2> QED
    BY <1>7, <2>1, OutsideKeeps DEF Shutdown
<1>8. ASSUME NEW c \in Conn, ClientCloses(c)
      PROVE  ServerInv'
  <2>1. TypeOK'
    BY <1>0, <1>8 DEF ClientCloses, TypeOK
  <2> QED
    BY <1>8, <2>1, OutsideKeeps DEF ClientCloses
<1> QED
  BY <1>1, <1>2, <1>3, <1>4, <1>5, <1>6, <1>7, <1>8

(* A thread that goes on with its stack: other stacks are as they were, and *)
(* its own holds what follows the head, and some more.                      *)
LEMMA BecomesIs ==
  ASSUME ServerInv, NEW l \in Loop, todo[l] # <<>>, NEW frames \in Seq(Frame), Becomes(l, frames)
  PROVE  /\ todo' \in [Loop -> Seq(Frame)]
         /\ \A k \in Loop : \A x : Has(todo'[k], x) => Has(todo[k], x) \/ (k = l /\ Has(frames, x))
         /\ \A k \in Loop : \A x : Has(todo[k], x) => Has(todo'[k], x) \/ (k = l /\ x = Head(todo[l]))
<1>1. todo \in [Loop -> Seq(Frame)] /\ todo[l] \in Seq(Frame)
  BY Types
<1>2. Tail(todo[l]) \in Seq(Frame)
  BY <1>1, HeadTailProperties
<1>3. frames \o Tail(todo[l]) \in Seq(Frame)
  BY <1>2, ConcatProperties
<1>4. todo' = [todo EXCEPT ![l] = frames \o Tail(todo[l])]
  BY <1>1 DEF Becomes
<1>5. \A k \in Loop : todo'[k] = IF k = l THEN frames \o Tail(todo[l]) ELSE todo[k]
  BY <1>1, <1>4
<1>6. \A x : Has(frames \o Tail(todo[l]), x) <=> Has(frames, x) \/ Has(Tail(todo[l]), x)
  BY <1>2, HasConcat
<1>7. \A x : /\ Has(Tail(todo[l]), x) => Has(todo[l], x)
             /\ Has(todo[l], x) => Head(todo[l]) = x \/ Has(Tail(todo[l]), x)
  BY <1>1, HasTail
<1>8. todo' \in [Loop -> Seq(Frame)]
  BY <1>1, <1>3, <1>4
<1> QED
  BY <1>5, <1>6, <1>7, <1>8

(* Callbacks that return, and ~TcpServer's round of its loop.               *)
LEMMA ReturnSteps ==
  ASSUME ServerInv, NEW c \in Conn,
         \/ AcceptorReturns(c) \/ DestroyConnection(c)
         \/ \E l \in Loop : CallbackReturns(l, c)
  PROVE  ServerInv'
<1> USE DEF conns, loops, clients
<1>0. TypeOK /\ Names /\ Told /\ Reported /\ Queues /\ Removing /\ Leaving /\ Known /\ Gone
  BY DEF ServerInv
<1>a. <<>> \in Seq(Frame) /\ << <<"user", c>> >> \in Seq(Frame)
  BY DEF Frame
<1>b. \A x : ~Has(<<>>, x) /\ (Has(<< <<"user", c>> >>, x) => x = <<"user", c>>)
  BY HasShort
<1>1. ASSUME NEW l \in Loop, (AcceptorReturns(c) /\ l = Base) \/ CallbackReturns(l, c)
      PROVE  ServerInv'
  <2>1. /\ todo[l] # <<>> /\ Head(todo[l]) \in {<<"acceptor", c>>, <<"user", c>>} /\ Becomes(l, <<>>)
        /\ UNCHANGED <<server, numThreads, maxOpen, nextConnId, connections, name, connected,
                       registered, ups, downs, pending, batch, ran, active, holds, arrived,
                       accepted, hungUp>>
    BY <1>1 DEF AcceptorReturns, CallbackReturns, Does
  <2>2. TypeOK'
    BY <1>0, <1>a, <2>1, BecomesIs DEF TypeOK
  <2>3. Names' /\ Told' /\ Reported' /\ Known'
    BY <1>0, <2>1, ReportedKeeps DEF Names, Told, Known
  <2>4. Queues'
    BY <1>0, <2>1, QueuesShrink DEF InPending, InBatch
  <2>5. Removing' /\ Leaving'
    <3>1. \A k \in Loop : \A x : Has(todo'[k], x) => Has(todo[k], x) \/ Has(<<>>, x)
      BY <1>a, <2>1, BecomesIs
    <3>2. \A k \in Loop : \A x : Has(todo'[k], x) => Has(todo[k], x)
      BY <1>b, <3>1
    <3> QED
      BY <1>0, <2>1, <3>2 DEF Removing, Leaving
  <2>6. Gone'
    <3>1. \A d : <<"destroy", d>> # Head(todo[l])
      BY <2>1
    <3> QED
      BY <1>0, <1>a, <2>1, <3>1, Types, BecomesIs DEF Gone
  <2> QED
    BY <2>2, <2>3, <2>4, <2>5, <2>6 DEF ServerInv
<1>2. CASE DestroyConnection(c)
  <2>1. /\ todo[Base] # <<>> /\ Head(todo[Base]) = <<"destroy", c>>
        /\ Becomes(Base, DestroyedFrames(c)) /\ ConnectDestroyed(c)
        /\ UNCHANGED <<server, numThreads, maxOpen, nextConnId, connections, name, pending, batch,
                       ran, active, holds, arrived, accepted, hungUp>>
    BY <1>2 DEF DestroyConnection, Does
  <2>2. DestroyedFrames(c) \in {<<>>, << <<"user", c>> >>}
    BY DEF DestroyedFrames
  <2>3. /\ connected' = connected \ {c} /\ registered' \subseteq registered /\ UNCHANGED ups
        /\ \/ UNCHANGED <<downs, registered>>
           \/ c \in connected /\ downs' = [downs EXCEPT ![c] = @ + 1] /\ registered' = registered \ {c}
    BY <1>0, <2>1 DEF ConnectDestroyed, ToldDown, Lower, DisableAll, Told
  <2>b. server = "gone"
    <3>1. Has(todo[Base], <<"destroy", c>>)
      BY <2>1, Types, HasTail
    <3> QED
      BY <1>0, <3>1, Types DEF Leaving
  <2>4. downs' \in [Conn -> Nat]
    <3>1. downs \in [Conn -> Nat] /\ downs[c] + 1 \in Nat
      BY Types
    <3> QED
      BY <2>3, <3>1
  <2>a. /\ todo' \in [Loop -> Seq(Frame)]
        /\ \A k \in Loop : \A x : Has(todo'[k], x) => Has(todo[k], x) \/ x = <<"user", c>>
        /\ \A k \in Loop : \A x : Has(todo[k], x) => Has(todo'[k], x) \/ x = <<"destroy", c>>
    <3>1. Base \in Loop /\ DestroyedFrames(c) \in Seq(Frame)
      BY <1>a, <2>2, Types
    <3>2. \A x : Has(DestroyedFrames(c), x) => x = <<"user", c>>
      BY <1>b, <2>2
    <3> QED
      BY <2>1, <3>1, <3>2, BecomesIs
  <2>5. \A d \in Conn : downs[d] \in Nat /\ downs'[d] \in {downs[d], downs[d] + 1}
                        /\ (downs'[d] # downs[d] => d = c /\ c \in connected)
    BY <2>3, Types
  <2>6. TypeOK'
    BY <1>0, <2>1, <2>3, <2>4, <2>a DEF TypeOK
  <2>7. Names' /\ Known'
    BY <1>0, <2>1, <2>3, <2>5 DEF Names, Known
  <2>8. Told'
    <3> SUFFICES ASSUME NEW d \in Conn
                 PROVE  /\ ups'[d] \in 0..1 /\ (downs'[d] # 0 => ups'[d] = 1)
                        /\ d \in connected' => d \in registered' /\ downs'[d] = 0
                        /\ d \in registered' => ups'[d] = 1 /\ (server' # "gone" => downs'[d] = 0)
      BY DEF Told
    <3>1. CASE downs'[d] = downs[d]
      BY <1>0, <2>1, <2>3, <2>b, <3>1 DEF Told
    <3>2. CASE downs'[d] # downs[d]
      <4>1. d = c /\ c \in connected /\ downs'[d] = downs[d] + 1 /\ registered' = registered \ {c}
        BY <2>3, <2>5, <3>2
      <4> QED
        BY <1>0, <2>3, <4>1 DEF Told
    <3> QED
      BY <3>1, <3>2
  <2>c. Reported'
    BY <2>1, <2>3, <2>b, ReportedKeeps
  <2>9. Queues'
    BY <1>0, <2>1, <2>3, QueuesShrink DEF InPending, InBatch
  <2>10. Removing'
    <3>1. \A d \in Conn : downs[d] # 0 => downs'[d] # 0
      BY <2>5
    <3>2. \A d : <<"close", d>> # <<"user", c>>
      OBVIOUS
    <3>3. \A l \in Loop, d \in Conn : Has(todo'[l], <<"close", d>>) => Has(todo[l], <<"close", d>>)
      BY <2>a, <3>2
    <3> QED
      BY <1>0, <2>1, <3>1, <3>3 DEF Removing
  <2>d. Leaving'
    BY <2>1, <2>b DEF Leaving
  <2>11. Gone'
    <3>0. \A d : d # c => <<"destroy", d>> # <<"destroy", c>>
      OBVIOUS
    <3>1. \A d \in Conn : d # c /\ Has(todo[Base], <<"destroy", d>>) => Has(todo'[Base], <<"destroy", d>>)
      BY <2>a, <3>0, Types
    <3> QED
      BY <1>0, <2>1, <2>3, <3>1, Types DEF Gone
  <2> QED
    BY <2>6, <2>7, <2>8, <2>c, <2>9, <2>10, <2>d, <2>11 DEF ServerInv
<1>3. Base \in Loop
  BY Types
<1> QED
  BY <1>1, <1>2, <1>3

(* A thread that was in no handler begins one: frames is its stack.         *)
LEMMA BeginsIs ==
  ASSUME ServerInv, NEW l \in Loop, todo[l] = <<>>, NEW frames \in Seq(Frame),
         todo' = [todo EXCEPT ![l] = frames]
  PROVE  /\ todo' \in [Loop -> Seq(Frame)]
         /\ \A k \in Loop : \A x : Has(todo'[k], x) => Has(todo[k], x) \/ (k = l /\ Has(frames, x))
         /\ \A k \in Loop : \A x : Has(todo[k], x) => Has(todo'[k], x)
<1>1. todo \in [Loop -> Seq(Frame)]
  BY Types
<1>2. \A k \in Loop : todo'[k] = IF k = l THEN frames ELSE todo[k]
  BY <1>1
<1>3. \A x : ~Has(todo[l], x)
  BY HasShort
<1> QED
  BY <1>1, <1>2, <1>3

(* A functor that ran is behind in the batch.                               *)
LEMMA RunsIs ==
  ASSUME ServerInv, NEW l \in Loop, NEW f, Runs(l, f)
  PROVE  /\ todo[l] = <<>> /\ Has(batch[l], f)
         /\ ran[l] + 1 \in 1..Len(batch[l]) /\ batch[l][ran[l] + 1] = f
         /\ ran' \in [Loop -> Nat] /\ ran'[l] = ran[l] + 1
         /\ \A k \in Loop : ran'[k] <= Len(batch[k])
         /\ UNCHANGED <<server, numThreads, maxOpen, nextConnId, name, batch, active, holds, arrived,
                        accepted, hungUp>>
         /\ \A d \in Conn, k \in Loop, i \in Nat : InBatch(d, k, i)' => InBatch(d, k, i)
<1>1. /\ todo[l] = <<>> /\ ran[l] < Len(batch[l]) /\ ran' = [ran EXCEPT ![l] = @ + 1]
      /\ batch[l][ran[l] + 1] = f
      /\ UNCHANGED <<server, numThreads, maxOpen, nextConnId, name, batch, active, holds, arrived,
                     accepted, hungUp>>
  BY DEF Runs, clients
<1>2. \A k \in Loop : ran[k] \in Nat /\ Len(batch[k]) \in Nat /\ ran[k] <= Len(batch[k])
  BY Types
<1>3. /\ ran' \in [Loop -> Nat] /\ ran'[l] = ran[l] + 1
      /\ \A k \in Loop : ran'[k] <= Len(batch[k]) /\ ran[k] <= ran'[k] /\ ran'[k] \in Nat
  <2>1. ran \in [Loop -> Nat]
    BY Types
  <2>2. \A k \in Loop : ran'[k] = IF k = l THEN ran[l] + 1 ELSE ran[k]
    BY <1>1, <2>1
  <2> QED
    BY <1>1, <1>2, <2>1, <2>2
<1>4. ran[l] + 1 \in 1..Len(batch[l])
  BY <1>1, <1>2
<1>5. ASSUME NEW d \in Conn, NEW k \in Loop, NEW i \in Nat, InBatch(d, k, i)'
      PROVE  InBatch(d, k, i)
  <2>1. i \in ran'[k] + 1..Len(batch[k]) /\ batch[k][i] = <<"established", d>>
    BY <1>1, <1>5 DEF InBatch, Est
  <2>2. i \in ran[k] + 1..Len(batch[k])
    <3>1. ran[k] <= ran'[k] /\ ran[k] \in Nat /\ ran'[k] \in Nat /\ Len(batch[k]) \in Nat
      BY <1>2, <1>3
    <3> QED
      BY <2>1, <3>1
  <2> QED
    BY <2>1, <2>2 DEF InBatch, Est
<1> QED
  BY <1>1, <1>3, <1>4, <1>5 DEF Has

(* handleClose says down only of what was up, and again only once the       *)
(* server is gone: until then a channel that is reported is on.             *)
LEMMA LoweringKeeps ==
  ASSUME ServerInv, NEW c \in Conn, ups[c] = 1, server # "gone" => c \in registered, Lower(c),
         UNCHANGED <<server, numThreads, nextConnId, name, connections, ups, accepted>>
  PROVE  /\ Names' /\ Told' /\ Known'
         /\ connected' \subseteq connected /\ registered' \subseteq Conn
         /\ \A d \in Conn \ {c} : d \in registered' <=> d \in registered
         /\ downs' \in [Conn -> Nat]
         /\ \A d \in Conn : downs'[d] = IF d = c THEN downs[c] + 1 ELSE downs[d]
<1>0. Names /\ Told /\ Known
  BY DEF ServerInv
<1>1. downs \in [Conn -> Nat] /\ \A d \in Conn : downs[d] \in Nat
  BY Types
<1>2. \A d \in Conn : downs'[d] = IF d = c THEN downs[c] + 1 ELSE downs[d]
  BY <1>1 DEF Lower
<1>3. downs' \in [Conn -> Nat] /\ downs[c] + 1 # 0
  BY <1>1 DEF Lower
<1>4. /\ connected' = connected \ {c} /\ registered' \subseteq Conn
      /\ \A d \in Conn \ {c} : d \in registered' <=> d \in registered
      /\ server # "gone" => c \notin registered'
  BY Types DEF Lower, DisableAll
<1>5. Told'
  BY <1>0, <1>2, <1>4 DEF Told
<1>6. Names' /\ Known'
  BY <1>0, <1>2, <1>3 DEF Names, Known
<1> QED
  BY <1>2, <1>3, <1>4, <1>5, <1>6

LEMMA HandleEventIs ==
  ASSUME ServerInv, NEW l \in Loop, NEW c \in Conn, HandleEvent(l, c)
  PROVE  /\ todo[l] = <<>> /\ LoopOf(c) = l /\ ups[c] = 1 /\ (server # "gone" => c \in registered)
         /\ active' = [active EXCEPT ![l] = @ \ {c}]
         /\ UNCHANGED <<server, numThreads, maxOpen, nextConnId, connections, name, ups, pending,
                        batch, ran, holds, arrived, accepted, hungUp>>
<1>1. /\ todo[l] = <<>> /\ c \in active[l]
      /\ active' = [active EXCEPT ![l] = @ \ {c}]
      /\ UNCHANGED <<server, numThreads, maxOpen, nextConnId, connections, name, ups, pending,
                     batch, ran, holds, arrived, accepted, hungUp>>
  BY DEF HandleEvent, Reports, Handled, Lower, clients
<1> QED
  BY <1>1 DEF ServerInv, Reported

LEMMA HandleEventStep ==
  ASSUME ServerInv, NEW l \in Loop, NEW c \in Conn, HandleEvent(l, c)
  PROVE  ServerInv'
<1>0. TypeOK /\ Names /\ Told /\ Queues /\ Removing /\ Leaving /\ Known /\ Gone
  BY DEF ServerInv
<1>1. /\ todo[l] = <<>> /\ LoopOf(c) = l /\ ups[c] = 1 /\ (server # "gone" => c \in registered)
      /\ active' = [active EXCEPT ![l] = @ \ {c}]
      /\ UNCHANGED <<server, numThreads, maxOpen, nextConnId, connections, name, ups, pending, batch,
                     ran, holds, arrived, accepted, hungUp>>
  BY HandleEventIs
<1>2. PICK frames \in {<< <<"user", c>> >>, << <<"user", c>>, <<"close", c>> >>} :
        /\ todo' = [todo EXCEPT ![l] = frames]
        /\ \/ frames = << <<"user", c>> >> /\ UNCHANGED <<connected, registered, downs>>
           \/ Lower(c)
  BY DEF HandleEvent
<1>3. frames \in Seq(Frame)
  <2>1. <<"user", c>> \in Frame /\ <<"close", c>> \in Frame
    BY DEF Frame
  <2>2. << <<"user", c>> >> \in Seq(Frame) /\ << <<"user", c>>, <<"close", c>> >> \in Seq(Frame)
    BY <2>1
  <2> QED
    BY <1>2, <2>2
<1>4. \A x : Has(frames, x) => x = <<"user", c>> \/ (x = <<"close", c>> /\ Lower(c))
  <2>1. \A x : /\ Has(<< <<"user", c>> >>, x) => x = <<"user", c>>
               /\ Has(<< <<"user", c>>, <<"close", c>> >>, x) => x = <<"user", c>> \/ x = <<"close", c>>
    BY HasShort
  <2>2. << <<"user", c>> >> # << <<"user", c>>, <<"close", c>> >>
    OBVIOUS
  <2> QED
    BY <1>2, <2>1, <2>2
<1>5. /\ todo' \in [Loop -> Seq(Frame)]
      /\ \A k \in Loop : \A x : Has(todo'[k], x) => Has(todo[k], x) \/ (k = l /\ Has(frames, x))
      /\ \A k \in Loop : \A x : Has(todo[k], x) => Has(todo'[k], x)
  BY <1>1, <1>2, <1>3, BeginsIs
<1>6. /\ Names' /\ Told' /\ Known'
      /\ connected' \subseteq connected /\ registered' \subseteq Conn
      /\ \A d \in Conn \ {c} : d \in registered' <=> d \in registered
      /\ downs' \in [Conn -> Nat]
      /\ \A d \in Conn : downs[d] # 0 => downs'[d] # 0
      /\ Lower(c) => downs'[c] # 0
  <2>1. CASE UNCHANGED <<connected, registered, downs>> /\ ~Lower(c)
    BY <1>0, <1>1, <2>1, Types DEF Names, Told, Known
  <2>2. CASE Lower(c)
    <3>1. \A d \in Conn : downs[d] \in Nat /\ downs'[d] = IF d = c THEN downs[c] + 1 ELSE downs[d]
      BY <1>1, <2>2, LoweringKeeps, Types
    <3>2. \A d \in Conn : downs[d] # 0 \/ d = c => downs'[d] # 0
      BY <3>1
    <3> QED
      BY <1>1, <2>2, <3>2, LoweringKeeps
  <2> QED
    BY <1>2, <2>1, <2>2
<1>7. \A k \in Loop, d \in Conn : d \in active'[k] => d \in active[k] /\ d # c
  <2>1. \A k \in Loop : active'[k] = IF k = l THEN active[l] \ {c} ELSE active[k]
    BY <1>1, Types
  <2>2. \A k \in Loop : k # l => c \notin active[k]
    BY <1>1 DEF ServerInv, Reported
  <2> QED
    BY <2>1, <2>2
<1>8. TypeOK'
  <2>1. active' \in [Loop -> SUBSET (Conn \union {Listener})]
    BY <1>0, <1>1 DEF TypeOK
  <2> QED
    BY <1>0, <1>1, <1>5, <1>6, <2>1 DEF TypeOK
<1>9. Queues'
  BY <1>0, <1>1, QueuesShrink DEF InPending, InBatch
<1>10. Removing' /\ Leaving'
  <2>1. \A d : /\ <<"close", d>> # <<"user", c>> /\ (<<"close", d>> = <<"close", c>> => d = c)
               /\ <<"destroy", d>> # <<"user", c>> /\ <<"destroy", d>> # <<"close", c>>
    OBVIOUS
  <2>2. \A d \in Conn, k \in Loop :
          /\ Has(todo'[k], <<"close", d>>) => Has(todo[k], <<"close", d>>) \/ downs'[d] # 0
          /\ Has(todo'[k], <<"destroy", d>>) => Has(todo[k], <<"destroy", d>>)
    BY <1>4, <1>5, <1>6, <2>1
  <2> QED
    BY <1>0, <1>1, <1>6, <2>2 DEF Removing, Leaving
<1>11. Gone'
  BY <1>0, <1>1, <1>5, <1>6, Types DEF Gone
<1>12. Reported'
  BY <1>1, <1>6, <1>7, ReportedKeeps
<1> QED
  BY <1>6, <1>8, <1>9, <1>10, <1>11, <1>12 DEF ServerInv

(* By the time the functor of connectDestroyed runs, handleClose has said   *)
(* down, and it has nothing left to say.                                    *)
LEMMA RunDestroyedIs ==
  ASSUME ServerInv, NEW l \in Loop, NEW c \in Conn, RunDestroyed(l, c)
  PROVE  UNCHANGED <<server, connected, registered, ups, downs, todo>>
<1>1. Runs(l, Dest(c)) /\ ConnectDestroyed(c) /\ todo' = [todo EXCEPT ![l] = DestroyedFrames(c)]
  BY DEF RunDestroyed, Dest
<1>2. Has(batch[l], Dest(c)) /\ todo[l] = <<>> /\ server' = server
  BY <1>1, RunsIs
<1>3. c \notin connected
  BY <1>2 DEF ServerInv, Removing, Told
<1> QED
  BY <1>1, <1>2, <1>3, Types DEF ConnectDestroyed, DestroyedFrames, ToldDown

LEMMA RunDestroyedStep ==
  ASSUME ServerInv, NEW l \in Loop, NEW c \in Conn, RunDestroyed(l, c)
  PROVE  ServerInv'
<1>0. TypeOK /\ Names /\ Told /\ Queues /\ Removing /\ Leaving /\ Known /\ Gone
  BY DEF ServerInv
<1>1. Runs(l, Dest(c)) /\ UNCHANGED <<connections, pending>>
  BY DEF RunDestroyed, Dest
<1>2. UNCHANGED <<server, connected, registered, ups, downs, todo>>
  BY RunDestroyedIs
<1>3. /\ ran' \in [Loop -> Nat] /\ \A k \in Loop : ran'[k] <= Len(batch[k])
      /\ UNCHANGED <<numThreads, maxOpen, nextConnId, name, batch, active, holds, arrived,
                     accepted, hungUp>>
      /\ \A d \in Conn, k \in Loop, i \in Nat : InBatch(d, k, i)' => InBatch(d, k, i)
  BY <1>1, RunsIs
<1>4. TypeOK'
  BY <1>0, <1>1, <1>2, <1>3 DEF TypeOK
<1>5. Queues'
  <2>1. \A d \in Conn, k \in Loop, i \in Nat : InPending(d, k, i)' => InPending(d, k, i)
    BY <1>1 DEF InPending
  <2> QED
    BY <1>0, <1>2, <1>3, <2>1, QueuesShrink
<1>6. Names' /\ Told' /\ Reported' /\ Removing' /\ Leaving' /\ Known' /\ Gone'
  BY <1>0, <1>1, <1>2, <1>3, ReportedKeeps DEF Names, Told, Removing, Leaving, Known, Gone
<1> QED
  BY <1>4, <1>5, <1>6 DEF ServerInv

(* What removeConnectionInLoop does: a connection that went down is no      *)
(* longer known, and its loop is told to destroy it.                        *)
LEMMA RemovesIs ==
  ASSUME ServerInv, NEW c \in Conn, downs[c] # 0, RemoveConnectionInLoop(c),
         UNCHANGED <<server, numThreads, nextConnId, name, connected, registered, ups, downs, accepted>>
  PROVE  /\ Names' /\ Told' /\ Known'
         /\ connections' = [connections EXCEPT ![c] = NoConn] /\ c <= accepted /\ name[c] = c
         /\ connections' \in [Conn -> Conn \union {NoConn}]
         /\ pending' \in [Loop -> Seq(Functor)]
         /\ \A d \in Conn, l \in Loop :
              /\ Has(pending'[l], Rem(d)) => Has(pending[l], Rem(d))
              /\ Has(pending'[l], Dest(d)) => Has(pending[l], Dest(d)) \/ d = c
         /\ \A d \in Conn, l \in Loop, i \in Nat : InPending(d, l, i)' => InPending(d, l, i)
<1>0. Names /\ Told /\ Known
  BY DEF ServerInv
<1>1. c <= accepted /\ name[c] = c
  <2>1. c \in Nat /\ accepted \in Nat /\ ups[c] # 0
    BY <1>0, Types DEF Told, Conn
  <2> QED
    BY <1>0, <2>1 DEF Names
<1>2. /\ connections' = [connections EXCEPT ![c] = NoConn]
      /\ connections' \in [Conn -> Conn \union {NoConn}]
  BY <1>1, Types DEF RemoveConnectionInLoop
<1>3. Names' /\ Told' /\ Known'
  <2>1. \A d \in Conn : connections'[d] = IF d = c THEN NoConn ELSE connections[d]
    BY <1>2, Types
  <2>2. Names'
    BY <1>0, <2>1 DEF Names
  <2>3. Known'
    BY <1>0, <2>1 DEF Known
  <2> QED
    BY <1>0, <2>2, <2>3 DEF Told
<1>4. LoopOf(c) \in Loop /\ Dest(c) \in Functor /\ pending' = Queued(pending, LoopOf(c), Dest(c))
  BY LoopOfIsLoop, Types, FunctorsDiffer DEF Dest, RemoveConnectionInLoop
<1>5. /\ pending' \in [Loop -> Seq(Functor)]
      /\ \A k \in Loop : \A x : Has(pending'[k], x) => Has(pending[k], x) \/ x = Dest(c)
      /\ \A k \in Loop : \A i, x : At(pending'[k], i, x) => At(pending[k], i, x) \/ x = Dest(c)
  <2>1. PICK l0 \in Loop, f \in Functor :
          l0 = LoopOf(c) /\ f = Dest(c) /\ pending' = Queued(pending, l0, f)
    BY <1>4
  <2>2. pending' \in [Loop -> Seq(Functor)]
    BY <2>1, QueuedIs
  <2>3. \A k \in Loop : \A x : Has(pending'[k], x) => Has(pending[k], x) \/ x = f
    BY <2>1, QueuedIs
  <2>4. \A k \in Loop : \A i, x : At(pending'[k], i, x) => At(pending[k], i, x) \/ x = f
    BY <2>1, QueuedIs
  <2> QED
    BY <2>1, <2>2, <2>3, <2>4
<1>6. \A d : Rem(d) # Dest(c) /\ Est(d) # Dest(c) /\ (Dest(d) = Dest(c) => d = c)
  BY FunctorsDiffer
<1>7. \A d \in Conn, l \in Loop :
        /\ Has(pending'[l], Rem(d)) => Has(pending[l], Rem(d))
        /\ Has(pending'[l], Dest(d)) => Has(pending[l], Dest(d)) \/ d = c
  <2> SUFFICES ASSUME NEW d \in Conn, NEW l \in Loop
               PROVE  /\ Has(pending'[l], Rem(d)) => Has(pending[l], Rem(d))
                      /\ Has(pending'[l], Dest(d)) => Has(pending[l], Dest(d)) \/ d = c
    OBVIOUS
  <2>1. Rem(d) # Dest(c) /\ (Dest(d) = Dest(c) => d = c)
    BY <1>6
  <2> QED
    BY <1>5, <2>1
<1>8. \A d \in Conn, l \in Loop, i \in Nat : InPending(d, l, i)' => InPending(d, l, i)
  BY <1>5, <1>6 DEF InPending
<1> QED
  BY <1>1, <1>2, <1>3, <1>5, <1>7, <1>8

LEMMA RemoveConnectionStep ==
  ASSUME ServerInv, NEW l \in Loop, NEW c \in Conn, RemoveConnection(l, c)
  PROVE  ServerInv'
<1>0. TypeOK /\ Names /\ Told /\ Queues /\ Removing /\ Leaving /\ Known /\ Gone
  BY DEF ServerInv
<1>1. /\ todo[l] # <<>> /\ Head(todo[l]) = <<"close", c>> /\ Becomes(l, <<>>) /\ server # "gone"
      /\ UNCHANGED <<server, numThreads, maxOpen, nextConnId, name, connected, registered, ups, downs,
                     batch, ran, active, holds, arrived, accepted, hungUp>>
  BY DEF RemoveConnection, Does, conns, clients
<1>2. downs[c] # 0
  <2>1. Has(todo[l], <<"close", c>>)
    BY <1>1, Types, HasTail
  <2> QED
    BY <1>0, <2>1 DEF Removing
<1>3. /\ todo' \in [Loop -> Seq(Frame)]
      /\ \A k \in Loop : \A x : Has(todo'[k], x) => Has(todo[k], x)
  <2>1. <<>> \in Seq(Frame)
    OBVIOUS
  <2>2. \A x : ~Has(<<>>, x)
    BY HasShort
  <2> QED
    BY <1>1, <2>1, <2>2, BecomesIs
<1>4. /\ Names' /\ Told' /\ Known'
      /\ connections' \in [Conn -> Conn \union {NoConn}]
      /\ pending' \in [Loop -> Seq(Functor)]
      /\ \A d \in Conn, k \in Loop :
           /\ Has(pending'[k], Rem(d)) => Has(pending[k], Rem(d)) \/ d = c
           /\ Has(pending'[k], Dest(d)) => Has(pending[k], Dest(d)) \/ d = c
      /\ \A d \in Conn, k \in Loop, i \in Nat : InPending(d, k, i)' => InPending(d, k, i)
  <2>1. CASE RemoveConnectionInLoop(c)
    BY <1>1, <1>2, <2>1, RemovesIs
  <2>2. CASE pending' = Queued(pending, Base, <<"remove", c>>) /\ UNCHANGED connections
    <3>1. Base \in Loop /\ Rem(c) \in Functor /\ pending' = Queued(pending, Base, Rem(c))
      BY <2>2, Types, FunctorsDiffer DEF Rem
    <3>2. /\ pending' \in [Loop -> Seq(Functor)]
          /\ \A k \in Loop : \A x : Has(pending'[k], x) => Has(pending[k], x) \/ x = Rem(c)
          /\ \A k \in Loop : \A i, x : At(pending'[k], i, x) => At(pending[k], i, x) \/ x = Rem(c)
      <4>1. PICK l0 \in Loop, f \in Functor : f = Rem(c) /\ pending' = Queued(pending, l0, f)
        BY <3>1
      <4>2. pending' \in [Loop -> Seq(Functor)]
        BY <4>1, QueuedIs
      <4>3. \A k \in Loop : \A x : Has(pending'[k], x) => Has(pending[k], x) \/ x = f
        BY <4>1, QueuedIs
      <4>4. \A k \in Loop : \A i, x : At(pending'[k], i, x) => At(pending[k], i, x) \/ x = f
        BY <4>1, QueuedIs
      <4> QED
        BY <4>1, <4>2, <4>3, <4>4
    <3>3. \A d : Est(d) # Rem(c) /\ Dest(d) # Rem(c) /\ (Rem(d) = Rem(c) => d = c)
      BY FunctorsDiffer
    <3>4. \A d \in Conn, k \in Loop :
            /\ Has(pending'[k], Rem(d)) => Has(pending[k], Rem(d)) \/ d = c
            /\ Has(pending'[k], Dest(d)) => Has(pending[k], Dest(d))
      BY <3>2, <3>3
    <3>5. \A d \in Conn, k \in Loop, i \in Nat : InPending(d, k, i)' => InPending(d, k, i)
      BY <3>2, <3>3 DEF InPending
    <3>6. Names' /\ Told' /\ Known'
      BY <1>0, <1>1, <2>2 DEF Names, Told, Known
    <3> QED
      BY <2>2, <3>2, <3>4, <3>5, <3>6, Types
  <2> QED
    BY <2>1, <2>2 DEF RemoveConnection
<1>5. TypeOK'
  BY <1>0, <1>1, <1>3, <1>4 DEF TypeOK
<1>6. Queues'
  BY <1>0, <1>1, <1>4, QueuesShrink DEF InBatch
<1>7. Removing' /\ Leaving'
  BY <1>0, <1>1, <1>2, <1>3, <1>4 DEF Removing, Leaving
<1>8. Reported' /\ Gone'
  BY <1>1, ReportedKeeps DEF Gone
<1> QED
  BY <1>4, <1>5, <1>6, <1>7, <1>8 DEF ServerInv

LEMMA RunRemoveStep ==
  ASSUME ServerInv, NEW l \in Loop, NEW c \in Conn, RunRemove(l, c)
  PROVE  ServerInv'
<1>0. TypeOK /\ Queues /\ Removing /\ Leaving
  BY DEF ServerInv
<1>1. /\ Runs(l, Rem(c)) /\ server # "gone" /\ RemoveConnectionInLoop(c)
      /\ UNCHANGED <<connected, registered, ups, downs, todo>>
  BY DEF RunRemove, Rem
<1>2. /\ Has(batch[l], Rem(c))
      /\ ran' \in [Loop -> Nat] /\ \A k \in Loop : ran'[k] <= Len(batch[k])
      /\ UNCHANGED <<server, numThreads, maxOpen, nextConnId, name, batch, active, holds, arrived,
                     accepted, hungUp>>
      /\ \A d \in Conn, k \in Loop, i \in Nat : InBatch(d, k, i)' => InBatch(d, k, i)
  BY <1>1, RunsIs
<1>3. downs[c] # 0
  BY <1>0, <1>2 DEF Removing
<1>4. /\ Names' /\ Told' /\ Known'
      /\ connections' \in [Conn -> Conn \union {NoConn}]
      /\ pending' \in [Loop -> Seq(Functor)]
      /\ \A d \in Conn, k \in Loop :
           /\ Has(pending'[k], Rem(d)) => Has(pending[k], Rem(d))
           /\ Has(pending'[k], Dest(d)) => Has(pending[k], Dest(d)) \/ d = c
      /\ \A d \in Conn, k \in Loop, i \in Nat : InPending(d, k, i)' => InPending(d, k, i)
  BY <1>1, <1>2, <1>3, RemovesIs
<1>5. TypeOK'
  BY <1>0, <1>1, <1>2, <1>4 DEF TypeOK
<1>6. Queues'
  BY <1>0, <1>1, <1>2, <1>4, QueuesShrink
<1>7. Removing' /\ Leaving'
  BY <1>0, <1>1, <1>2, <1>3, <1>4 DEF Removing, Leaving
<1>8. Reported' /\ Gone'
  BY <1>1, <1>2, ReportedKeeps DEF Gone
<1> QED
  BY <1>4, <1>5, <1>6, <1>7, <1>8 DEF ServerInv

(* doPendingFunctors takes the functors over into a batch and lets them go  *)
(* when it called them all.                                                 *)
LEMMA DoPendingFunctorsStep ==
  ASSUME ServerInv, NEW l \in Loop, DoPendingFunctors(l)
  PROVE  ServerInv'
<1>0. TypeOK /\ Names /\ Told /\ Queues /\ Removing /\ Leaving /\ Known /\ Gone
  BY DEF ServerInv
<1>1. /\ batch[l] = <<>> /\ batch' = [batch EXCEPT ![l] = pending[l]]
      /\ pending' = [pending EXCEPT ![l] = <<>>]
      /\ UNCHANGED <<server, numThreads, maxOpen, nextConnId, connections, name, connected,
                     registered, ups, downs, ran, active, todo, holds, arrived, accepted, hungUp>>
  BY DEF DoPendingFunctors, Idle, conns, clients
<1>2. \A k \in Loop : /\ batch'[k] = IF k = l THEN pending[l] ELSE batch[k]
                      /\ pending'[k] = IF k = l THEN <<>> ELSE pending[k]
  BY <1>1, Types
<1>3. batch' \in [Loop -> Seq(Functor)] /\ pending' \in [Loop -> Seq(Functor)]
  BY <1>1, Types
<1>4. ran[l] = 0 /\ Len(pending[l]) \in Nat
  <2>1. ran[l] <= Len(batch[l]) /\ ran[l] \in Nat /\ pending[l] \in Seq(Functor)
    BY Types
  <2>2. Len(batch[l]) = 0
    BY <1>1
  <2> QED
    BY <2>1, <2>2, LenProperties
<1>5. TypeOK'
  <2>1. \A k \in Loop : ran'[k] <= Len(batch'[k])
    BY <1>1, <1>2, <1>4, Types
  <2> QED
    BY <1>0, <1>1, <1>3, <2>1 DEF TypeOK
<1>6. Names' /\ Told' /\ Reported' /\ Leaving' /\ Known' /\ Gone'
  BY <1>0, <1>1, ReportedKeeps DEF Names, Told, Leaving, Known, Gone
<1>7. Queues'
  <2>1. \A c \in Conn, k \in Loop, i \in Nat :
          /\ InPending(c, k, i)' => k # l /\ InPending(c, k, i)
          /\ InBatch(c, k, i)' => (k = l /\ InPending(c, k, i)) \/ (k # l /\ InBatch(c, k, i))
    <3> SUFFICES ASSUME NEW c \in Conn, NEW k \in Loop, NEW i \in Nat
                 PROVE  /\ InPending(c, k, i)' => k # l /\ InPending(c, k, i)
                        /\ InBatch(c, k, i)' => (k = l /\ InPending(c, k, i)) \/ (k # l /\ InBatch(c, k, i))
      OBVIOUS
    <3>1. CASE k = l
      <4>1. ran'[l] = 0 /\ batch'[l] = pending[l] /\ pending'[l] = <<>>
        BY <1>1, <1>2, <1>4
      <4> QED
        BY <1>4, <3>1, <4>1 DEF InPending, InBatch, At, Est
    <3>2. CASE k # l
      <4>1. ran'[k] = ran[k] /\ batch'[k] = batch[k] /\ pending'[k] = pending[k]
        BY <1>1, <1>2, <3>2
      <4> QED
        BY <3>2, <4>1 DEF InPending, InBatch
    <3> QED
      BY <3>1, <3>2
  <2>2. \A c \in Conn : LoopOf(c)' = LoopOf(c)
    BY <1>1 DEF LoopOf
  <2> QED
    BY <1>0, <1>1, <2>1, <2>2 DEF Queues
<1>8. Removing'
  <2>1. \A k \in Loop : \A x :
          /\ Has(pending'[k], x) => Has(pending[k], x)
          /\ Has(batch'[k], x) => Has(pending[k], x) \/ Has(batch[k], x)
    BY <1>2, HasShort
  <2> QED
    BY <1>0, <1>1, <2>1 DEF Removing
<1> QED
  BY <1>5, <1>6, <1>7, <1>8 DEF ServerInv

LEMMA BatchDoneStep ==
  ASSUME ServerInv, NEW l \in Loop, BatchDone(l)
  PROVE  ServerInv'
<1>0. TypeOK /\ Names /\ Told /\ Queues /\ Removing /\ Leaving /\ Known /\ Gone
  BY DEF ServerInv
<1>1. /\ batch' = [batch EXCEPT ![l] = <<>>] /\ ran' = [ran EXCEPT ![l] = 0]
      /\ UNCHANGED <<server, numThreads, maxOpen, nextConnId, connections, name, connected,
                     registered, ups, downs, pending, active, todo, holds, arrived, accepted, hungUp>>
  BY DEF BatchDone, conns, clients
<1>2. \A k \in Loop : /\ batch'[k] = IF k = l THEN <<>> ELSE batch[k]
                      /\ ran'[k] = IF k = l THEN 0 ELSE ran[k]
  BY <1>1, Types
<1>3. batch' \in [Loop -> Seq(Functor)] /\ ran' \in [Loop -> Nat]
  BY <1>1, Types
<1>4. TypeOK'
  <2>1. ASSUME NEW k \in Loop
        PROVE  ran'[k] <= Len(batch'[k])
    <3>1. CASE k = l
      <4>1. ran'[k] = 0 /\ batch'[k] = <<>>
        BY <1>2, <3>1
      <4> QED
        BY <4>1
    <3>2. CASE k # l
      <4>1. ran'[k] = ran[k] /\ batch'[k] = batch[k]
        BY <1>2, <3>2
      <4> QED
        BY <4>1, Types
    <3> QED
      BY <3>1, <3>2
  <2> QED
    BY <1>0, <1>1, <1>3, <2>1 DEF TypeOK
<1>5. Names' /\ Told' /\ Reported' /\ Leaving' /\ Known' /\ Gone'
  BY <1>0, <1>1, ReportedKeeps DEF Names, Told, Leaving, Known, Gone
<1>6. Queues'
  <2>1. \A c \in Conn, k \in Loop, i \in Nat : InBatch(c, k, i)' => InBatch(c, k, i)
    BY <1>2 DEF InBatch, Est
  <2>2. \A c \in Conn, k \in Loop, i \in Nat : InPending(c, k, i)' => InPending(c, k, i)
    BY <1>1 DEF InPending
  <2> QED
    BY <1>0, <1>1, <2>1, <2>2, QueuesShrink
<1>7. Removing'
  <2>1. \A k \in Loop : \A x : Has(batch'[k], x) => Has(batch[k], x)
    BY <1>2, HasShort
  <2> QED
    BY <1>0, <1>1, <2>1 DEF Removing
<1> QED
  BY <1>4, <1>5, <1>6, <1>7 DEF ServerInv

(* connectEstablished runs once, so that the connection was not up before.  *)
LEMMA RunEstablishedIs ==
  ASSUME ServerInv, NEW l \in Loop, NEW c \in Conn, RunEstablished(l, c)
  PROVE  /\ l = LoopOf(c) /\ numThreads # 0 /\ server # "gone"
         /\ c <= accepted /\ ups[c] = 0 /\ downs[c] = 0
         /\ \A k \in Loop, i \in Nat : ~InPending(c, k, i)' /\ ~InBatch(c, k, i)'
<1>0. Queues /\ Gone /\ Told
  BY DEF ServerInv
<1>1. /\ Runs(l, Est(c)) /\ UNCHANGED pending
  BY DEF RunEstablished, Est
<1>2. /\ ran[l] + 1 \in 1..Len(batch[l]) /\ batch[l][ran[l] + 1] = Est(c)
      /\ ran'[l] = ran[l] + 1 /\ UNCHANGED batch
      /\ \A d \in Conn, k \in Loop, i \in Nat : InBatch(d, k, i)' => InBatch(d, k, i)
  BY <1>1, RunsIs
<1>3. ran[l] + 1 \in Nat /\ InBatch(c, l, ran[l] + 1)
  <2>1. ran[l] \in Nat /\ Len(batch[l]) \in Nat
    BY Types
  <2> QED
    BY <1>2, <2>1 DEF InBatch
<1>4. l = LoopOf(c) /\ l # Base /\ c <= accepted /\ ups[c] = 0
  BY <1>0, <1>3 DEF Queues
<1>5. numThreads # 0 /\ server # "gone"
  BY <1>0, <1>4, LoopOfIsLoop, Types DEF Gone
<1>6. downs[c] = 0
  BY <1>0, <1>4 DEF Told
<1>7. ASSUME NEW k \in Loop, NEW i \in Nat
      PROVE  ~InPending(c, k, i)' /\ ~InBatch(c, k, i)'
  <2>1. InPending(c, k, i)' => InPending(c, k, i)
    BY <1>1 DEF InPending
  <2>2. ~InPending(c, k, i)
    BY <1>0, <1>3, <1>4 DEF Queues
  <2>3. InBatch(c, k, i) => k = l /\ i = ran[l] + 1
    BY <1>0, <1>3, <1>4 DEF Queues
  <2>4. k = l /\ i = ran[l] + 1 => ~InBatch(c, k, i)'
    <3>1. ran[l] + 1 \notin ran'[l] + 1..Len(batch'[l])
      BY <1>2, <1>3
    <3> QED
      BY <3>1 DEF InBatch
  <2> QED
    BY <1>2, <2>1, <2>2, <2>3, <2>4
<1> QED
  BY <1>4, <1>5, <1>6, <1>7

LEMMA RunEstablishedStep ==
  ASSUME ServerInv, NEW l \in Loop, NEW c \in Conn, RunEstablished(l, c)
  PROVE  ServerInv'
<1>0. TypeOK /\ Names /\ Told /\ Queues /\ Removing /\ Leaving /\ Known /\ Gone
  BY DEF ServerInv
<1>1. /\ Runs(l, Est(c)) /\ UNCHANGED <<connections, pending, downs>>
      /\ connected' = connected \union {c} /\ registered' = registered \union {c}
      /\ ups' = [ups EXCEPT ![c] = @ + 1]
      /\ todo' = [todo EXCEPT ![l] = << <<"user", c>> >>]
  BY DEF RunEstablished, Raise, Est
<1>2. /\ todo[l] = <<>>
      /\ ran' \in [Loop -> Nat] /\ \A k \in Loop : ran'[k] <= Len(batch[k])
      /\ UNCHANGED <<server, numThreads, maxOpen, nextConnId, name, batch, active, holds, arrived,
                     accepted, hungUp>>
      /\ \A d \in Conn, k \in Loop, i \in Nat : InBatch(d, k, i)' => InBatch(d, k, i)
  BY <1>1, RunsIs
<1>3. /\ numThreads # 0 /\ server # "gone" /\ c <= accepted /\ ups[c] = 0 /\ downs[c] = 0
      /\ \A k \in Loop, i \in Nat : ~InPending(c, k, i)' /\ ~InBatch(c, k, i)'
  BY RunEstablishedIs
<1>4. /\ ups' \in [Conn -> Nat]
      /\ \A d \in Conn : ups'[d] = IF d = c THEN 1 ELSE ups[d]
  BY <1>1, <1>3, Types
<1>5. /\ todo' \in [Loop -> Seq(Frame)]
      /\ \A k \in Loop : \A x : Has(todo'[k], x) => Has(todo[k], x) \/ x = <<"user", c>>
  <2>1. << <<"user", c>> >> \in Seq(Frame)
    BY DEF Frame
  <2>2. \A x : Has(<< <<"user", c>> >>, x) => x = <<"user", c>>
    BY HasShort
  <2> QED
    BY <1>1, <1>2, <2>1, <2>2, BeginsIs
<1>6. TypeOK'
  BY <1>0, <1>1, <1>2, <1>4, <1>5 DEF TypeOK
<1>7. Names'
  <2>1. c \in Nat /\ accepted \in Nat
    BY Types DEF Conn
  <2> QED
    BY <1>0, <1>1, <1>2, <1>3, <1>4, <2>1 DEF Names
<1>8. Told'
  BY <1>0, <1>1, <1>3, <1>4 DEF Told
<1>9. Queues'
  <2>1. \A d \in Conn : LoopOf(d)' = LoopOf(d)
    BY <1>2 DEF LoopOf
  <2>2. \A d \in Conn, k \in Loop, i \in Nat :
          /\ InPending(d, k, i)' => d # c /\ InPending(d, k, i)
          /\ InBatch(d, k, i)' => d # c /\ InBatch(d, k, i)
    <3>1. \A d \in Conn, k \in Loop, i \in Nat : InPending(d, k, i)' => InPending(d, k, i)
      BY <1>1 DEF InPending
    <3> QED
      BY <1>2, <1>3, <3>1
  <2> QED
    BY <1>0, <1>2, <1>4, <2>1, <2>2 DEF Queues
<1>10. Removing' /\ Leaving'
  <2>1. \A d : <<"close", d>> # <<"user", c>> /\ <<"destroy", d>> # <<"user", c>>
    OBVIOUS
  <2>2. \A d \in Conn, k \in Loop :
          /\ Has(todo'[k], <<"close", d>>) => Has(todo[k], <<"close", d>>)
          /\ Has(todo'[k], <<"destroy", d>>) => Has(todo[k], <<"destroy", d>>)
    BY <1>5, <2>1
  <2> QED
    BY <1>0, <1>1, <1>2, <2>2 DEF Removing, Leaving
<1>12. Reported'
  BY <1>1, <1>2, <1>4, ReportedKeeps
<1>11. Known' /\ Gone'
  BY <1>0, <1>1, <1>2, <1>3 DEF Known, Gone
<1> QED
  BY <1>6, <1>7, <1>8, <1>9, <1>10, <1>11, <1>12 DEF ServerInv

(* Accepting a connection: it gets a name that no other has.                *)
LEMMA NewConnectionIs ==
  ASSUME ServerInv, NewConnection, NEW c, c = accepted + 1
  PROVE  /\ c \in Conn /\ server = "listening" /\ todo[Base] = <<>>
         /\ accepted' = c /\ nextConnId' = c + 1 /\ name[c] \in Conn \union {NoConn}
         /\ name' = [name EXCEPT ![c] = c] /\ connections' = [connections EXCEPT ![c] = c]
         /\ ups[c] = 0 /\ downs[c] = 0 /\ c \notin connected /\ c \notin registered
         /\ \A l \in Loop, i \in Nat : ~InPending(c, l, i) /\ ~InBatch(c, l, i)
         /\ active' = [active EXCEPT ![Base] = @ \ {Listener}]
         /\ UNCHANGED <<server, numThreads, maxOpen, batch, ran, holds, arrived, hungUp, downs>>
         /\ \/ /\ LoopOf(c) = Base
               /\ Raise(c)
               /\ todo' = [todo EXCEPT ![Base] = << <<"user", c>>, <<"acceptor", c>> >>]
               /\ UNCHANGED pending
            \/ /\ LoopOf(c) # Base
               /\ pending' = Queued(pending, LoopOf(c), Est(c))
               /\ UNCHANGED <<connected, registered, ups, todo>>
<1>0. TypeOK /\ Names /\ Told /\ Queues
  BY DEF ServerInv
<1>1. /\ server = "listening" /\ todo[Base] = <<>> /\ accepted < arrived
      /\ active' = [active EXCEPT ![Base] = @ \ {Listener}]
      /\ accepted' = accepted + 1 /\ nextConnId' = nextConnId + 1
      /\ name' = [name EXCEPT ![accepted + 1] = nextConnId]
      /\ connections' = [connections EXCEPT ![nextConnId] = accepted + 1]
      /\ UNCHANGED <<server, numThreads, maxOpen, batch, ran, holds, arrived, hungUp>>
  BY DEF NewConnection, Reports, Handled, IdAfter
<1>2. c \in Conn /\ c > accepted /\ ~(c <= accepted)
  <2>1. arrived \in 0..MaxConn /\ accepted \in 0..arrived /\ MaxConn \in Nat
    BY <1>0, Types DEF TypeOK
  <2> QED
    BY <1>1, <2>1 DEF Conn
<1>3. nextConnId = c
  BY <1>0 DEF Names
<1>4. /\ accepted' = c /\ nextConnId' = c + 1
      /\ name' = [name EXCEPT ![c] = c] /\ connections' = [connections EXCEPT ![c] = c]
  BY <1>1, <1>3
<1>5. ups[c] = 0
  BY <1>0, <1>2 DEF Names
<1>6. downs[c] = 0 /\ c \notin connected /\ c \notin registered
  BY <1>0, <1>2, <1>5 DEF Told
<1>7. \A l \in Loop, i \in Nat : ~InPending(c, l, i) /\ ~InBatch(c, l, i)
  BY <1>0, <1>2 DEF Queues
<1>8. \/ /\ LoopOf(c) = Base
         /\ Raise(c)
         /\ todo' = [todo EXCEPT ![Base] = << <<"user", c>>, <<"acceptor", c>> >>]
         /\ UNCHANGED pending
      \/ /\ LoopOf(c) # Base
         /\ pending' = Queued(pending, LoopOf(c), Est(c))
         /\ UNCHANGED <<connected, registered, ups, downs, todo>>
  BY DEF NewConnection, Est
<1>9. UNCHANGED downs
  BY <1>8 DEF Raise
<1> QED
  BY <1>1, <1>2, <1>4, <1>5, <1>6, <1>7, <1>8, <1>9, Types

LEMMA NewConnectionStep ==
  ASSUME ServerInv, NewConnection
  PROVE  ServerInv'
<1>0. TypeOK /\ Names /\ Told /\ Queues /\ Removing /\ Leaving /\ Known /\ Gone
  BY DEF ServerInv
<1>1. PICK c : c = accepted + 1
  OBVIOUS
<1>2. /\ c \in Conn /\ server = "listening" /\ todo[Base] = <<>>
      /\ accepted' = c /\ nextConnId' = c + 1
      /\ name' = [name EXCEPT ![c] = c] /\ connections' = [connections EXCEPT ![c] = c]
      /\ ups[c] = 0 /\ downs[c] = 0 /\ c \notin connected /\ c \notin registered
      /\ \A l \in Loop, i \in Nat : ~InPending(c, l, i) /\ ~InBatch(c, l, i)
      /\ active' = [active EXCEPT ![Base] = @ \ {Listener}]
      /\ UNCHANGED <<server, numThreads, maxOpen, batch, ran, holds, arrived, hungUp, downs>>
  BY <1>1, NewConnectionIs
<1>3. \/ /\ LoopOf(c) = Base
         /\ Raise(c)
         /\ todo' = [todo EXCEPT ![Base] = << <<"user", c>>, <<"acceptor", c>> >>]
         /\ UNCHANGED pending
      \/ /\ LoopOf(c) # Base
         /\ pending' = Queued(pending, LoopOf(c), Est(c))
         /\ UNCHANGED <<connected, registered, ups, todo>>
  BY <1>1, NewConnectionIs
<1>4. c \in Nat /\ accepted \in Nat /\ c = accepted + 1
  BY <1>1, <1>2, Types DEF Conn
<1>5. \A d \in Conn : d \in Nat
  BY DEF Conn
(* What is the same in both cases: who is up, and the threads' stacks.      *)
<1>6. /\ ups' \in [Conn -> Nat] /\ ups'[c] \in 0..1
      /\ \A d \in Conn : d # c => ups'[d] = ups[d]
      /\ connected' \subseteq connected \union {c} /\ registered' \subseteq registered \union {c}
      /\ registered \subseteq registered'
      /\ c \in connected' \/ c \in registered' => ups'[c] = 1 /\ c \in registered'
  BY <1>2, <1>3, Types DEF Raise
<1>7. /\ todo' \in [Loop -> Seq(Frame)]
      /\ \A k \in Loop : \A x :
           Has(todo'[k], x) => Has(todo[k], x) \/ x = <<"user", c>> \/ x = <<"acceptor", c>>
  <2>1. << <<"user", c>>, <<"acceptor", c>> >> \in Seq(Frame)
    <3>1. <<"user", c>> \in Frame /\ <<"acceptor", c>> \in Frame
      BY <1>2 DEF Frame
    <3> QED
      BY <3>1
  <2>2. \A x : Has(<< <<"user", c>>, <<"acceptor", c>> >>, x) => x = <<"user", c>> \/ x = <<"acceptor", c>>
    BY HasShort
  <2>3. CASE UNCHANGED todo
    BY <2>3, Types
  <2>4. CASE todo' = [todo EXCEPT ![Base] = << <<"user", c>>, <<"acceptor", c>> >>]
    BY <1>2, <2>1, <2>2, <2>4, Types, BeginsIs
  <2> QED
    BY <1>3, <2>3, <2>4
<1>8. /\ pending' \in [Loop -> Seq(Functor)]
      /\ \A k \in Loop : \A x : Has(pending'[k], x) => Has(pending[k], x) \/ x = Est(c)
      /\ \A k \in Loop : \A i, x : At(pending'[k], i, x) =>
           \/ At(pending[k], i, x)
           \/ /\ k = LoopOf(c) /\ LoopOf(c) # Base /\ ups'[c] = 0
              /\ x = Est(c) /\ i = Len(pending[LoopOf(c)]) + 1
  <2>1. CASE UNCHANGED pending
    BY <2>1, Types
  <2>2. CASE /\ LoopOf(c) # Base
             /\ pending' = Queued(pending, LoopOf(c), Est(c)) /\ UNCHANGED ups
    <3>1. LoopOf(c) \in Loop /\ Est(c) \in Functor
      BY <1>2, LoopOfIsLoop, FunctorsDiffer, Types
    <3>2. PICK l0 \in Loop, f \in Functor :
            l0 = LoopOf(c) /\ f = Est(c) /\ pending' = Queued(pending, l0, f)
      BY <2>2, <3>1
    <3>3. pending' \in [Loop -> Seq(Functor)]
      BY <3>2, QueuedIs
    <3>4. \A k \in Loop : \A x : Has(pending'[k], x) => Has(pending[k], x) \/ x = f
      BY <3>2, QueuedIs
    <3>5. \A k \in Loop : \A i, x : At(pending'[k], i, x) =>
            At(pending[k], i, x) \/ (k = l0 /\ x = f /\ i = Len(pending[l0]) + 1)
      BY <3>2, QueuedIs
    <3> QED
      BY <1>2, <2>2, <3>2, <3>3, <3>4, <3>5
  <2> QED
    BY <1>3, <2>1, <2>2
<1>9. TypeOK'
  <2>1. active' \in [Loop -> SUBSET (Conn \union {Listener})]
    BY <1>0, <1>2 DEF TypeOK
  <2>2. /\ name' \in [Conn -> Conn \union {NoConn}] /\ connections' \in [Conn -> Conn \union {NoConn}]
    BY <1>2, Types
  <2>3. accepted' \in 0..arrived' /\ nextConnId' \in 1..MaxConn + 1
    <3>1. arrived \in 0..MaxConn /\ MaxConn \in Nat /\ accepted < arrived
      BY <1>0, Types DEF TypeOK, NewConnection
    <3> QED
      BY <1>2, <1>4, <3>1
  <2>4. connected' \subseteq Conn /\ registered' \subseteq Conn
    BY <1>2, <1>6, Types
  <2> QED
    BY <1>0, <1>2, <1>6, <1>7, <1>8, <2>1, <2>2, <2>3, <2>4 DEF TypeOK
<1>10. Names'
  <2>1. \A n \in Conn : /\ name'[n] = IF n = c THEN c ELSE name[n]
                        /\ connections'[n] = IF n = c THEN c ELSE connections[n]
    BY <1>2, Types
  <2>2. \A n \in Conn : n # c => (n <= c <=> n <= accepted) /\ (n > c <=> n > accepted)
    BY <1>4, <1>5
  <2> QED
    BY <1>0, <1>2, <1>4, <1>5, <1>6, <2>1, <2>2 DEF Names
<1>11. Told'
  <2> SUFFICES ASSUME NEW d \in Conn
               PROVE  /\ ups'[d] \in 0..1 /\ (downs'[d] # 0 => ups'[d] = 1)
                      /\ d \in connected' => d \in registered' /\ downs'[d] = 0
                      /\ d \in registered' => ups'[d] = 1 /\ (server' # "gone" => downs'[d] = 0)
    BY DEF Told
  <2>1. CASE d = c
    BY <1>0, <1>2, <1>6, <2>1 DEF Told
  <2>2. CASE d # c
    BY <1>0, <1>2, <1>6, <2>2 DEF Told
  <2> QED
    BY <2>1, <2>2
<1>12. Queues'
  <2>1. \A d \in Conn : LoopOf(d)' = LoopOf(d)
    BY <1>2 DEF LoopOf
  <2>2. \A d \in Conn : d # c => Est(d) # Est(c)
    BY FunctorsDiffer
  <2>3. ASSUME NEW d \in Conn, NEW k \in Loop, NEW i \in Nat
        PROVE  /\ InBatch(d, k, i)' => d # c /\ InBatch(d, k, i)
               /\ InPending(d, k, i)' =>
                    \/ d # c /\ InPending(d, k, i)
                    \/ /\ d = c /\ k = LoopOf(c) /\ LoopOf(c) # Base /\ ups'[c] = 0
                       /\ i = Len(pending[LoopOf(c)]) + 1
    <3>1. InBatch(d, k, i)' => InBatch(d, k, i)
      BY <1>2 DEF InBatch
    <3>2. InPending(d, k, i)' =>
            \/ InPending(d, k, i)
            \/ d = c /\ k = LoopOf(c) /\ LoopOf(c) # Base /\ ups'[c] = 0
                     /\ i = Len(pending[LoopOf(c)]) + 1
      BY <1>8, <2>2 DEF InPending
    <3> QED
      BY <1>2, <3>1, <3>2
  <2>4. \A d \in Conn : d <= accepted => d <= accepted'
    BY <1>2, <1>4, <1>5
  <2> QED
    BY <1>0, <1>2, <1>4, <1>6, <2>1, <2>3, <2>4 DEF Queues
<1>13. Removing' /\ Leaving'
  <2>1. \A d : /\ <<"close", d>> # <<"user", c>> /\ <<"close", d>> # <<"acceptor", c>>
               /\ <<"destroy", d>> # <<"user", c>> /\ <<"destroy", d>> # <<"acceptor", c>>
    OBVIOUS
  <2>2. \A d \in Conn, k \in Loop :
          /\ Has(todo'[k], <<"close", d>>) => Has(todo[k], <<"close", d>>)
          /\ Has(todo'[k], <<"destroy", d>>) => Has(todo[k], <<"destroy", d>>)
    BY <1>7, <2>1
  <2>3. \A d : Rem(d) # Est(c) /\ Dest(d) # Est(c)
    BY FunctorsDiffer
  <2>4. \A d \in Conn, k \in Loop :
          /\ Has(pending'[k], Rem(d)) => Has(pending[k], Rem(d))
          /\ Has(pending'[k], Dest(d)) => Has(pending[k], Dest(d))
    BY <1>8, <2>3
  <2>5. Removing'
    <3>1. downs' = downs /\ batch' = batch
      BY <1>2, <1>6
    <3>2. ASSUME NEW d \in Conn, NEW k \in Loop,
                 \/ Has(todo'[k], <<"close", d>>)
                 \/ Has(pending'[k], Rem(d)) \/ Has(batch[k], Rem(d))
                 \/ Has(pending'[k], Dest(d)) \/ Has(batch[k], Dest(d))
          PROVE  downs[d] # 0
      <4>1. CASE Has(todo'[k], <<"close", d>>)
        BY <1>0, <2>2, <4>1 DEF Removing
      <4>2. CASE Has(pending'[k], Rem(d)) \/ Has(pending'[k], Dest(d))
        <5>1. Has(pending[k], Rem(d)) \/ Has(pending[k], Dest(d))
          BY <2>4, <4>2
        <5> QED
          BY <1>0, <5>1 DEF Removing
      <4>3. CASE Has(batch[k], Rem(d)) \/ Has(batch[k], Dest(d))
        BY <1>0, <4>3 DEF Removing
      <4> QED
        BY <3>2, <4>1, <4>2, <4>3
    <3> QED
      BY <3>1, <3>2 DEF Removing
  <2>6. Leaving'
    BY <1>0, <1>2, <2>2 DEF Leaving
  <2> QED
    BY <2>5, <2>6
<1>15. Reported'
  <2>1. \A k \in Loop : active'[k] \subseteq active[k]
    BY <1>2, Types
  <2>2. \A d \in Conn : ups[d] = 1 => ups'[d] = 1
    BY <1>2, <1>6
  <2> QED
    BY <1>2, <1>6, <2>1, <2>2, ReportedKeeps
<1>14. Known' /\ Gone'
  <2>1. \A n \in Conn : connections'[n] = IF n = c THEN c ELSE connections[n]
    BY <1>2, Types
  <2>2. \A n \in Conn : n # c /\ n <= c => n <= accepted
    BY <1>4, <1>5
  <2> QED
    BY <1>0, <1>2, <2>1, <2>2 DEF Known, Gone
<1> QED
  BY <1>9, <1>10, <1>11, <1>12, <1>13, <1>14, <1>15 DEF ServerInv

(* ~TcpServer: every connection that counts as connected is one it knows,   *)
(* so it is one of those whose turn comes.                                  *)
LEMMA DestroyServerStep ==
  ASSUME ServerInv, DestroyServer
  PROVE  ServerInv'
<1>0. TypeOK /\ Names /\ Told /\ Queues /\ Removing /\ Known /\ Gone
  BY DEF ServerInv
<1>1. /\ server = "listening" /\ numThreads = 0 /\ server' = "gone"
      /\ connections' = [n \in Conn |-> NoConn]
      /\ UNCHANGED <<numThreads, maxOpen, nextConnId, name, connected, registered, ups, downs,
                     pending, batch, ran, active, holds, arrived, accepted, hungUp>>
  BY DEF DestroyServer, conns, clients
<1>2. PICK frames \in DestroyFrames : todo' = [todo EXCEPT ![Base] = frames \o @]
  BY DEF DestroyServer
<1>3. /\ frames \in Seq(Frame)
      /\ \A x : Has(frames, x) => \E c \in Kept : x = <<"destroy", c>>
      /\ \A c \in Kept : Has(frames, <<"destroy", c>>)
  <2>1. Kept \subseteq Conn
    BY Types DEF Kept
  <2> QED
    BY <2>1, DestroyVisitsAll
<1>4. /\ todo' \in [Loop -> Seq(Frame)]
      /\ \A k \in Loop : \A x : Has(todo'[k], x) => Has(todo[k], x) \/ Has(frames, x)
      /\ \A x : Has(frames, x) => Has(todo'[Base], x)
  <2>1. todo \in [Loop -> Seq(Frame)] /\ todo[Base] \in Seq(Frame) /\ Base \in Loop
    BY Types
  <2>2. frames \o todo[Base] \in Seq(Frame)
    BY <1>3, <2>1, ConcatProperties
  <2>3. \A k \in Loop : todo'[k] = IF k = Base THEN frames \o todo[Base] ELSE todo[k]
    BY <1>2, <2>1
  <2>4. todo' \in [Loop -> Seq(Frame)]
    BY <1>2, <2>1, <2>2
  <2>5. \A x : Has(frames \o todo[Base], x) <=> Has(frames, x) \/ Has(todo[Base], x)
    BY <1>3, <2>1, HasConcat
  <2> QED
    BY <2>1, <2>3, <2>4, <2>5
<1>5. TypeOK'
  BY <1>0, <1>1, <1>4 DEF TypeOK
<1>6. Names' /\ Told' /\ Reported' /\ Leaving' /\ Known'
  BY <1>0, <1>1, ReportedKeeps DEF Names, Told, Leaving, Known
<1>7. Queues'
  BY <1>0, <1>1, QueuesShrink DEF InPending, InBatch
<1>8. Removing'
  <2>1. \A c, d : <<"close", d>> # <<"destroy", c>>
    OBVIOUS
  <2>2. \A d : ~Has(frames, <<"close", d>>)
    BY <1>3, <2>1
  <2>3. \A d \in Conn, k \in Loop : Has(todo'[k], <<"close", d>>) => Has(todo[k], <<"close", d>>)
    BY <1>4, <2>2
  <2> QED
    BY <1>0, <1>1, <2>3 DEF Removing
<1>9. Gone'
  <2>1. ASSUME NEW c \in connected
        PROVE  Has(todo'[Base], <<"destroy", c>>)
    <3>1. c \in Conn /\ ups[c] = 1 /\ downs[c] = 0
      BY <1>0, Types DEF Told
    <3>2. c <= accepted
      <4>1. c \in Nat /\ accepted \in Nat
        BY <3>1, Types DEF Conn
      <4> QED
        BY <1>0, <3>1, <4>1 DEF Names
    <3>3. connections[c] = c
      BY <1>0, <1>1, <3>1, <3>2 DEF Known
    <3>4. c \in Kept
      BY <3>1, <3>3, Types DEF Kept
    <3> QED
      BY <1>3, <1>4, <3>4
  <2> QED
    BY <1>1, <2>1 DEF Gone
<1> QED
  BY <1>5, <1>6, <1>7, <1>8, <1>9 DEF ServerInv
-----------------------------------------------------------------------------
LEMMA ServerInductive ==
  ASSUME ServerInv, [Next]_vars
  PROVE  ServerInv'
<1>1. CASE UNCHANGED vars
  <2>1. TypeOK'
    BY <1>1 DEF ServerInv, TypeOK, vars, conns, loops, clients
  <2> QED
    BY <1>1, <2>1, OutsideKeeps DEF vars, conns, loops, clients
<1>2. ASSUME NEW l \in Loop, Works(l)
      PROVE  ServerInv'
  <2>1. CASE NewConnection
    BY <2>1, NewConnectionStep
  <2>2. CASE AcceptFails
    BY <2>2, OutsideSteps
  <2>3. ASSUME NEW c \in Conn, HandleEvent(l, c)
        PROVE  ServerInv'
    BY <2>3, HandleEventStep
  <2>4. ASSUME NEW c \in Conn, RemoveConnection(l, c)
        PROVE  ServerInv'
    BY <2>4, RemoveConnectionStep
  <2>5. ASSUME NEW c \in Conn, RunEstablished(l, c)
        PROVE  ServerInv'
    BY <2>5, RunEstablishedStep
  <2>6. ASSUME NEW c \in Conn, RunDestroyed(l, c)
        PROVE  ServerInv'
    BY <2>6, RunDestroyedStep
  <2>7. ASSUME NEW c \in Conn, RunRemove(l, c)
        PROVE  ServerInv'
    BY <2>7, RunRemoveStep
  <2>8. ASSUME NEW c \in Conn,
               CallbackReturns(l, c) \/ DestroyConnection(c) \/ AcceptorReturns(c)
        PROVE  ServerInv'
    BY <2>8, ReturnSteps
  <2>9. CASE BatchDone(l)
    BY <2>9, BatchDoneStep
  <2> QED
    BY <1>2, <2>1, <2>2, <2>3, <2>4, <2>5, <2>6, <2>7, <2>8, <2>9 DEF Works
<1>3. ASSUME NEW l \in Loop, DoPendingFunctors(l)
      PROVE  ServerInv'
  BY <1>3, DoPendingFunctorsStep
<1>4. CASE DestroyServer
  BY <1>4, DestroyServerStep
<1>5. CASE \/ Start \/ ClientConnects \/ \E l \in Loop : Poll(l)
           \/ \E c \in Conn : \/ \E l \in Loop : KeepPointer(l, c)
                              \/ DropPointer(c) \/ Shutdown(c) \/ ClientCloses(c)
  BY <1>5, OutsideSteps
<1> QED
  BY <1>1, <1>2, <1>3, <1>4, <1>5 DEF Next

LEMMA ServerAlways == Spec => []ServerInv
<1>1. Init => ServerInv
  BY ServerInit
<1>2. ServerInv /\ [Next]_vars => ServerInv'
  BY ServerInductive
<1> QED
  BY <1>1, <1>2, PTL DEF Spec

(* Every variable keeps its type, whatever the loops, the user and the      *)
(* clients do; in particular nextConnId_ never runs past the connections    *)
(* there are, so that every name it gives is new.                           *)
THEOREM TypeCorrect == Spec => []TypeOK
<1>1. ServerInv => TypeOK
  BY DEF ServerInv
<1> QED
  BY <1>1, ServerAlways, PTL

-----------------------------------------------------------------------------
(* Down twice.  handleClose does not ask whether the user was told already, *)
(* and does not need to while there is a server.  After ~TcpServer it may   *)
(* say down of a connection once more; what follows is removeConnection of  *)
(* the destroyed server, so that the thread does not get to another event.  *)
Twice ==
  \A c \in Conn : \/ downs[c] \in 0..1
                  \/ downs[c] = 2 /\ server = "gone" /\ Has(todo[Base], <<"close", c>>)

(* Whoever is about to call closeCallback_ of a destroyed server stays so.  *)
LEMMA TwiceStays ==
  ASSUME Twice, NEW c \in Conn, UNCHANGED server,
         \A d \in Conn : Has(todo[Base], <<"close", d>>) => Has(todo'[Base], <<"close", d>>),
         UNCHANGED downs \/ (downs[c] = 0 /\ downs' = [downs EXCEPT ![c] = @ + 1]),
         downs \in [Conn -> Nat]
  PROVE  Twice'
<1>1. \A d \in Conn : downs'[d] = downs[d] \/ downs'[d] = 1
  OBVIOUS
<1> SUFFICES ASSUME NEW d \in Conn
             PROVE  \/ downs'[d] \in 0..1
                    \/ downs'[d] = 2 /\ server' = "gone" /\ Has(todo'[Base], <<"close", d>>)
  BY DEF Twice
<1>2. CASE downs'[d] = 1
  BY <1>2
<1>3. CASE downs'[d] = downs[d]
  BY <1>3 DEF Twice
<1> QED
  BY <1>1, <1>2, <1>3

(* While there is a server nobody is told twice.                            *)
LEMMA OnceWhileServed ==
  ASSUME Twice, server # "gone", UNCHANGED downs
  PROVE  Twice'
BY DEF Twice

LEMMA TwiceHandleEvent ==
  ASSUME ServerInv, Twice, NEW l \in Loop, NEW c \in Conn, HandleEvent(l, c)
  PROVE  Twice'
<1>1. /\ todo[l] = <<>> /\ LoopOf(c) = l /\ (server # "gone" => c \in registered)
      /\ UNCHANGED server
  BY HandleEventIs
<1>2. \A x : ~Has(<<>>, x)
  BY HasShort
<1>3. CASE UNCHANGED downs
  <2>1. PICK frames : todo' = [todo EXCEPT ![l] = frames]
    BY DEF HandleEvent
  <2>2. \A k \in Loop : k = l \/ todo'[k] = todo[k]
    BY <2>1, Types
  <2>3. \A d \in Conn : Has(todo[Base], <<"close", d>>) => Has(todo'[Base], <<"close", d>>)
    <3>1. CASE l = Base
      BY <1>1, <1>2, <3>1
    <3>2. CASE l # Base
      <4>1. todo'[Base] = todo[Base]
        BY <2>2, <3>2, Types
      <4> QED
        BY <4>1
    <3> QED
      BY <3>1, <3>2
  <2> QED
    BY <1>1, <1>3, <2>3, Types, TwiceStays
<1>4. CASE Lower(c) /\ todo' = [todo EXCEPT ![l] = << <<"user", c>>, <<"close", c>> >>]
  <2>1. \A d \in Conn : downs[d] \in Nat /\ downs'[d] = IF d = c THEN downs[c] + 1 ELSE downs[d]
    BY <1>4, Types DEF Lower
  <2>2. CASE server # "gone"
    <3>1. downs[c] = 0
      BY <1>1, <2>2 DEF ServerInv, Told
    <3>2. \A d \in Conn : downs[d] \in 0..1
      BY <2>2 DEF Twice
    <3>3. \A d \in Conn : downs'[d] \in 0..1
      BY <2>1, <3>1, <3>2
    <3> QED
      BY <3>3 DEF Twice
  <2>3. CASE server = "gone"
    <3>1. l = Base
      BY <1>1, <2>3 DEF ServerInv, Gone, LoopOf
    <3>2. \A d \in Conn : downs[d] \in 0..1
      BY <1>1, <1>2, <3>1 DEF Twice
    <3>3. todo'[Base] = << <<"user", c>>, <<"close", c>> >>
      BY <1>4, <3>1, Types
    <3>4. \A x, y, z : x = z => Has(<<y, z>>, x)
      BY HasShort
    <3>5. Has(todo'[Base], <<"close", c>>)
      BY <3>3, <3>4
    <3>6. \A d \in Conn : downs'[d] \in 0..1 \/ (d = c /\ downs'[d] = 2)
      BY <2>1, <3>2
    <3> QED
      BY <1>1, <2>3, <3>5, <3>6 DEF Twice
  <2> QED
    BY <2>2, <2>3
<1> QED
  BY <1>3, <1>4 DEF HandleEvent

LEMMA TwiceReturns ==
  ASSUME ServerInv, Twice, NEW c \in Conn,
         \/ AcceptorReturns(c) \/ DestroyConnection(c)
         \/ \E l \in Loop : CallbackReturns(l, c)
  PROVE  Twice'
<1>1. PICK l \in Loop, frames \in {<<>>, << <<"user", c>> >>} :
        /\ todo[l] # <<>> /\ Becomes(l, frames)
        /\ Head(todo[l]) \in {<<"acceptor", c>>, <<"destroy", c>>, <<"user", c>>}
        /\ UNCHANGED server
        /\ UNCHANGED downs \/ (c \in connected /\ Lower(c))
  <2>1. CASE AcceptorReturns(c) \/ \E l \in Loop : CallbackReturns(l, c)
    BY <2>1, Types DEF AcceptorReturns, CallbackReturns, Does, conns
  <2>2. CASE DestroyConnection(c)
    BY <2>2, Types DEF DestroyConnection, Does, ConnectDestroyed, ToldDown, DestroyedFrames
  <2> QED
    BY <2>1, <2>2
<1>2. frames \in Seq(Frame)
  <2>1. <<>> \in Seq(Frame) /\ << <<"user", c>> >> \in Seq(Frame)
    BY DEF Frame
  <2> QED
    BY <1>1, <2>1
<1>3. \A d : <<"close", d>> # Head(todo[l])
  BY <1>1
<1>4. \A d \in Conn : Has(todo[Base], <<"close", d>>) => Has(todo'[Base], <<"close", d>>)
  <2>1. \A k \in Loop : \A x : Has(todo[k], x) => Has(todo'[k], x) \/ (k = l /\ x = Head(todo[l]))
    BY <1>1, <1>2, BecomesIs
  <2>2. Base \in Loop
    BY Types
  <2> QED
    BY <1>3, <2>1, <2>2
<1>5. UNCHANGED downs \/ (downs[c] = 0 /\ downs' = [downs EXCEPT ![c] = @ + 1])
  BY <1>1 DEF Lower, ServerInv, Told
<1> QED
  BY <1>1, <1>4, <1>5, Types, TwiceStays

LEMMA TwiceInductive ==
  ASSUME ServerInv, Twice, [Next]_vars
  PROVE  Twice'
<1> USE DEF conns, loops, clients
<1>0. PICK c0 : c0 \in Conn
  BY ServerAssumption DEF Conn
<1>1. ASSUME UNCHANGED <<downs, todo>>, server' = server \/ server # "gone"
      PROVE  Twice'
  <2>1. CASE server # "gone"
    BY <1>1, <2>1, OnceWhileServed
  <2>2. CASE server = "gone"
    <3>1. server' = server /\ todo' = todo /\ downs' = downs
      BY <1>1, <2>2
    <3>2. \A d \in Conn : Has(todo'[Base], <<"close", d>>) <=> Has(todo[Base], <<"close", d>>)
      BY <3>1
    <3> QED
      BY <3>1, <3>2 DEF Twice
  <2> QED
    BY <2>1, <2>2
<1>2. ASSUME NEW l \in Loop, Works(l)
      PROVE  Twice'
  <2>1. CASE NewConnection
    <3>1. PICK c : c = accepted + 1
      OBVIOUS
    <3>2. server = "listening" /\ UNCHANGED downs
      BY <2>1, <3>1, NewConnectionIs
    <3> QED
      BY <3>2, OnceWhileServed
  <2>2. CASE AcceptFails \/ BatchDone(l)
    BY <1>1, <2>2 DEF AcceptFails, BatchDone
  <2>3. ASSUME NEW c \in Conn, HandleEvent(l, c)
        PROVE  Twice'
    BY <2>3, TwiceHandleEvent
  <2>4. ASSUME NEW c \in Conn, RemoveConnection(l, c)
        PROVE  Twice'
    BY <2>4, OnceWhileServed DEF RemoveConnection
  <2>5. ASSUME NEW c \in Conn, RunEstablished(l, c)
        PROVE  Twice'
    BY <2>5, RunEstablishedIs, OnceWhileServed DEF RunEstablished, Raise
  <2>6. ASSUME NEW c \in Conn, RunDestroyed(l, c)
        PROVE  Twice'
    BY <1>1, <2>6, RunDestroyedIs
  <2>7. ASSUME NEW c \in Conn, RunRemove(l, c)
        PROVE  Twice'
    BY <2>7, OnceWhileServed DEF RunRemove
  <2>8. ASSUME NEW c \in Conn,
               CallbackReturns(l, c) \/ DestroyConnection(c) \/ AcceptorReturns(c)
        PROVE  Twice'
    BY <2>8, TwiceReturns
  <2> QED
    BY <1>2, <2>1, <2>2, <2>3, <2>4, <2>5, <2>6, <2>7, <2>8 DEF Works
<1>3. CASE DestroyServer
  BY <1>3, OnceWhileServed DEF DestroyServer
<1>4. CASE \/ UNCHANGED vars \/ Start \/ ClientConnects
           \/ \E l \in Loop : Poll(l) \/ DoPendingFunctors(l)
           \/ \E c \in Conn : \/ \E l \in Loop : KeepPointer(l, c)
                              \/ DropPointer(c) \/ Shutdown(c) \/ ClientCloses(c)
  BY <1>1, <1>4 DEF vars, Start, ClientConnects, Poll, DoPendingFunctors, KeepPointer,
                    DropPointer, Shutdown, ClientCloses
<1> QED
  BY <1>2, <1>3, <1>4 DEF Next

(* Of every connection the user hears up once and down once, although       *)
(* handleClose and connectDestroyed both say down, on either side of the    *)
(* removal.  He hears down twice only of one whose end was reported before  *)
(* ~TcpServer, in one of its callbacks, told him the first time, and then   *)
(* right before the thread uses the destroyed server.                       *)
THEOREM UserToldOnce == Spec => []ToldOnce
<1>1. Init => ServerInv /\ Twice
  BY ServerInit DEF Init, Twice
<1>2. ServerInv /\ Twice /\ [Next]_vars => (ServerInv /\ Twice)'
  BY ServerInductive, TwiceInductive
<1>3. ServerInv /\ Twice => ToldOnce
  <2> SUFFICES ASSUME ServerInv, Twice, NEW c \in Conn
               PROVE  ups[c] <= 1 /\ (downs[c] <= ups[c] \/ SaidAgain(c))
    BY DEF ToldOnce
  <2>1. ups[c] \in 0..1 /\ (downs[c] # 0 => ups[c] = 1)
    BY DEF ServerInv, Told
  <2>2. CASE downs[c] \in 0..1
    BY <2>1, <2>2
  <2>3. CASE downs[c] = 2 /\ server = "gone" /\ Has(todo[Base], <<"close", c>>)
    <3>1. DOMAIN todo[Base] = 1..Len(todo[Base])
      BY Types, LenProperties
    <3>2. <<"close", c>> \in ToSet(todo[Base])
      BY <2>3, <3>1 DEF Has, ToSet
    <3> QED
      BY <2>1, <2>3, <3>2 DEF SaidAgain
  <2> QED
    BY <2>2, <2>3 DEF Twice
<1> QED
  BY <1>1, <1>2, <1>3, PTL DEF Spec

(* A connection that was accepted is destroyed only when the user was told  *)
(* that it is down and its channel is off the loop, or by ~TcpServer when   *)
(* it was not connected any more.                                           *)
THEOREM DownBeforeDestroyed == Spec => []DestroyedAfterDown
<1>1. ServerInv => DestroyedAfterDown
  <2> SUFFICES ASSUME ServerInv, NEW c \in 1..accepted, c \notin Owned
               PROVE  \/ downs[c] > 0 /\ c \notin registered
                      \/ server = "gone" /\ c \notin connected
    BY DEF DestroyedAfterDown
  <2>1. c \in Conn /\ c <= accepted
    <3>1. accepted \in Nat /\ accepted <= MaxConn /\ MaxConn \in Nat
      BY Types
    <3> QED
      BY <3>1 DEF Conn
  <2>2. Told /\ Known /\ Gone
    BY DEF ServerInv
  <2>3. CASE server # "gone"
    <3>1. connections[c] # c
      <4>1. c \notin Kept
        BY DEF Owned
      <4> QED
        BY <2>1, <4>1, Types DEF Kept
    <3>2. downs[c] # 0 /\ downs[c] \in Nat
      BY <2>1, <2>2, <2>3, <3>1, Types DEF Known
    <3>3. c \notin registered
      BY <2>1, <2>2, <2>3, <3>2 DEF Told
    <3> QED
      BY <3>2, <3>3
  <2>4. CASE server = "gone"
    <3>1. ~Has(todo[Base], <<"destroy", c>>)
      <4>1. c \notin InTransit
        BY DEF Owned
      <4>2. todo[Base] \in UNION {{pending[l], batch[l], todo[l]} : l \in Loop}
        BY Types
      <4>3. \A i \in 1..Len(todo[Base]) : todo[Base][i][2] # c
        BY <4>1, <4>2 DEF InTransit
      <4>4. <<"destroy", c>>[2] = c
        OBVIOUS
      <4> QED
        BY <4>3, <4>4 DEF Has
    <3> QED
      BY <2>2, <2>4, <3>1 DEF Gone
  <2> QED
    BY <2>3, <2>4
<1> QED
  BY <1>1, ServerAlways, PTL
-----------------------------------------------------------------------------
(* The steps, as ConnectionLife sees them.                                  *)
PhaseAt(c) == IF downs[c] > 0 THEN "down"
              ELSE IF ups[c] > 0 THEN "up"
              ELSE IF c <= accepted THEN "made" ELSE "idle"

(* One connection changes its phase and all the others stay in theirs.      *)
LEMMA OnePhaseTurns ==
  ASSUME NEW c \in Conn,
         \A d \in Conn \ {c} :
           ups'[d] = ups[d] /\ downs'[d] = downs[d] /\ (d <= accepted' <=> d <= accepted)
  PROVE  Phase' = [Phase EXCEPT ![c] = PhaseAt(c)']
<1>1. \A d \in Conn \ {c} : PhaseAt(d)' = PhaseAt(d)
  BY DEF PhaseAt
<1>2. Phase = [d \in Conn |-> PhaseAt(d)] /\ Phase' = [d \in Conn |-> PhaseAt(d)']
  BY DEF Phase, PhaseAt
<1> HIDE DEF PhaseAt
<1> QED
  BY <1>1, <1>2

LEMMA QuietSteps ==
  ASSUME UNCHANGED <<ups, downs, accepted, connections>>, (server # "gone")' = (server # "gone")
  PROVE  UNCHANGED Life!vars
<1>1. Phase' = Phase
  BY DEF Phase
<1>2. Kept' = Kept
  BY DEF Kept
<1> QED
  BY <1>1, <1>2 DEF Life!vars

LEMMA LowerIsLower ==
  ASSUME ServerInv, NEW c \in Conn, ups[c] = 1, downs[c] = 0, Lower(c),
         UNCHANGED <<server, accepted, connections>>
  PROVE  Life!Next
<1>1. ups[c] = 1 /\ downs[c] = 0
  OBVIOUS
<1>2. /\ UNCHANGED ups /\ downs'[c] = 1
      /\ \A d \in Conn \ {c} : downs'[d] = downs[d]
  BY <1>1, Types DEF Lower
<1>3. PhaseAt(c) = "up" /\ PhaseAt(c)' = "down"
  BY <1>1, <1>2 DEF PhaseAt
<1>4. Phase[c] = "up" /\ Phase' = [Phase EXCEPT ![c] = "down"]
  <2>1. Phase' = [Phase EXCEPT ![c] = PhaseAt(c)']
    BY <1>2, OnePhaseTurns
  <2>2. Phase[c] = PhaseAt(c)
    BY DEF Phase, PhaseAt
  <2> QED
    BY <1>3, <2>1, <2>2
<1>5. UNCHANGED <<Kept, server # "gone">>
  BY DEF Kept
<1>6. Life!Lower(c)
  BY <1>4, <1>5 DEF Life!Lower, Life!Turn
<1> QED
  BY <1>6 DEF Life!Next

(* Said once more, down is no step in the life of the connection.           *)
LEMMA LowerAgainIsQuiet ==
  ASSUME ServerInv, NEW c \in Conn, downs[c] # 0, Lower(c),
         UNCHANGED <<server, accepted, connections>>
  PROVE  UNCHANGED Life!vars
<1>1. \A d \in Conn : downs[d] \in Nat /\ downs'[d] = IF d = c THEN downs[c] + 1 ELSE downs[d]
  BY Types DEF Lower
<1>2. \A d \in Conn : downs'[d] > 0 <=> downs[d] > 0
  BY <1>1
<1>3. UNCHANGED <<Phase, Kept>>
  BY <1>2 DEF Phase, Kept, Lower
<1> QED
  BY <1>3 DEF Life!vars

LEMMA RemoveIsForget ==
  ASSUME ServerInv, NEW c \in Conn, downs[c] # 0, RemoveConnectionInLoop(c),
         UNCHANGED <<server, numThreads, nextConnId, name, connected, registered, ups, downs, accepted>>
  PROVE  Life!Next
<1>1. connections' = [connections EXCEPT ![c] = NoConn]
  BY RemovesIs
<1>2. \A n \in Conn : /\ connections[n] \in {n, NoConn}
                      /\ connections'[n] = IF n = c THEN NoConn ELSE connections[n]
  BY <1>1, Types DEF ServerInv, Names
<1>3. Kept' = Kept \ {c}
  BY <1>2, Types DEF Kept
<1>4. Phase[c] = "down" /\ UNCHANGED Phase
  <2>1. downs[c] > 0
    BY Types
  <2> QED
    BY <2>1 DEF Phase
<1>5. Life!Forget(c)
  BY <1>3, <1>4 DEF Life!Forget
<1> QED
  BY <1>5 DEF Life!Next

LEMMA NewIsMake ==
  ASSUME ServerInv, NewConnection
  PROVE  Life!Next
<1>1. PICK c : c = accepted + 1
  OBVIOUS
<1>2. /\ c \in Conn /\ server = "listening" /\ accepted' = c
      /\ connections' = [connections EXCEPT ![c] = c]
      /\ ups[c] = 0 /\ downs[c] = 0 /\ UNCHANGED <<server, downs>>
      /\ Raise(c) \/ UNCHANGED ups
  BY <1>1, NewConnectionIs
<1>3. c \in Nat /\ accepted \in Nat /\ ~(c <= accepted) /\ c <= accepted'
  BY <1>1, <1>2, Types DEF Conn
<1>4. \A d \in Conn \ {c} : /\ ups'[d] = ups[d] /\ downs'[d] = downs[d]
                            /\ d <= accepted' <=> d <= accepted
  <2>1. \A d \in Conn : d \in Nat
    BY DEF Conn
  <2>2. \A d \in Conn \ {c} : d <= accepted' <=> d <= accepted
    BY <1>1, <1>2, <1>3, <2>1
  <2> QED
    BY <1>2, <2>2, Types DEF Raise
<1>5. PhaseAt(c) = "idle" /\ PhaseAt(c)' \in {"made", "up"}
  <2>1. ups'[c] = 0 \/ ups'[c] = 1
    BY <1>2, Types DEF Raise
  <2> QED
    BY <1>2, <1>3, <2>1 DEF PhaseAt
<1>6. Phase[c] = "idle" /\ Phase' = [Phase EXCEPT ![c] = PhaseAt(c)']
  <2>1. Phase[c] = PhaseAt(c)
    BY <1>2 DEF Phase, PhaseAt
  <2> QED
    BY <1>2, <1>4, <1>5, <2>1, OnePhaseTurns
<1>7. Kept' = Kept \union {c}
  <2>1. /\ connections[c] = NoConn
        /\ \A n \in Conn : connections'[n] = IF n = c THEN c ELSE connections[n]
    BY <1>2, <1>3, Types DEF ServerInv, Names
  <2> QED
    BY <1>2, <2>1, Types DEF Kept
<1>8. server # "gone" /\ (server # "gone")' = (server # "gone")
  BY <1>2
<1>9. Life!Make(c) \/ Life!MakeAndRaise(c)
  BY <1>5, <1>6, <1>7, <1>8 DEF Life!Make, Life!MakeAndRaise, Life!Turn
<1> QED
  BY <1>2, <1>9 DEF Life!Next

LEMMA EstablishedIsRaise ==
  ASSUME ServerInv, NEW l \in Loop, NEW c \in Conn, RunEstablished(l, c)
  PROVE  Life!Next
<1>1. c <= accepted /\ ups[c] = 0 /\ downs[c] = 0
  BY RunEstablishedIs
<1>2. Raise(c) /\ UNCHANGED <<connections, server, accepted, downs>>
  BY DEF RunEstablished, Runs, Raise, clients
<1>3. ups'[c] = 1 /\ \A d \in Conn \ {c} : ups'[d] = ups[d]
  BY <1>1, <1>2, Types DEF Raise
<1>4. PhaseAt(c) = "made" /\ PhaseAt(c)' = "up"
  BY <1>1, <1>2, <1>3 DEF PhaseAt
<1>5. Phase[c] = "made" /\ Phase' = [Phase EXCEPT ![c] = "up"]
  <2>1. Phase[c] = PhaseAt(c)
    BY DEF Phase, PhaseAt
  <2>2. Phase' = [Phase EXCEPT ![c] = PhaseAt(c)']
    BY <1>2, <1>3, OnePhaseTurns
  <2> QED
    BY <1>4, <2>1, <2>2
<1>6. UNCHANGED <<Kept, server # "gone">>
  BY <1>2 DEF Kept
<1>7. Life!Raise(c)
  BY <1>5, <1>6 DEF Life!Raise, Life!Turn
<1> QED
  BY <1>7 DEF Life!Next

LEMMA DestroyIsClose ==
  ASSUME ServerInv, DestroyServer
  PROVE  Life!Next
<1>1. /\ server = "listening" /\ server' = "gone" /\ connections' = [n \in Conn |-> NoConn]
      /\ UNCHANGED <<ups, downs, accepted>>
  BY DEF DestroyServer, conns, clients
<1>2. Kept' = {}
  BY <1>1 DEF Kept
<1>3. UNCHANGED Phase
  BY <1>1 DEF Phase
<1>4. Life!Close
  BY <1>1, <1>2, <1>3 DEF Life!Close
<1> QED
  BY <1>4 DEF Life!Next

(* The steps of a loop's thread that are not about the life of a connection *)
(* are stutters, and the others are each one step of it.                    *)
LEMMA WorkIsLife ==
  ASSUME ServerInv, NEW l \in Loop, Works(l)
  PROVE  [Life!Next]_(Life!vars)
<1> USE DEF conns, loops, clients
<1>1. CASE NewConnection
  BY <1>1, NewIsMake
<1>2. CASE AcceptFails
  BY <1>2, QuietSteps DEF AcceptFails
<1>3. ASSUME NEW c \in Conn, HandleEvent(l, c)
      PROVE  [Life!Next]_(Life!vars)
  <2>1. ups[c] = 1 /\ UNCHANGED <<server, accepted, connections>>
    BY <1>3, HandleEventIs
  <2>2. Lower(c) \/ UNCHANGED <<ups, downs>>
    BY <1>3 DEF HandleEvent
  <2> QED
    BY <2>1, <2>2, LowerIsLower, LowerAgainIsQuiet, QuietSteps
<1>4. ASSUME NEW c \in Conn, RemoveConnection(l, c)
      PROVE  [Life!Next]_(Life!vars)
  <2>1. /\ todo[l] # <<>> /\ Head(todo[l]) = <<"close", c>>
        /\ UNCHANGED <<server, numThreads, nextConnId, name, connected, registered, ups, downs, accepted>>
        /\ RemoveConnectionInLoop(c) \/ UNCHANGED connections
    BY <1>4 DEF RemoveConnection, Does
  <2>2. downs[c] # 0
    <3>1. Has(todo[l], <<"close", c>>)
      BY <2>1, Types, HasTail
    <3> QED
      BY <3>1 DEF ServerInv, Removing
  <2> QED
    BY <2>1, <2>2, RemoveIsForget, QuietSteps
<1>5. ASSUME NEW c \in Conn, RunEstablished(l, c)
      PROVE  [Life!Next]_(Life!vars)
  BY <1>5, EstablishedIsRaise
<1>6. ASSUME NEW c \in Conn, RunDestroyed(l, c) \/ DestroyConnection(c)
      PROVE  [Life!Next]_(Life!vars)
  <2>1. /\ ConnectDestroyed(c) /\ UNCHANGED <<server, accepted, connections>>
    BY <1>6 DEF RunDestroyed, Runs, DestroyConnection
  <2>2. (ups[c] = 1 /\ downs[c] = 0 /\ Lower(c)) \/ UNCHANGED <<ups, downs>>
    BY <2>1 DEF ConnectDestroyed, ToldDown, ServerInv, Told
  <2> QED
    BY <2>1, <2>2, LowerIsLower, QuietSteps
<1>7. ASSUME NEW c \in Conn, RunRemove(l, c)
      PROVE  [Life!Next]_(Life!vars)
  <2>1. /\ Runs(l, Rem(c)) /\ RemoveConnectionInLoop(c)
        /\ UNCHANGED <<server, numThreads, name, nextConnId, connected, registered, ups, downs, accepted>>
    BY <1>7 DEF RunRemove, Runs, Rem
  <2>2. downs[c] # 0
    BY <2>1, RunsIs DEF ServerInv, Removing
  <2> QED
    BY <2>1, <2>2, RemoveIsForget
<1>8. ASSUME NEW c \in Conn, CallbackReturns(l, c) \/ AcceptorReturns(c)
      PROVE  [Life!Next]_(Life!vars)
  BY <1>8, QuietSteps DEF CallbackReturns, AcceptorReturns
<1>9. CASE BatchDone(l)
  BY <1>9, QuietSteps DEF BatchDone
<1> QED
  BY <1>1, <1>2, <1>3, <1>4, <1>5, <1>6, <1>7, <1>8, <1>9 DEF Works

(* Over all its loops the server keeps what ConnectionLife promises of each *)
(* connection: it comes up once and goes down once, and is known until it   *)
(* went down, or until the server is destroyed.                             *)
THEOREM ServerImplementsLife == Spec => ImplementsLife
<1>1. Init => Life!Init
  <2> SUFFICES ASSUME Init
               PROVE  Life!Init
    OBVIOUS
  <2>1. Phase = [c \in Conn |-> "idle"]
    BY DEF Init, Phase, Conn
  <2>2. Kept = {}
    BY DEF Init, Kept
  <2> QED
    BY <2>1, <2>2 DEF Init, Life!Init
<1>2. ServerInv /\ [Next]_vars => [Life!Next]_(Life!vars)
  <2> SUFFICES ASSUME ServerInv, [Next]_vars
               PROVE  [Life!Next]_(Life!vars)
    OBVIOUS
  <2> USE DEF conns, loops, clients
  <2>1. CASE UNCHANGED vars
    BY <2>1, QuietSteps DEF vars
  <2>2. ASSUME NEW l \in Loop, Works(l)
        PROVE  [Life!Next]_(Life!vars)
    BY <2>2, WorkIsLife
  <2>3. ASSUME NEW l \in Loop, Poll(l) \/ DoPendingFunctors(l)
        PROVE  [Life!Next]_(Life!vars)
    BY <2>3, QuietSteps DEF Poll, DoPendingFunctors
  <2>4. CASE DestroyServer
    BY <2>4, DestroyIsClose
  <2>5. CASE Start \/ ClientConnects
    BY <2>5, QuietSteps DEF Start, ClientConnects
  <2>6. ASSUME NEW c \in Conn,
               \/ \E l \in Loop : KeepPointer(l, c)
               \/ DropPointer(c) \/ Shutdown(c) \/ ClientCloses(c)
        PROVE  [Life!Next]_(Life!vars)
    BY <2>6, QuietSteps DEF KeepPointer, DropPointer, Shutdown, ClientCloses
  <2> QED
    BY <2>1, <2>2, <2>3, <2>4, <2>5, <2>6 DEF Next
<1> QED
  BY <1>1, <1>2, ServerAlways, PTL DEF Spec, ImplementsLife, Life!Spec
-----------------------------------------------------------------------------
(* One connection among the others.                                         *)
One(c) == INSTANCE ConnectionLife WITH Conn <- {c}, phase <- [d \in {c} |-> Phase[d]],
                                       kept <- Kept \intersect {c}, serving <- server # "gone"

(* A step in the life of one connection is none in that of another.         *)
LEMMA LifeOfOne ==
  ASSUME NEW c \in Conn, [Life!Next]_(Life!vars)
  PROVE  [One(c)!Next]_(One(c)!vars)
<1> DEFINE p == [d \in {c} |-> Phase[d]]
<1>0. Phase \in [Conn -> {"idle", "made", "up", "down"}]
  BY DEF Phase
<1>1. ASSUME NEW d \in Conn, NEW from, NEW to, Phase[d] = from, Phase' = [Phase EXCEPT ![d] = to]
      PROVE  /\ d = c => p[c] = from /\ p' = [p EXCEPT ![c] = to]
             /\ d # c => p' = p
  <2>1. Phase'[c] = IF c = d THEN to ELSE Phase[c]
    BY <1>0, <1>1
  <2>2. p' = [e \in {c} |-> Phase'[e]]
    OBVIOUS
  <2> QED
    BY <1>1, <2>1, <2>2
<1>2. ASSUME NEW d \in Conn,
             \/ Life!Make(d) \/ Life!MakeAndRaise(d) \/ Life!Raise(d) \/ Life!Lower(d)
      PROVE  [One(c)!Next]_(One(c)!vars)
  <2>1. PICK from, to : Phase[d] = from /\ Phase' = [Phase EXCEPT ![d] = to]
    BY <1>2 DEF Life!Make, Life!MakeAndRaise, Life!Raise, Life!Lower, Life!Turn
  <2>2. Kept' \in {Kept, Kept \union {d}} /\ (server # "gone")' = (server # "gone")
    BY <1>2 DEF Life!Make, Life!MakeAndRaise, Life!Raise, Life!Lower
  <2>3. CASE d # c
    <3>1. p' = p /\ (Kept \intersect {c})' = Kept \intersect {c}
      BY <1>1, <2>1, <2>2, <2>3
    <3> QED
      BY <2>2, <3>1 DEF One!vars
  <2>4. CASE d = c
    <3>1. \A from1, to1 : Life!Turn(c, from1, to1) => One(c)!Turn(c, from1, to1)
      BY <1>1 DEF Life!Turn, One!Turn
    <3>2. \/ One(c)!Make(c) \/ One(c)!MakeAndRaise(c) \/ One(c)!Raise(c) \/ One(c)!Lower(c)
      BY <1>2, <2>4, <3>1
         DEF Life!Make, Life!MakeAndRaise, Life!Raise, Life!Lower,
             One!Make, One!MakeAndRaise, One!Raise, One!Lower
    <3> QED
      BY <3>2 DEF One!Next
  <2> QED
    BY <2>3, <2>4
<1>3. ASSUME NEW d \in Conn, Life!Forget(d)
      PROVE  [One(c)!Next]_(One(c)!vars)
  <2>1. Phase[d] = "down" /\ Kept' = Kept \ {d} /\ UNCHANGED <<Phase, server # "gone">>
    BY <1>3 DEF Life!Forget
  <2>2. CASE d # c
    <3>1. p' = p /\ (Kept \intersect {c})' = Kept \intersect {c}
      BY <2>1, <2>2
    <3> QED
      BY <2>1, <3>1 DEF One!vars
  <2>3. CASE d = c
    <3>1. One(c)!Forget(c)
      BY <2>1, <2>3 DEF One!Forget
    <3> QED
      BY <3>1 DEF One!Next
  <2> QED
    BY <2>2, <2>3
<1>4. CASE Life!Close
  <2>1. One(c)!Close
    BY <1>4 DEF Life!Close, One!Close
  <2> QED
    BY <2>1 DEF One!Next
<1>5. CASE UNCHANGED Life!vars
  BY <1>5 DEF Life!vars, One!vars
<1> QED
  BY <1>2, <1>3, <1>4, <1>5 DEF Life!Next

(* What the server promises of all connections together it promises of each *)
(* one by itself: the life that module TcpConnection was shown to lead.     *)
THEOREM ServerServesEach ==
  ASSUME NEW c \in Conn
  PROVE  Spec => One(c)!Spec
<1>1. Init => One(c)!Init
  <2> SUFFICES ASSUME Init
               PROVE  One(c)!Init
    OBVIOUS
  <2>1. Phase = [d \in Conn |-> "idle"]
    BY DEF Init, Phase, Conn
  <2>2. Kept = {}
    BY DEF Init, Kept
  <2> QED
    BY <2>1, <2>2 DEF Init, One!Init
<1>2. [Life!Next]_(Life!vars) => [One(c)!Next]_(One(c)!vars)
  BY LifeOfOne
<1>3. Spec => [][Life!Next]_(Life!vars)
  BY ServerImplementsLife, PTL DEF ImplementsLife, Life!Spec
<1> QED
  BY <1>1, <1>2, <1>3, PTL DEF Spec, One!Spec
-----------------------------------------------------------------------------
(* One loop per thread.                                                     *)

(* Whose business a functor or a frame is: connections_ and the listening   *)
(* channel are the base loop's, the rest belongs to the connection's loop.  *)
(* connections_ comes as a functor only from another loop.                  *)
Place(l, x) == CASE x[1] = "remove" -> l = Base /\ numThreads # 0
                 [] x[1] = "acceptor" -> l = Base
                 [] OTHER -> LoopOf(x[2]) = l

(* Every loop has in hand only what is its own: what is queued on it, what  *)
(* it is calling, what it has still to do and what was reported to it.      *)
Dealt ==
  \A l \in Loop :
    /\ \A x : Has(pending[l], x) \/ Has(batch[l], x) \/ Has(todo[l], x) => Place(l, x)
    /\ \A c \in active[l] : c # Listener => LoopOf(c) = l

(* What a step of loop k's thread may do.                                   *)
MoveOf(k) ==
  /\ UNCHANGED numThreads
  /\ \A l \in Loop : l # k => /\ batch'[l] = batch[l] /\ ran'[l] = ran[l]
                              /\ active'[l] = active[l] /\ todo'[l] = todo[l]
  /\ k # Base => UNCHANGED <<server, connections, nextConnId, name>>
  /\ \A c \in Conn : LoopOf(c) # k => /\ ups'[c] = ups[c] /\ downs'[c] = downs[c]
                                      /\ c \in registered' <=> c \in registered
  /\ \A l \in Loop : \A x : Has(pending'[l], x) => Has(pending[l], x) \/ Place(l, x)
  /\ \A x : Has(batch'[k], x) => Has(batch[k], x) \/ Has(pending[k], x)
  /\ \A x : Has(todo'[k], x) => Has(todo[k], x) \/ Place(k, x)
  /\ \A c \in active'[k] : c \in active[k] \/ c = Listener \/ LoopOf(c) = k

LEMMA PlaceIs ==
  ASSUME NEW l, NEW c
  PROVE  /\ Place(l, Rem(c)) <=> l = Base /\ numThreads # 0
         /\ Place(l, <<"acceptor", c>>) <=> l = Base
         /\ Place(l, Est(c)) <=> LoopOf(c) = l
         /\ Place(l, Dest(c)) <=> LoopOf(c) = l
         /\ Place(l, <<"user", c>>) <=> LoopOf(c) = l
         /\ Place(l, <<"close", c>>) <=> LoopOf(c) = l
         /\ Place(l, <<"destroy", c>>) <=> LoopOf(c) = l
BY DEF Place, Rem, Est, Dest

(* A loop takes out of its queue what was dealt to it and puts into another *)
(* what is that one's.                                                      *)
LEMMA MoveKeepsDealt ==
  ASSUME Dealt, NEW k \in Loop, MoveOf(k)
  PROVE  Dealt'
<1>1. \A l, x : Place(l, x)' <=> Place(l, x)
  BY DEF MoveOf, Place, LoopOf
<1>2. \A c : LoopOf(c)' = LoopOf(c)
  BY DEF MoveOf, LoopOf
<1>3. ASSUME NEW l \in Loop, NEW x, Has(pending'[l], x) \/ Has(batch'[l], x) \/ Has(todo'[l], x)
      PROVE  Place(l, x)
  <2>1. CASE l = k
    BY <1>3, <2>1 DEF Dealt, MoveOf
  <2>2. CASE l # k
    BY <1>3, <2>2 DEF Dealt, MoveOf
  <2> QED
    BY <2>1, <2>2
<1>4. ASSUME NEW l \in Loop, NEW c \in active'[l], c # Listener
      PROVE  LoopOf(c) = l
  <2>1. CASE l = k
    BY <1>4, <2>1 DEF Dealt, MoveOf
  <2>2. CASE l # k
    BY <1>4, <2>2 DEF Dealt, MoveOf
  <2> QED
    BY <2>1, <2>2
<1> QED
  BY <1>1, <1>2, <1>3, <1>4 DEF Dealt

(* What a loop does to a connection of its own leaves those of others alone. *)
LEMMA OthersAlone ==
  ASSUME ServerInv, NEW c \in Conn,
         Raise(c) \/ Lower(c) \/ UNCHANGED <<connected, registered, ups, downs>>
  PROVE  \A d \in Conn : LoopOf(d) # LoopOf(c) =>
           /\ ups'[d] = ups[d] /\ downs'[d] = downs[d]
           /\ d \in registered' <=> d \in registered
<1> SUFFICES ASSUME NEW d \in Conn, LoopOf(d) # LoopOf(c)
             PROVE  /\ ups'[d] = ups[d] /\ downs'[d] = downs[d]
                    /\ d \in registered' <=> d \in registered
  OBVIOUS
<1>1. d # c
  OBVIOUS
<1>2. ups \in [Conn -> Nat] /\ downs \in [Conn -> Nat]
  BY Types
<1> QED
  BY <1>1, <1>2 DEF Raise, Lower, DisableAll

(* Steps in which no thread's stack changes.                                *)
LEMMA OutsideMoves ==
  ASSUME ServerInv,
         \/ UNCHANGED vars \/ Start \/ ClientConnects
         \/ \E c \in Conn : \/ \E l \in Loop : KeepPointer(l, c)
                            \/ DropPointer(c) \/ Shutdown(c) \/ ClientCloses(c)
  PROVE  MoveOf(Base)
<1>1. UNCHANGED <<numThreads, registered, ups, downs, pending, batch, ran, active, todo>>
  BY DEF vars, conns, loops, clients, Start, ClientConnects, KeepPointer, DropPointer, Shutdown,
         ClientCloses
<1> QED
  BY <1>1 DEF MoveOf

LEMMA PollMoves ==
  ASSUME ServerInv, NEW l \in Loop, Poll(l)
  PROVE  MoveOf(l)
<1>1. PICK messages \in SUBSET MayReport(l) :
        active' = [active EXCEPT ![l] = messages \union MustReport(l)]
  BY DEF Poll
<1>2. UNCHANGED <<server, numThreads, connections, nextConnId, name, registered, ups, downs, pending,
                  batch, ran, todo>>
  BY DEF Poll, conns
<1>3. active \in [Loop -> SUBSET (Conn \union {Listener})]
  BY DEF ServerInv, TypeOK
<1>4. \A k \in Loop : active'[k] = IF k = l THEN messages \union MustReport(l) ELSE active[k]
  BY <1>1, <1>3
<1>5. \A c \in messages \union MustReport(l) : c = Listener \/ LoopOf(c) = l
  BY DEF MayReport, MustReport
<1> QED
  BY <1>2, <1>4, <1>5 DEF MoveOf

LEMMA AcceptFailsMoves ==
  ASSUME ServerInv, AcceptFails
  PROVE  MoveOf(Base)
<1>1. /\ active' = [active EXCEPT ![Base] = @ \ {Listener}]
      /\ UNCHANGED <<numThreads, registered, ups, downs, pending, batch, ran, todo>>
  BY DEF AcceptFails, Handled, conns
<1>2. active \in [Loop -> SUBSET (Conn \union {Listener})]
  BY DEF ServerInv, TypeOK
<1>3. \A k \in Loop : active'[k] = IF k = Base THEN active[Base] \ {Listener} ELSE active[k]
  BY <1>1, <1>2
<1> QED
  BY <1>1, <1>3 DEF MoveOf

LEMMA BatchMoves ==
  ASSUME ServerInv, NEW l \in Loop, DoPendingFunctors(l) \/ BatchDone(l)
  PROVE  MoveOf(l)
<1>1. UNCHANGED <<server, numThreads, connections, nextConnId, name, registered, ups, downs, active,
                  todo>>
  BY DEF DoPendingFunctors, BatchDone, conns
<1>2. /\ \A k \in Loop : k # l => batch'[k] = batch[k] /\ ran'[k] = ran[k]
      /\ \A k \in Loop : \A x : Has(pending'[k], x) => Has(pending[k], x)
      /\ \A x : Has(batch'[l], x) => Has(batch[l], x) \/ Has(pending[l], x)
  <2>1. CASE DoPendingFunctors(l)
    <3>1. /\ batch' = [batch EXCEPT ![l] = pending[l]]
          /\ pending' = [pending EXCEPT ![l] = <<>>] /\ UNCHANGED ran
      BY <2>1 DEF DoPendingFunctors
    <3>2. \A k \in Loop : /\ batch'[k] = IF k = l THEN pending[l] ELSE batch[k]
                          /\ pending'[k] = IF k = l THEN <<>> ELSE pending[k]
      BY <3>1, Types
    <3>3. \A x : ~Has(<<>>, x)
      BY HasShort
    <3>4. \A k \in Loop : \A x : Has(pending'[k], x) => Has(pending[k], x)
      BY <3>2, <3>3
    <3> QED
      BY <3>1, <3>2, <3>4
  <2>2. CASE BatchDone(l)
    <3>1. /\ batch' = [batch EXCEPT ![l] = <<>>]
          /\ ran' = [ran EXCEPT ![l] = 0] /\ UNCHANGED pending
      BY <2>2 DEF BatchDone
    <3>2. \A k \in Loop : /\ batch'[k] = IF k = l THEN <<>> ELSE batch[k]
                          /\ ran'[k] = IF k = l THEN 0 ELSE ran[k]
      BY <3>1, Types
    <3>3. \A x : ~Has(<<>>, x)
      BY HasShort
    <3> QED
      BY <3>1, <3>2, <3>3
  <2> QED
    BY <2>1, <2>2
<1> QED
  BY <1>1, <1>2 DEF MoveOf

LEMMA HandleEventMoves ==
  ASSUME ServerInv, Dealt, NEW l \in Loop, NEW c \in Conn, HandleEvent(l, c)
  PROVE  MoveOf(l)
<1>1. /\ todo[l] = <<>> /\ c \in active[l]
      /\ active' = [active EXCEPT ![l] = @ \ {c}]
      /\ UNCHANGED <<server, numThreads, connections, nextConnId, name, pending, batch, ran>>
  BY DEF HandleEvent, Reports, Handled
<1>2. PICK frames \in {<< <<"user", c>> >>, << <<"user", c>>, <<"close", c>> >>} :
        todo' = [todo EXCEPT ![l] = frames]
  BY DEF HandleEvent
<1>3. LoopOf(c) = l
  <2>1. c # Listener
    BY DEF Conn, Listener
  <2> QED
    BY <1>1, <2>1 DEF Dealt
<1>4. \A x : Has(frames, x) => Place(l, x)
  <2>1. Place(l, <<"user", c>>) /\ Place(l, <<"close", c>>)
    BY <1>3, PlaceIs
  <2>2. \A x : /\ Has(<< <<"user", c>> >>, x) => x = <<"user", c>>
               /\ Has(<< <<"user", c>>, <<"close", c>> >>, x) => x = <<"user", c>> \/ x = <<"close", c>>
    BY HasShort
  <2> QED
    BY <1>2, <2>1, <2>2
<1>5. \A d \in Conn : LoopOf(d) # l => /\ ups'[d] = ups[d] /\ downs'[d] = downs[d]
                                       /\ d \in registered' <=> d \in registered
  BY <1>3, OthersAlone DEF HandleEvent
<1>6. active \in [Loop -> SUBSET (Conn \union {Listener})] /\ todo \in [Loop -> Seq(Frame)]
  BY DEF ServerInv, TypeOK
<1>7. \A k \in Loop : /\ active'[k] = IF k = l THEN active[l] \ {c} ELSE active[k]
                      /\ todo'[k] = IF k = l THEN frames ELSE todo[k]
  BY <1>1, <1>2, <1>6
<1> QED
  BY <1>1, <1>4, <1>5, <1>7 DEF MoveOf

(* removeConnectionInLoop runs on the base loop and tells the connection's. *)
LEMMA RemovalQueues ==
  ASSUME ServerInv, NEW c \in Conn, RemoveConnectionInLoop(c)
  PROVE  \A k \in Loop : \A x : Has(pending'[k], x) => Has(pending[k], x) \/ Place(k, x)
<1>1. LoopOf(c) \in Loop /\ pending' = [pending EXCEPT ![LoopOf(c)] = Append(@, Dest(c))]
  BY Types, LoopOfIsLoop DEF RemoveConnectionInLoop, Queued, Dest
<1>2. \A k \in Loop : pending'[k] = IF k = LoopOf(c) THEN Append(pending[k], Dest(c)) ELSE pending[k]
  BY <1>1, Types
<1>3. \A k \in Loop : \A x : Has(Append(pending[k], Dest(c)), x) => Has(pending[k], x) \/ x = Dest(c)
  <2>1. Dest(c) \in Functor
    BY DEF Dest, Functor
  <2> QED
    BY <2>1, PendingAppend
<1>4. Place(LoopOf(c), Dest(c))
  BY PlaceIs
<1> QED
  BY <1>2, <1>3, <1>4

LEMMA RemoveConnectionMoves ==
  ASSUME ServerInv, Dealt, NEW l \in Loop, NEW c \in Conn, RemoveConnection(l, c)
  PROVE  MoveOf(l)
<1>1. /\ todo[l] # <<>> /\ Becomes(l, <<>>)
      /\ UNCHANGED <<server, numThreads, nextConnId, name, registered, ups, downs, batch, ran, active>>
  BY DEF RemoveConnection, Does, conns
<1>2. /\ \A k \in Loop : k # l => todo'[k] = todo[k]
      /\ \A x : Has(todo'[l], x) => Has(todo[l], x)
  <2>1. todo[l] \in Seq(Frame) /\ todo \in [Loop -> Seq(Frame)]
    BY Types
  <2>2. Tail(todo[l]) \in Seq(Frame)
    BY <1>1, <2>1, HeadTailProperties
  <2>3. <<>> \o Tail(todo[l]) = Tail(todo[l])
    BY <2>2, ConcatEmptySeq
  <2>4. \A k \in Loop : todo'[k] = IF k = l THEN Tail(todo[l]) ELSE todo[k]
    BY <1>1, <2>1, <2>3 DEF Becomes
  <2> QED
    BY <1>1, <2>1, <2>4, HasTail
<1>3. /\ \A k \in Loop : \A x : Has(pending'[k], x) => Has(pending[k], x) \/ Place(k, x)
      /\ l # Base => UNCHANGED connections
  <2>1. CASE l = Base /\ RemoveConnectionInLoop(c)
    BY <2>1, RemovalQueues
  <2>2. CASE l # Base /\ pending' = Queued(pending, Base, <<"remove", c>>) /\ UNCHANGED connections
    <3>1. \A k \in Loop : pending'[k] = IF k = Base THEN Append(pending[k], Rem(c)) ELSE pending[k]
      BY <2>2, Types DEF Queued, Rem
    <3>2. \A k \in Loop : \A x : Has(Append(pending[k], Rem(c)), x) => Has(pending[k], x) \/ x = Rem(c)
      <4>1. Rem(c) \in Functor
        BY DEF Rem, Functor
      <4> QED
        BY <4>1, PendingAppend
    <3>3. Place(Base, Rem(c))
      <4>1. Has(todo[l], <<"close", c>>)
        BY <1>1, Types, HasTail DEF RemoveConnection, Does
      <4>2. LoopOf(c) = l
        BY <4>1, PlaceIs DEF Dealt
      <4> QED
        BY <2>2, <4>2, PlaceIs DEF LoopOf
    <3> QED
      BY <2>2, <3>1, <3>2, <3>3
  <2> QED
    BY <2>1, <2>2 DEF RemoveConnection
<1> QED
  BY <1>1, <1>2, <1>3 DEF MoveOf

(* A functor runs where it was queued, and it was queued where it belongs.  *)
LEMMA RunMoves ==
  ASSUME ServerInv, Dealt, NEW l \in Loop, NEW c \in Conn,
         RunEstablished(l, c) \/ RunDestroyed(l, c) \/ RunRemove(l, c)
  PROVE  MoveOf(l)
<1>1. PICK f \in {Est(c), Dest(c), Rem(c)} : Runs(l, f) /\ (RunRemove(l, c) => f = Rem(c))
                                             /\ (~RunRemove(l, c) => f \in {Est(c), Dest(c)})
  <2>1. RunRemove(l, c) => Runs(l, Rem(c))
    BY DEF RunRemove, Rem
  <2>2. /\ RunEstablished(l, c) => Runs(l, Est(c))
        /\ RunDestroyed(l, c) => Runs(l, Dest(c))
    BY DEF RunEstablished, RunDestroyed, Est, Dest
  <2> QED
    BY <2>1, <2>2
<1>2. /\ Has(batch[l], f) /\ ran' = [ran EXCEPT ![l] = @ + 1]
      /\ UNCHANGED <<server, numThreads, nextConnId, name, batch, active>>
  BY <1>1, RunsIs DEF Runs
<1>3. Place(l, f)
  BY <1>2 DEF Dealt
<1>4. \A k \in Loop : k # l => ran'[k] = ran[k]
  BY <1>2, Types
<1>5. CASE RunRemove(l, c)
  <2>1. l = Base
    <3>1. f = Rem(c)
      BY <1>1, <1>5
    <3>2. Place(l, Rem(c)) => l = Base
      BY PlaceIs
    <3> QED
      BY <1>3, <3>1, <3>2
  <2>2. RemoveConnectionInLoop(c) /\ UNCHANGED <<registered, ups, downs, todo>>
    BY <1>5 DEF RunRemove
  <2> QED
    BY <1>2, <1>4, <2>1, <2>2, RemovalQueues DEF MoveOf
<1>6. CASE ~RunRemove(l, c)
  <2>1. LoopOf(c) = l
    BY <1>1, <1>3, <1>6, PlaceIs
  <2>2. /\ UNCHANGED <<connections, pending>>
        /\ Raise(c) \/ Lower(c) \/ UNCHANGED <<connected, registered, ups, downs>>
        /\ \E frames \in {<<>>, << <<"user", c>> >>} : todo' = [todo EXCEPT ![l] = frames]
    BY <1>6 DEF RunEstablished, RunDestroyed, ConnectDestroyed, DestroyedFrames
  <2>3. PICK frames \in {<<>>, << <<"user", c>> >>} : todo' = [todo EXCEPT ![l] = frames]
    BY <2>2
  <2>4. \A x : Has(frames, x) => Place(l, x)
    <3>1. \A x : ~Has(<<>>, x) /\ (Has(<< <<"user", c>> >>, x) => x = <<"user", c>>)
      BY HasShort
    <3>2. Place(l, <<"user", c>>)
      BY <2>1, PlaceIs
    <3> QED
      BY <2>3, <3>1, <3>2
  <2>5. \A k \in Loop : todo'[k] = IF k = l THEN frames ELSE todo[k]
    BY <2>3, Types
  <2>6. \A d \in Conn : LoopOf(d) # l => /\ ups'[d] = ups[d] /\ downs'[d] = downs[d]
                                         /\ d \in registered' <=> d \in registered
    BY <2>1, <2>2, OthersAlone
  <2> QED
    BY <1>2, <1>4, <2>2, <2>4, <2>5, <2>6 DEF MoveOf
<1> QED
  BY <1>5, <1>6

(* Callbacks return where they were called, and ~TcpServer takes leave of   *)
(* connections that are all on the base loop.                               *)
LEMMA ReturnMoves ==
  ASSUME ServerInv, Dealt, NEW l \in Loop, NEW c \in Conn,
         \/ CallbackReturns(l, c)
         \/ l = Base /\ (AcceptorReturns(c) \/ DestroyConnection(c))
  PROVE  MoveOf(l)
<1>1. /\ todo[l] # <<>>
      /\ UNCHANGED <<server, numThreads, connections, nextConnId, name, pending, batch, ran, active>>
  BY DEF CallbackReturns, AcceptorReturns, DestroyConnection, Does, conns
<1>2. PICK frames \in {<<>>, << <<"user", c>> >>} :
        /\ Becomes(l, frames)
        /\ frames # <<>> => Has(todo[l], <<"destroy", c>>)
        /\ \/ UNCHANGED <<connected, registered, ups, downs>>
           \/ Lower(c) /\ Has(todo[l], <<"destroy", c>>)
  <2>1. CASE DestroyConnection(c) /\ l = Base
    <3>1. Has(todo[l], <<"destroy", c>>)
      BY <1>1, <2>1, Types, HasTail DEF DestroyConnection, Does
    <3> QED
      BY <2>1, <3>1 DEF DestroyConnection, ConnectDestroyed, DestroyedFrames
  <2>2. CASE CallbackReturns(l, c) \/ (l = Base /\ AcceptorReturns(c))
    BY <2>2 DEF CallbackReturns, AcceptorReturns, conns
  <2> QED
    BY <2>1, <2>2
<1>3. Has(todo[l], <<"destroy", c>>) => LoopOf(c) = l
  BY PlaceIs DEF Dealt
<1>4. \A x : Has(frames, x) => Place(l, x)
  <2>1. \A x : ~Has(<<>>, x) /\ (Has(<< <<"user", c>> >>, x) => x = <<"user", c>>)
    BY HasShort
  <2>2. Place(l, <<"user", c>>) <=> LoopOf(c) = l
    BY PlaceIs
  <2>3. CASE frames = <<>>
    BY <2>1, <2>3
  <2>4. CASE frames = << <<"user", c>> >>
    <3>1. frames # <<>>
      BY <2>4
    <3> QED
      BY <1>2, <1>3, <2>1, <2>2, <2>4, <3>1
  <2> QED
    BY <1>2, <2>3, <2>4
<1>5. \A d \in Conn : LoopOf(d) # l => /\ ups'[d] = ups[d] /\ downs'[d] = downs[d]
                                       /\ d \in registered' <=> d \in registered
  BY <1>2, <1>3, OthersAlone
<1>6. frames \in Seq(Frame)
  <2>1. <<>> \in Seq(Frame) /\ << <<"user", c>> >> \in Seq(Frame)
    BY DEF Frame
  <2> QED
    BY <1>2, <2>1
<1>7. /\ \A k \in Loop : \A x : Has(todo'[k], x) => Has(todo[k], x) \/ (k = l /\ Has(frames, x))
      /\ \A k \in Loop : k # l => todo'[k] = todo[k]
  <2>1. \A k \in Loop : \A x : Has(todo'[k], x) => Has(todo[k], x) \/ (k = l /\ Has(frames, x))
    BY <1>1, <1>2, <1>6, BecomesIs
  <2>2. \A k \in Loop : k # l => todo'[k] = todo[k]
    BY <1>2, Types DEF Becomes
  <2> QED
    BY <2>1, <2>2
<1> QED
  BY <1>1, <1>4, <1>5, <1>7 DEF MoveOf

LEMMA NewConnectionMoves ==
  ASSUME ServerInv, NewConnection
  PROVE  MoveOf(Base)
<1>1. PICK c : c = accepted + 1
  OBVIOUS
<1>2. /\ c \in Conn /\ active' = [active EXCEPT ![Base] = @ \ {Listener}]
      /\ UNCHANGED <<numThreads, batch, ran, downs>>
  BY <1>1, NewConnectionIs
<1>3. active \in [Loop -> SUBSET (Conn \union {Listener})]
  BY DEF ServerInv, TypeOK
<1>4. \A k \in Loop : active'[k] = IF k = Base THEN active[Base] \ {Listener} ELSE active[k]
  BY <1>2, <1>3
<1>5. CASE /\ LoopOf(c) = Base
           /\ Raise(c)
           /\ todo' = [todo EXCEPT ![Base] = << <<"user", c>>, <<"acceptor", c>> >>]
           /\ UNCHANGED pending
  <2>1. \A x : Has(<< <<"user", c>>, <<"acceptor", c>> >>, x) => Place(Base, x)
    <3>1. \A x : Has(<< <<"user", c>>, <<"acceptor", c>> >>, x) =>
                   x = <<"user", c>> \/ x = <<"acceptor", c>>
      BY HasShort
    <3>2. Place(Base, <<"user", c>>) /\ Place(Base, <<"acceptor", c>>)
      BY <1>5, PlaceIs
    <3> QED
      BY <3>1, <3>2
  <2>2. \A k \in Loop :
          todo'[k] = IF k = Base THEN << <<"user", c>>, <<"acceptor", c>> >> ELSE todo[k]
    BY <1>5, Types
  <2>3. \A d \in Conn : LoopOf(d) # Base => /\ ups'[d] = ups[d] /\ downs'[d] = downs[d]
                                            /\ d \in registered' <=> d \in registered
    BY <1>2, <1>5, OthersAlone
  <2> QED
    BY <1>2, <1>4, <1>5, <2>1, <2>2, <2>3 DEF MoveOf
<1>6. CASE /\ LoopOf(c) # Base
           /\ pending' = Queued(pending, LoopOf(c), Est(c))
           /\ UNCHANGED <<connected, registered, ups, todo>>
  <2>1. LoopOf(c) \in Loop
    BY <1>2, Types, LoopOfIsLoop
  <2>2. \A k \in Loop : pending'[k] = IF k = LoopOf(c) THEN Append(pending[k], Est(c)) ELSE pending[k]
    BY <1>6, <2>1, Types DEF Queued
  <2>3. \A k \in Loop : \A x : Has(Append(pending[k], Est(c)), x) => Has(pending[k], x) \/ x = Est(c)
    <3>1. Est(c) \in Functor
      BY <1>2 DEF Est, Functor
    <3> QED
      BY <3>1, PendingAppend
  <2>4. Place(LoopOf(c), Est(c))
    BY PlaceIs
  <2>5. \A k \in Loop : \A x : Has(pending'[k], x) => Has(pending[k], x) \/ Place(k, x)
    BY <2>2, <2>3, <2>4
  <2> QED
    BY <1>2, <1>4, <1>6, <2>5 DEF MoveOf
<1> QED
  BY <1>1, <1>5, <1>6, NewConnectionIs

LEMMA DestroyServerMoves ==
  ASSUME ServerInv, DestroyServer
  PROVE  MoveOf(Base)
<1>1. /\ numThreads = 0
      /\ UNCHANGED <<numThreads, registered, ups, downs, pending, batch, ran, active>>
  BY DEF DestroyServer, conns
<1>2. PICK frames \in DestroyFrames : todo' = [todo EXCEPT ![Base] = frames \o @]
  BY DEF DestroyServer
<1>3. frames \in Seq(Frame) /\ \A x : Has(frames, x) => \E c \in Kept : x = <<"destroy", c>>
  <2>1. Kept \subseteq Conn
    BY Types DEF Kept
  <2> QED
    BY <2>1, DestroyVisitsAll
<1>4. \A x : Has(frames, x) => Place(Base, x)
  <2>1. \A c : LoopOf(c) = Base
    BY <1>1 DEF LoopOf
  <2>2. \A c : Place(Base, <<"destroy", c>>)
    BY <2>1, PlaceIs
  <2> QED
    BY <1>3, <2>2
<1>5. \A k \in Loop : todo'[k] = IF k = Base THEN frames \o todo[Base] ELSE todo[k]
  BY <1>2, Types
<1>6. \A x : Has(frames \o todo[Base], x) <=> Has(frames, x) \/ Has(todo[Base], x)
  BY <1>3, Types, HasConcat
<1> QED
  BY <1>1, <1>4, <1>5, <1>6, Types DEF MoveOf

LEMMA EveryStepIsAMove ==
  ASSUME ServerInv, Dealt, [Next]_vars
  PROVE  \E k \in Loop : MoveOf(k)
<1>0. Base \in Loop
  BY Types
<1>1. ASSUME NEW l \in Loop, Works(l)
      PROVE  \E k \in Loop : MoveOf(k)
  <2>1. CASE NewConnection
    BY <1>0, <2>1, NewConnectionMoves
  <2>2. CASE AcceptFails
    BY <1>0, <2>2, AcceptFailsMoves
  <2>3. ASSUME NEW c \in Conn, HandleEvent(l, c)
        PROVE  MoveOf(l)
    BY <2>3, HandleEventMoves
  <2>4. ASSUME NEW c \in Conn, RemoveConnection(l, c)
        PROVE  MoveOf(l)
    BY <2>4, RemoveConnectionMoves
  <2>5. ASSUME NEW c \in Conn, RunEstablished(l, c) \/ RunDestroyed(l, c) \/ RunRemove(l, c)
        PROVE  MoveOf(l)
    BY <2>5, RunMoves
  <2>6. ASSUME NEW c \in Conn,
               \/ CallbackReturns(l, c)
               \/ l = Base /\ (AcceptorReturns(c) \/ DestroyConnection(c))
        PROVE  MoveOf(l)
    BY <2>6, ReturnMoves
  <2>7. CASE BatchDone(l)
    BY <2>7, BatchMoves
  <2> QED
    BY <1>1, <2>1, <2>2, <2>3, <2>4, <2>5, <2>6, <2>7 DEF Works
<1>2. ASSUME NEW l \in Loop, Poll(l) \/ DoPendingFunctors(l)
      PROVE  \E k \in Loop : MoveOf(k)
  BY <1>2, PollMoves, BatchMoves
<1>3. CASE DestroyServer
  BY <1>0, <1>3, DestroyServerMoves
<1>4. CASE \/ UNCHANGED vars \/ Start \/ ClientConnects
           \/ \E c \in Conn : \/ \E l \in Loop : KeepPointer(l, c)
                              \/ DropPointer(c) \/ Shutdown(c) \/ ClientCloses(c)
  BY <1>0, <1>4, OutsideMoves
<1> QED
  BY <1>1, <1>2, <1>3, <1>4 DEF Next

LEMMA DealtInit == Init => Dealt
<1>1. Init => \A l \in Loop : /\ pending[l] = <<>> /\ batch[l] = <<>> /\ todo[l] = <<>>
                              /\ active[l] = {}
  BY DEF Init
<1> QED
  BY <1>1, HasShort DEF Dealt

(* A step is one thread's; it leaves what belongs to other threads alone,   *)
(* and a callback that it begins is of a connection of its own.             *)
LEMMA MoveConfined ==
  ASSUME ServerInv, ServerInv', Dealt', NEW k \in Loop, MoveOf(k),
         NEW l \in Loop, Stack(l)' # Stack(l)
  PROVE  /\ l # Base => UNCHANGED <<server, connections, nextConnId, name>>
         /\ \A c \in Conn : LoopOf(c) # l =>
              /\ ups'[c] = ups[c] /\ downs'[c] = downs[c]
              /\ c \in registered' <=> c \in registered
              /\ ~Does(l, <<"user", c>>)'
<1>1. l = k
  BY DEF MoveOf, Stack
<1>2. ASSUME NEW c \in Conn, Does(l, <<"user", c>>)'
      PROVE  LoopOf(c) = l
  <2>1. todo'[l] # <<>> /\ Head(todo'[l]) = <<"user", c>> /\ todo'[l] \in Seq(Frame)
    BY <1>2 DEF Does, ServerInv, TypeOK
  <2>2. Has(todo'[l], <<"user", c>>)
    BY <2>1, HasTail
  <2>3. Place(l, <<"user", c>>)'
    BY <2>2 DEF Dealt
  <2>4. LoopOf(c)' = LoopOf(c)
    BY DEF MoveOf, LoopOf
  <2> QED
    BY <2>3, <2>4 DEF Place
<1> QED
  BY <1>1, <1>2 DEF MoveOf

LEMMA DealtAlways == Spec => [](ServerInv /\ Dealt)
<1>1. Init => ServerInv /\ Dealt
  BY ServerInit, DealtInit
<1>2. ServerInv /\ Dealt /\ [Next]_vars => (ServerInv /\ Dealt)'
  <2> SUFFICES ASSUME ServerInv, Dealt, [Next]_vars
               PROVE  ServerInv' /\ Dealt'
    OBVIOUS
  <2>1. PICK k \in Loop : MoveOf(k)
    BY EveryStepIsAMove
  <2> QED
    BY <2>1, ServerInductive, MoveKeepsDealt
<1> QED
  BY <1>1, <1>2, PTL DEF Spec

(* For every number of threads and of connections: connections_ is touched  *)
(* by the base loop's thread alone, a connection only by the thread of the  *)
(* loop it was dealt, and its callbacks run there.                          *)
THEOREM EachThreadItsOwn == Spec => OneLoopPerThread
<1>1. /\ ServerInv /\ Dealt /\ (ServerInv /\ Dealt)' /\ [Next]_vars
      => [\A l \in Loop : Stack(l)' # Stack(l) =>
            /\ l # Base => UNCHANGED <<server, connections, nextConnId, name>>
            /\ \A c \in Conn : LoopOf(c) # l =>
                 /\ ups'[c] = ups[c] /\ downs'[c] = downs[c]
                 /\ c \in registered' <=> c \in registered
                 /\ ~Does(l, <<"user", c>>)']_vars
  <2> SUFFICES ASSUME ServerInv, Dealt, ServerInv', Dealt', [Next]_vars,
                      NEW l \in Loop, Stack(l)' # Stack(l)
               PROVE  /\ l # Base => UNCHANGED <<server, connections, nextConnId, name>>
                      /\ \A c \in Conn : LoopOf(c) # l =>
                           /\ ups'[c] = ups[c] /\ downs'[c] = downs[c]
                           /\ c \in registered' <=> c \in registered
                           /\ ~Does(l, <<"user", c>>)'
    OBVIOUS
  <2>1. PICK k \in Loop : MoveOf(k)
    BY EveryStepIsAMove
  <2> QED
    BY <2>1, MoveConfined
<1> QED
  BY <1>1, DealtAlways, PTL DEF Spec, OneLoopPerThread

(* ~TcpServer leaves no functor behind that would use the server: such a    *)
(* functor exists only where there are other loops.                         *)
THEOREM NoRemovalOutlivesServer == Spec => []RemovalsFindServer
<1>1. ServerInv /\ Dealt => RemovalsFindServer
  <2> SUFFICES ASSUME ServerInv, Dealt, server = "gone", NEW l \in Loop, NEW c \in Conn,
                      <<"remove", c>> \in ToSet(pending[l]) \union ToSet(batch[l])
               PROVE  FALSE
    BY DEF RemovalsFindServer
  <2>1. Has(pending[l], Rem(c)) \/ Has(batch[l], Rem(c))
    <3>1. pending[l] \in Seq(Functor) /\ batch[l] \in Seq(Functor)
      BY Types
    <3>2. DOMAIN pending[l] = 1..Len(pending[l]) /\ DOMAIN batch[l] = 1..Len(batch[l])
      BY <3>1, LenProperties
    <3> QED
      BY <3>2 DEF ToSet, Has, Rem
  <2>2. numThreads # 0
    BY <2>1, PlaceIs DEF Dealt
  <2> QED
    BY <2>2 DEF ServerInv, Gone
<1> QED
  BY <1>1, DealtAlways, PTL
=============================================================================
