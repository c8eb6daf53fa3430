---------------------------- MODULE ProcessProofs ----------------------------
(***************************************************************************)
(* Theorems about a shell or exec request without a terminal, for pipes,   *)
(* streams and windows of any size: no child is left behind, and what the  *)
(* client is shown is what ProcessSession promises.                        *)
(***************************************************************************)
EXTENDS ProcessService, TLAPS, SequenceTheorems, FiniteSetTheorems

Chunk == [kind : Streams, n : Nat]
Ends == {ExitStatus, Eof, Close}

TypeOK ==
    /\ child \in {"running", "exited", "reaped"}
    /\ wrote \in [Streams -> Nat]
    /\ DOMAIN pipes = Streams
    /\ \A s \in Streams : DOMAIN pipes[s] = {"data", "held", "read"} /\ pipes[s].data \in Seq(Nat)
    /\ output_rx \in Seq(Chunk)
    /\ DOMAIN service = {"at", "message", "child_exit", "output_closed", "input"}
    /\ service.at \in {"select", "send", "finish", "abort", "done"}
    /\ service.at = "send" => service.message \in Chunk
    /\ DOMAIN to_bridge = {"queue", "open", "reset"}
    /\ to_bridge.queue \in Seq(Chunk \cup {ExitStatus})
    /\ DOMAIN bridge = {"at", "message", "exit_status", "input"}
    /\ bridge.at \in {"read", "send", "closed", "failed"}
    /\ bridge.at = "send" => bridge.message \in Chunk
    /\ delivered \in Seq(Chunk \cup Ends)
    /\ DOMAIN client = {"session", "sent", "eof", "unread"}
    /\ client.session \in {"open", "closed", "dropped"}

\* The service task leaves its loop with the child dead, and unless the listener is gone
\* with all of the output passed on.
ServiceInv ==
    /\ service.child_exit => child = "reaped"
    /\ service.at \in {"finish", "abort", "done"} => child # "running"
    /\ service.at = "finish" => BridgeGone
    /\ service.output_closed =>
          output_rx = <<>> /\ \A s \in Streams : ~pipes[s].read /\ pipes[s].data = <<>>
    /\ service.at # "done" =>
          \A s \in Streams : ~pipes[s].read => pipes[s].data = <<>> /\ ~pipes[s].held
    /\ to_bridge.open <=> service.at \notin {"abort", "done"}
    /\ ~to_bridge.open => BridgeGone \/ (service.output_closed /\ service.child_exit)

\* The bridge closes the channel of a client that is there after all of the output.
Closed == delivered # <<>> /\ delivered[Len(delivered)] = Close

BridgeInvariant ==
    /\ ~BridgeGone => delivered \in Seq(Chunk)
    /\ BridgeGone => Closed \/ client.session # "open"
    /\ BridgeGone /\ Closed => service.output_closed

\* The chunks of kind s among the first i of q, and the sequences in which each chunk has
\* its number in its stream.
Count(q, s, i) == Cardinality({j \in 1 .. i : q[j].kind = s})
Numbered(q) == \A i \in 1 .. Len(q) : q[i].n = Count(q, q[i].kind, i)

InHand(task) == IF task.at = "send" THEN <<task.message>> ELSE <<>>

\* What the processes wrote and the readers have read, on its way to the client; q are the
\* chunks in the service stream.
Chain(q) == delivered \o (InHand(bridge) \o (q \o (InHand(service) \o output_rx)))

\* Whether the client may still be shown output.
Attached == client.session = "open" /\ bridge.at \in {"read", "send"}

Carries(q) ==
    /\ to_bridge.queue = IF to_bridge.open \/ bridge.exit_status THEN q ELSE Append(q, ExitStatus)
    /\ bridge.exit_status => q = <<>> /\ ~to_bridge.open

\* A pipe holds the last of the n chunks written to it.
Pending(data, n) ==
    /\ Len(data) <= n
    /\ \A i \in 1 .. Len(data) : data[i] = n - Len(data) + i

PipeInv == \A s \in Streams : Pending(pipes[s].data, wrote[s])

\* While the client may be shown output, each stream is in order, and complete, along the
\* way from the pipe to the client.
InOrder(q) ==
    /\ Numbered(q)
    /\ \A s \in Streams : Count(q, s, Len(q)) + Len(pipes[s].data) = wrote[s]

ChainInv == Attached => \E q \in Seq(Chunk) : Carries(q) /\ InOrder(Chain(q))

IInv == TypeOK /\ ServiceInv /\ BridgeInvariant /\ PipeInv /\ ChainInv

-----------------------------------------------------------------------------
\* Moving a message from one place to the next leaves the chain as it is.
LEMMA MoveHead ==
    ASSUME NEW S, NEW q \in Seq(S), NEW t \in Seq(S), q # <<>>
    PROVE  <<Head(q)>> \o (Tail(q) \o t) = <<>> \o (q \o t)
<1>1. Head(q) \in S /\ Tail(q) \in Seq(S) /\ <<Head(q)>> \in Seq(S)
  BY HeadTailProperties
<1>2. <<Head(q)>> \o Tail(q) = q
  BY <1>1
<1>3. (<<Head(q)>> \o Tail(q)) \o t = <<Head(q)>> \o (Tail(q) \o t)
  BY <1>1, ConcatAssociative
<1>4. q \o t \in Seq(S)
  BY ConcatProperties
<1>5. <<>> \o (q \o t) = q \o t
  BY <1>4, ConcatEmptySeq
<1> QED
  BY <1>2, <1>3, <1>5

LEMMA MoveFirst ==
    ASSUME NEW S, NEW q \in Seq(S), q # <<>>
    PROVE  <<Head(q)>> \o Tail(q) = <<>> \o q
<1>1. Head(q) \in S /\ Tail(q) \in Seq(S)
  BY HeadTailProperties
<1>2. <<Head(q)>> \o Tail(q) = q
  BY <1>1
<1>3. <<>> \o q = q
  BY ConcatEmptySeq
<1> QED
  BY <1>2, <1>3

LEMMA MoveLast ==
    ASSUME NEW S, NEW q \in Seq(S), NEW t \in Seq(S), NEW m \in S
    PROVE  Append(q, m) \o (<<>> \o t) = q \o (<<m>> \o t)
<1>1. <<m>> \in Seq(S)
  OBVIOUS
<1>2. Append(q, m) = q \o <<m>>
  BY AppendIsConcat
<1>3. (q \o <<m>>) \o t = q \o (<<m>> \o t)
  BY <1>1, ConcatAssociative
<1>4. <<>> \o t = t
  BY ConcatEmptySeq
<1> QED
  BY <1>2, <1>3, <1>4

LEMMA AppendLast ==
    ASSUME NEW S, NEW q \in Seq(S), NEW t \in Seq(S), NEW m \in S
    PROVE  q \o Append(t, m) = Append(q \o t, m)
<1>1. <<m>> \in Seq(S) /\ q \o t \in Seq(S)
  BY ConcatProperties
<1>2. Append(t, m) = t \o <<m>> /\ Append(q \o t, m) = (q \o t) \o <<m>>
  BY <1>1, AppendIsConcat
<1>3. (q \o t) \o <<m>> = q \o (t \o <<m>>)
  BY <1>1, ConcatAssociative
<1> QED
  BY <1>2, <1>3

LEMMA AppendLasts ==
    ASSUME NEW S, NEW m \in S
    PROVE  \A x, y \in Seq(S) : x \o y \in Seq(S) /\ x \o Append(y, m) = Append(x \o y, m)
  BY AppendLast, ConcatProperties

LEMMA OneThenTwo ==
    ASSUME NEW S, NEW x \in S, NEW y \in S, NEW z \in S
    PROVE  <<x>> \o <<y, z>> = <<x, y, z>>
<1>1. <<x>> \in Seq(S) /\ <<y, z>> \in Seq(S) /\ <<x, y, z>> \in Seq(S)
  OBVIOUS
<1>2. PICK r \in Seq(S) : r = <<x>> \o <<y, z>>
  BY <1>1, ConcatProperties, Zenon
<1>3. Len(r) = 3 /\ r[1] = x /\ r[2] = y /\ r[3] = z
  BY <1>1, <1>2, ConcatProperties
<1>4. r = <<x, y, z>>
  BY <1>1, <1>3, SeqEqual
<1> QED
  BY <1>2, <1>4, Zenon

LEMMA OutputChunk ==
    ASSUME NEW s \in Streams, NEW n \in Nat
    PROVE  Output(s, n) \in Chunk /\ Output(s, n).kind = s /\ Output(s, n).n = n
BY DEF Output, Chunk

LEMMA EndsAreNoChunks == \A m \in Chunk : m # ExitStatus /\ m # Close
<1> SUFFICES ASSUME NEW m \in Chunk PROVE m # ExitStatus /\ m # Close
  OBVIOUS
<1>1. m.kind \in Streams
  BY DEF Chunk
<1>2. ExitStatus.kind \notin Streams /\ Close.kind \notin Streams
  BY DEF ExitStatus, Close, Streams
<1> QED
  BY <1>1, <1>2

\* What the bridge sends last.
LEMMA LastIsClose ==
    ASSUME NEW d \in Seq(Chunk), NEW e \in {<<>>, <<ExitStatus>>}
    PROVE  /\ d \o e \o <<Eof, Close>> \in Seq(Chunk \cup Ends)
           /\ d \o e \o <<Eof, Close>> # <<>>
           /\ LET r == d \o e \o <<Eof, Close>> IN r[Len(r)] = Close
<1> DEFINE S == Chunk \cup Ends
<1>1. d \in Seq(S)
  BY SeqMonotonic
<1>2. PICK x \in S, y \in S, z \in S : x = ExitStatus /\ y = Eof /\ z = Close
  BY DEF Ends
<1> HIDE DEF S
<1>3. e \in Seq(S) /\ <<y, z>> \in Seq(S)
  <2>1. <<x>> \in Seq(S) /\ <<>> \in Seq(S) /\ <<y, z>> \in Seq(S)
    OBVIOUS
  <2> QED
    BY <1>2, <2>1, Zenon
<1>4. PICK u \in Seq(S) : u = <<Eof, Close>> /\ Len(u) = 2 /\ u[2] = Close
  <2>1. Len(<<y, z>>) = 2 /\ <<y, z>>[2] = z
    OBVIOUS
  <2> QED
    BY <1>2, <1>3, <2>1, Zenon
<1>5. PICK v \in Seq(S) : v = d \o e
  BY <1>1, <1>3, ConcatProperties, Zenon
<1>6. PICK k \in Nat : k = Len(v)
  BY LenProperties
<1>7. PICK r \in Seq(S) : r = v \o u
  BY <1>4, ConcatProperties, Zenon
<1>8. Len(r) = k + 2 /\ r[k + 2] = Close
  <2>1. /\ Len(r) = Len(v) + Len(u)
        /\ \A i \in 1 .. Len(v) + Len(u) : r[i] = IF i <= Len(v) THEN v[i] ELSE u[i - Len(v)]
    BY <1>7, ConcatProperties
  <2>2. PICK i \in 1 .. k + 2 : i = k + 2 /\ ~(i <= k) /\ i - k = 2
    OBVIOUS
  <2>3. r[i] = u[i - k] /\ Len(r) = k + 2
    BY <1>4, <1>6, <2>1, <2>2
  <2> QED
    BY <1>4, <2>2, <2>3
<1>9. r # <<>>
  BY <1>8
<1> QED
  BY <1>4, <1>5, <1>7, <1>8, <1>9 DEF S

\* A chunk more at the end of a pipe, and one less at its beginning.
LEMMA PendingAppend ==
    ASSUME NEW d \in Seq(Nat), NEW n \in Nat, Pending(d, n)
    PROVE  /\ Append(d, n + 1) \in Seq(Nat) /\ Pending(Append(d, n + 1), n + 1)
           /\ Len(Append(d, n + 1)) = Len(d) + 1 /\ Len(d) \in Nat
<1>1. PICK k \in Nat : k = Len(d)
  BY LenProperties
<1>2. PICK e : e = Append(d, n + 1)
  BY Zenon
<1>3. e \in Seq(Nat) /\ Len(e) = k + 1 /\ e[k + 1] = n + 1 /\ \A i \in 1 .. k : e[i] = d[i]
  <2>1. n + 1 \in Nat
    OBVIOUS
  <2> QED
    BY <1>1, <1>2, <2>1, AppendProperties
<1>4. k <= n /\ \A i \in 1 .. k : d[i] = n - k + i
  BY <1>1 DEF Pending
<1>5. ASSUME NEW i \in 1 .. k + 1 PROVE e[i] = (n + 1) - (k + 1) + i
  <2>1. CASE i = k + 1
    BY <1>3, <2>1
  <2>2. CASE i \in 1 .. k
    BY <1>3, <1>4, <2>2
  <2> QED
    BY <2>1, <2>2
<1> QED
  BY <1>1, <1>2, <1>3, <1>4, <1>5 DEF Pending

LEMMA PendingTail ==
    ASSUME NEW d \in Seq(Nat), NEW n \in Nat, d # <<>>, Pending(d, n)
    PROVE  /\ Head(d) \in Nat /\ Tail(d) \in Seq(Nat) /\ Pending(Tail(d), n)
           /\ Len(Tail(d)) \in Nat /\ Len(d) = Len(Tail(d)) + 1
           /\ Head(d) + Len(Tail(d)) = n
<1>1. PICK e \in Seq(Nat) : e = Tail(d)
  BY HeadTailProperties, Zenon
<1>2. PICK k \in Nat : k = Len(e)
  BY LenProperties
<1>3. Len(d) = k + 1 /\ \A i \in 1 .. k : e[i] = d[i + 1]
  <2>1. Len(e) = Len(d) - 1 /\ \A i \in 1 .. Len(e) : e[i] = d[i + 1]
    BY <1>1, HeadTailProperties
  <2>2. Len(d) \in Nat
    BY LenProperties
  <2> QED
    BY <1>2, <2>1, <2>2
<1>4. Head(d) = d[1] /\ Head(d) \in Nat
  BY HeadTailProperties
<1>5. k + 1 <= n /\ \A i \in 1 .. k + 1 : d[i] = n - (k + 1) + i
  BY <1>3 DEF Pending
<1>6. ASSUME NEW i \in 1 .. k PROVE e[i] = n - k + i
  <2>1. PICK j \in 1 .. k + 1 : j = i + 1
    OBVIOUS
  <2>2. e[i] = d[j] /\ d[j] = n - (k + 1) + j
    BY <1>3, <1>5, <2>1
  <2> QED
    BY <2>1, <2>2
<1>7. Head(d) + k = n
  <2>1. d[1] = n - (k + 1) + 1
    BY <1>5
  <2> QED
    BY <1>4, <2>1
<1> QED
  BY <1>1, <1>2, <1>3, <1>4, <1>5, <1>6, <1>7 DEF Pending

-----------------------------------------------------------------------------
LEMMA CountType ==
    ASSUME NEW q, NEW s, NEW i \in Nat
    PROVE  /\ Count(q, s, i) \in Nat
           /\ IsFiniteSet({j \in 1 .. i : q[j].kind = s})
<1>1. IsFiniteSet(1 .. i)
  BY FS_Interval
<1>2. IsFiniteSet({j \in 1 .. i : q[j].kind = s})
  BY <1>1, FS_Subset
<1> QED
  BY <1>2, FS_CardinalityType DEF Count

\* Two sequences with a common beginning count alike in it.
LEMMA CountSame ==
    ASSUME NEW q, NEW r, NEW s, NEW i \in Nat, \A j \in 1 .. i : q[j] = r[j]
    PROVE  Count(q, s, i) = Count(r, s, i)
<1>1. {j \in 1 .. i : q[j].kind = s} = {j \in 1 .. i : r[j].kind = s}
  OBVIOUS
<1> QED
  BY <1>1, Zenon DEF Count

LEMMA CountStep ==
    ASSUME NEW q, NEW s, NEW i \in Nat
    PROVE  Count(q, s, i + 1) = Count(q, s, i) + (IF q[i + 1].kind = s THEN 1 ELSE 0)
<1> DEFINE J == {j \in 1 .. i : q[j].kind = s}
           K == {j \in 1 .. i + 1 : q[j].kind = s}
<1>1. IsFiniteSet(J) /\ Cardinality(J) \in Nat /\ i + 1 \notin J
  <2>1. IsFiniteSet(J)
    BY CountType
  <2>2. i + 1 \notin J
    OBVIOUS
  <2> HIDE DEF J
  <2> QED
    BY <2>1, <2>2, FS_CardinalityType
<1>2. CASE q[i + 1].kind = s
  <2>1. K = J \cup {i + 1}
    BY <1>2
  <2> HIDE DEF J, K
  <2>2. Cardinality(K) = Cardinality(J) + 1
    BY <1>1, <2>1, FS_AddElement, Zenon
  <2> QED
    BY <1>2, <2>2 DEF Count, J, K
<1>3. CASE q[i + 1].kind # s
  <2>1. K = J
    BY <1>3
  <2> HIDE DEF J, K
  <2>2. Cardinality(K) = Cardinality(J) + 0
    BY <1>1, <2>1
  <2> QED
    BY <1>3, <2>2 DEF Count, J, K
<1> QED
  BY <1>2, <1>3

\* A longer beginning has at least as many.
LEMMA CountGrows ==
    ASSUME NEW q, NEW s, NEW i \in Nat, NEW k \in Nat, i <= k
    PROVE  Count(q, s, i) <= Count(q, s, k)
<1> DEFINE J == {j \in 1 .. i : q[j].kind = s}
           K == {j \in 1 .. k : q[j].kind = s}
<1>1. J \subseteq K
  OBVIOUS
<1>2. IsFiniteSet(K)
  BY CountType, Zenon
<1> HIDE DEF J, K
<1>3. Cardinality(J) <= Cardinality(K)
  BY <1>1, <1>2, FS_Subset
<1> QED
  BY <1>3 DEF Count, J, K

\* The next chunk of a stream keeps a sequence numbered.
LEMMA NumberedAppend ==
    ASSUME NEW q \in Seq(Chunk), NEW m \in Chunk, Numbered(q),
           m.n = Count(q, m.kind, Len(q)) + 1
    PROVE  /\ Numbered(Append(q, m)) /\ Append(q, m) \in Seq(Chunk)
           /\ Len(Append(q, m)) = Len(q) + 1
           /\ \A s \in Streams : Count(Append(q, m), s, Len(q) + 1)
                 = Count(q, s, Len(q)) + (IF m.kind = s THEN 1 ELSE 0)
<1> DEFINE r == Append(q, m)
<1>1. /\ r \in Seq(Chunk) /\ Len(r) = Len(q) + 1 /\ Len(q) \in Nat
      /\ r[Len(q) + 1] = m /\ \A j \in 1 .. Len(q) : r[j] = q[j]
  BY AppendProperties
<1> HIDE DEF r
<1>2. ASSUME NEW s PROVE Count(r, s, Len(q) + 1)
                           = Count(q, s, Len(q)) + (IF m.kind = s THEN 1 ELSE 0)
  <2>1. Count(r, s, Len(q)) = Count(q, s, Len(q))
    BY <1>1, CountSame
  <2> QED
    BY <1>1, <2>1, CountStep
<1>3. ASSUME NEW i \in 1 .. Len(r) PROVE r[i].n = Count(r, r[i].kind, i)
  <2>1. CASE i = Len(q) + 1
    BY <1>1, <1>2, <2>1
  <2>2. CASE i \in 1 .. Len(q)
    <3>1. Count(r, r[i].kind, i) = Count(q, r[i].kind, i)
      BY <1>1, <2>2, CountSame
    <3> QED
      BY <1>1, <2>2, <3>1 DEF Numbered
  <2> QED
    BY <1>1, <2>1, <2>2
<1>4. Numbered(r)
  BY <1>3 DEF Numbered
<1> QED
  BY <1>1, <1>2, <1>4 DEF r

\* In a numbered sequence, what follows a beginning is the next chunk of its stream.
LEMMA NumberedNext ==
    ASSUME NEW q \in Seq(Chunk), NEW t \in Seq(Chunk), NEW m \in Chunk,
           Numbered(q \o (<<m>> \o t))
    PROVE  /\ m.n = Count(q, m.kind, Len(q)) + 1
           /\ LET all == q \o (<<m>> \o t)
              IN  Count(all, m.kind, Len(all)) > Count(q, m.kind, Len(q))
<1> DEFINE u == <<m>> \o t
           all == q \o u
<1>1. u \in Seq(Chunk) /\ Len(u) = Len(t) + 1 /\ u[1] = m
  BY ConcatProperties
<1> HIDE DEF u
<1>2. /\ Len(all) = Len(q) + Len(u) /\ Len(q) \in Nat /\ Len(t) \in Nat
      /\ all[Len(q) + 1] = m /\ \A j \in 1 .. Len(q) : all[j] = q[j]
  <2>1. Len(q) \in Nat /\ Len(t) \in Nat
    BY LenProperties
  <2>2. /\ Len(all) = Len(q) + Len(u)
        /\ \A j \in 1 .. Len(q) + Len(u) :
              all[j] = IF j <= Len(q) THEN q[j] ELSE u[j - Len(q)]
    BY <1>1, ConcatProperties, Zenon
  <2> HIDE DEF all
  <2>3. all[Len(q) + 1] = u[1]
    <3>1. PICK k \in Nat : k = Len(q) + 1
      BY <2>1
    <3>2. k \in 1 .. Len(q) + Len(u) /\ ~(k <= Len(q)) /\ k - Len(q) = 1
      BY <1>1, <2>1, <3>1
    <3>3. all[k] = u[k - Len(q)]
      BY <2>2, <3>2
    <3> QED
      BY <3>1, <3>2, <3>3
  <2>4. \A j \in 1 .. Len(q) : all[j] = q[j]
    BY <1>1, <2>1, <2>2
  <2> QED
    BY <1>1, <2>1, <2>2, <2>3, <2>4
<1>3. Numbered(all)
  BY DEF u
<1> HIDE DEF all
<1>4. Count(all, m.kind, Len(q)) = Count(q, m.kind, Len(q))
  BY <1>2, CountSame
<1>5. Count(all, m.kind, Len(q) + 1) = Count(q, m.kind, Len(q)) + 1
  BY <1>2, <1>4, CountStep
<1>6. m.n = Count(all, m.kind, Len(q) + 1)
  BY <1>1, <1>2, <1>3 DEF Numbered
<1>7. Count(all, m.kind, Len(q) + 1) <= Count(all, m.kind, Len(all))
  BY <1>1, <1>2, CountGrows
<1>8. Count(q, m.kind, Len(q)) \in Nat /\ Count(all, m.kind, Len(all)) \in Nat
  <2>1. Len(q) \in Nat /\ Len(all) \in Nat
    BY <1>1, <1>2
  <2> QED
    BY <2>1, CountType, Zenon
<1> QED
  BY <1>5, <1>6, <1>7, <1>8 DEF all, u

-----------------------------------------------------------------------------
LEMMA InitIInv == Init => IInv
<1> SUFFICES ASSUME Init PROVE IInv
  OBVIOUS
<1>1. /\ child = "running" /\ wrote = [s \in Streams |-> 0]
      /\ pipes = [s \in Streams |-> [data |-> <<>>, held |-> TRUE, read |-> TRUE]]
      /\ output_rx = <<>> /\ delivered = <<>>
      /\ service = [at |-> "select", message |-> NoMessage, child_exit |-> FALSE,
                    output_closed |-> FALSE, input |-> TRUE]
      /\ to_bridge = [queue |-> <<>>, open |-> TRUE, reset |-> FALSE]
      /\ bridge = [at |-> "read", message |-> NoMessage, exit_status |-> FALSE, input |-> TRUE]
      /\ client = [session |-> "open", sent |-> 0, eof |-> FALSE, unread |-> 0]
  BY DEF Init, BridgeInit
<1>2. TypeOK
  <2>1. wrote \in [Streams -> Nat]
    BY <1>1
  <2>2. /\ DOMAIN pipes = Streams
        /\ \A s \in Streams :
              DOMAIN pipes[s] = {"data", "held", "read"} /\ pipes[s].data \in Seq(Nat)
    <3>1. /\ DOMAIN pipes = Streams
          /\ \A s \in Streams : pipes[s] = [data |-> <<>>, held |-> TRUE, read |-> TRUE]
      BY <1>1
    <3>2. PICK r : r = [data |-> <<>>, held |-> TRUE, read |-> TRUE]
      BY Zenon
    <3>3. DOMAIN r = {"data", "held", "read"} /\ r.data = <<>>
      BY <3>2
    <3>4. <<>> \in Seq(Nat)
      OBVIOUS
    <3> QED
      BY <3>1, <3>2, <3>3, <3>4, Zenon
  <2>3. /\ DOMAIN service = {"at", "message", "child_exit", "output_closed", "input"}
        /\ service.at = "select"
    BY <1>1
  <2>4. /\ DOMAIN to_bridge = {"queue", "open", "reset"}
        /\ to_bridge.queue \in Seq(Chunk \cup {ExitStatus})
    BY <1>1
  <2>5. /\ DOMAIN bridge = {"at", "message", "exit_status", "input"} /\ bridge.at = "read"
    BY <1>1
  <2>6. DOMAIN client = {"session", "sent", "eof", "unread"} /\ client.session = "open"
    BY <1>1
  <2>7. output_rx \in Seq(Chunk) /\ delivered \in Seq(Chunk \cup Ends)
    BY <1>1
  <2> QED
    BY <1>1, <2>1, <2>2, <2>3, <2>4, <2>5, <2>6, <2>7 DEF TypeOK
<1>3. ServiceInv
  BY <1>1 DEF ServiceInv
<1>4. BridgeInvariant
  BY <1>1 DEF BridgeInvariant, BridgeGone
<1>5. PipeInv
  BY <1>1 DEF PipeInv, Pending
<1>6. ChainInv
  <2>1. InHand(bridge) = <<>> /\ InHand(service) = <<>>
    BY <1>1 DEF InHand
  <2>2. Chain(<<>>) = <<>>
    BY <1>1, <2>1 DEF Chain
  <2>3. Carries(<<>>)
    BY <1>1 DEF Carries
  <2>4. \A s : Count(<<>>, s, 0) = 0
    <3>1. \A s : {j \in 1 .. 0 : <<>>[j].kind = s} = {}
      OBVIOUS
    <3> QED
      BY <3>1, FS_EmptySet DEF Count
  <2>5. InOrder(<<>>)
    BY <1>1, <2>4 DEF InOrder, Numbered
  <2>6. <<>> \in Seq(Chunk)
    OBVIOUS
  <2> QED
    BY <2>2, <2>3, <2>5, <2>6, Zenon DEF ChainInv
<1> QED
  BY <1>2, <1>3, <1>4, <1>5, <1>6 DEF IInv

-----------------------------------------------------------------------------
\* Steps beside the way of the output: input, the client, and the end of the child.
SameService ==
    /\ DOMAIN service' = DOMAIN service
    /\ service'.at = service.at /\ service'.message = service.message
    /\ service'.child_exit = service.child_exit
    /\ service'.output_closed = service.output_closed

SameStream ==
    /\ DOMAIN to_bridge' = DOMAIN to_bridge
    /\ to_bridge'.queue = to_bridge.queue /\ to_bridge'.open = to_bridge.open

SameBridge ==
    /\ DOMAIN bridge' = DOMAIN bridge
    /\ bridge'.at = bridge.at /\ bridge'.message = bridge.message
    /\ bridge'.exit_status = bridge.exit_status

\* The client may leave, the child may end, and its pipes may lose a holder.
ClientStays ==
    /\ DOMAIN client' = DOMAIN client
    /\ client'.session \in {"open", "closed", "dropped"}
    /\ client'.session = "open" => client.session = "open"

PipesStay ==
    /\ DOMAIN pipes' = Streams
    /\ \A s \in Streams :
          /\ DOMAIN pipes'[s] = DOMAIN pipes[s]
          /\ pipes'[s].data = pipes[s].data /\ pipes'[s].read = pipes[s].read
          /\ pipes'[s].held => pipes[s].held

ChildStays ==
    /\ child' \in {"running", "exited", "reaped"}
    /\ child # "running" => child' # "running"
    /\ child = "reaped" => child' = "reaped"

SideStep ==
    /\ SameService /\ SameStream /\ SameBridge /\ ClientStays /\ PipesStay /\ ChildStays
    /\ UNCHANGED <<wrote, output_rx, delivered>>

LEMMA SideStepIInv == IInv /\ SideStep => IInv'
<1> SUFFICES ASSUME IInv, SideStep PROVE IInv'
  OBVIOUS
<1> USE DEF SideStep
<1>1. TypeOK'
  <2>1. \A s \in Streams : DOMAIN pipes'[s] = {"data", "held", "read"} /\ pipes'[s].data \in Seq(Nat)
    BY DEF IInv, TypeOK, PipesStay
  <2> QED
    BY <2>1 DEF IInv, TypeOK, SameService, SameStream, SameBridge, ClientStays, PipesStay, ChildStays
<1>2. ServiceInv'
  <2>1. service'.output_closed =>
          output_rx' = <<>> /\ \A s \in Streams : ~pipes'[s].read /\ pipes'[s].data = <<>>
    BY DEF IInv, ServiceInv, SameService, PipesStay
  <2>2. service'.at # "done" =>
          \A s \in Streams : ~pipes'[s].read => pipes'[s].data = <<>> /\ ~pipes'[s].held
    BY DEF IInv, ServiceInv, SameService, PipesStay
  <2>3. /\ service'.child_exit => child' = "reaped"
        /\ service'.at \in {"finish", "abort", "done"} => child' # "running"
        /\ service'.at = "finish" => bridge'.at = "closed"
        /\ to_bridge'.open <=> service'.at \notin {"abort", "done"}
        /\ ~to_bridge'.open => bridge'.at = "closed"
                               \/ (service'.output_closed /\ service'.child_exit)
    BY DEF IInv, ServiceInv, BridgeGone, SameService, SameStream, SameBridge, ChildStays
  <2> QED
    BY <2>1, <2>2, <2>3 DEF ServiceInv, BridgeGone
<1>3. BridgeInvariant'
  BY DEF IInv, BridgeInvariant, BridgeGone, Closed, SameService, SameBridge, ClientStays
<1>4. PipeInv'
  BY DEF IInv, PipeInv, PipesStay
<1>5. ChainInv'
  <2> SUFFICES ASSUME Attached' PROVE \E q \in Seq(Chunk) : Carries(q)' /\ InOrder(Chain(q))'
    BY DEF ChainInv
  <2>1. PICK q \in Seq(Chunk) : Carries(q) /\ InOrder(Chain(q))
    BY DEF IInv, ChainInv, Attached, ClientStays, SameBridge
  <2>2. Carries(q)'
    BY <2>1 DEF Carries, SameStream, SameBridge
  <2>3. InHand(bridge)' = InHand(bridge) /\ InHand(service)' = InHand(service)
    BY DEF InHand, SameService, SameBridge
  <2>4. Chain(q)' = Chain(q)
    BY <2>3 DEF Chain
  <2>5. PICK all : all = Chain(q)
    OBVIOUS
  <2>6. InOrder(all)'
    BY <2>1, <2>5 DEF InOrder, PipesStay
  <2>7. InOrder(Chain(q))'
    BY <2>4, <2>5, <2>6 DEF InOrder
  <2> QED
    BY <2>2, <2>7
<1> QED
  BY <1>1, <1>2, <1>3, <1>4, <1>5 DEF IInv

LEMMA ChildEndsStays ==
    ASSUME TypeOK, child = "running", ChildEnds
    PROVE  PipesStay /\ ChildStays /\ wrote' = wrote /\ child' = "exited"
<1>1. PICK kept \in SUBSET {s \in Streams : pipes[s].held} :
         pipes' = [s \in Streams |-> [pipes[s] EXCEPT !.held = s \in kept]]
  BY Zenon DEF ChildEnds
<1>2. DOMAIN pipes' = Streams /\ \A s \in Streams : pipes'[s] = [pipes[s] EXCEPT !.held = s \in kept]
  BY <1>1
<1>3. ASSUME NEW s \in Streams
      PROVE  /\ DOMAIN pipes'[s] = DOMAIN pipes[s]
             /\ pipes'[s].data = pipes[s].data /\ pipes'[s].read = pipes[s].read
             /\ pipes'[s].held => pipes[s].held
  <2>1. DOMAIN pipes[s] = {"data", "held", "read"}
    BY DEF TypeOK
  <2>2. pipes'[s] = [pipes[s] EXCEPT !.held = s \in kept] /\ (s \in kept => pipes[s].held)
    BY <1>1, <1>2
  <2>3. /\ DOMAIN pipes'[s] = DOMAIN pipes[s]
        /\ pipes'[s].data = pipes[s].data /\ pipes'[s].read = pipes[s].read
    BY <2>1, <2>2
  <2>4. pipes'[s].held = (s \in kept)
    BY <2>1, <2>2
  <2> QED
    BY <2>2, <2>3, <2>4, Zenon
<1> QED
  BY <1>2, <1>3 DEF PipesStay, ChildStays, ChildEnds

LEMMA KillStays ==
    ASSUME TypeOK, Kill
    PROVE  PipesStay /\ ChildStays /\ wrote' = wrote /\ child' # "running"
<1>1. CASE child = "running" /\ ChildEnds
  BY <1>1, ChildEndsStays
<1>2. CASE child # "running" /\ UNCHANGED outside
  BY <1>2 DEF outside, TypeOK, PipesStay, ChildStays
<1> QED
  BY <1>1, <1>2 DEF Kill

-----------------------------------------------------------------------------
\* A step that moves chunks along the chain keeps them in order.
LEMMA ChainStays ==
    ASSUME NEW q, NEW r, InOrder(Chain(q)), Chain(r)' = Chain(q), UNCHANGED <<wrote, pipes>>
    PROVE  InOrder(Chain(r))'
<1>1. PICK all : all = Chain(q)
  OBVIOUS
<1>2. InOrder(all)'
  BY <1>1 DEF InOrder
<1> QED
  BY <1>1, <1>2 DEF InOrder

LEMMA ChainType ==
    ASSUME IInv, Attached, NEW q \in Seq(Chunk)
    PROVE  /\ delivered \in Seq(Chunk) /\ output_rx \in Seq(Chunk)
           /\ InHand(bridge) \in Seq(Chunk) /\ InHand(service) \in Seq(Chunk)
           /\ Chain(q) \in Seq(Chunk) /\ Len(Chain(q)) \in Nat
<1>1. delivered \in Seq(Chunk) /\ output_rx \in Seq(Chunk)
  BY DEF IInv, TypeOK, BridgeInvariant, BridgeGone, Attached
<1>2. InHand(bridge) \in Seq(Chunk) /\ InHand(service) \in Seq(Chunk)
  BY DEF IInv, TypeOK, InHand
<1>3. InHand(service) \o output_rx \in Seq(Chunk)
  BY <1>1, <1>2, ConcatProperties
<1>4. q \o (InHand(service) \o output_rx) \in Seq(Chunk)
  BY <1>3, ConcatProperties
<1>5. InHand(bridge) \o (q \o (InHand(service) \o output_rx)) \in Seq(Chunk)
  BY <1>2, <1>4, ConcatProperties
<1>6. Chain(q) \in Seq(Chunk)
  BY <1>1, <1>5, ConcatProperties DEF Chain
<1> QED
  BY <1>1, <1>2, <1>6, LenProperties

LEMMA ReceiveOutputIInv == IInv /\ ReceiveOutput => IInv'
<1> SUFFICES ASSUME IInv, ReceiveOutput PROVE IInv'
  OBVIOUS
<1>1. /\ UNCHANGED <<child, wrote, pipes, stdin, to_bridge, to_service, bridge, inbox, delivered,
                     client>>
      /\ service.at = "select" /\ ~service.output_closed
  BY DEF ReceiveOutput, outside, stream, channel
<1>2. TypeOK /\ DOMAIN service = {"at", "message", "child_exit", "output_closed", "input"}
  BY DEF IInv, TypeOK
<1>3. BridgeInvariant' /\ PipeInv'
  <2>1. service'.output_closed = service.output_closed \/ service'.output_closed
    BY <1>2, Zenon DEF ReceiveOutput
  <2> QED
    BY <1>1, <2>1 DEF IInv, BridgeInvariant, BridgeGone, Closed, PipeInv
<1>4. CASE /\ output_rx # <<>>
           /\ service' = [service EXCEPT !.at = "send", !.message = Head(output_rx)]
           /\ output_rx' = Tail(output_rx)
  <2>1. /\ DOMAIN service' = DOMAIN service /\ service'.at = "send"
        /\ service'.message = Head(output_rx) /\ service'.child_exit = service.child_exit
        /\ service'.output_closed = service.output_closed
    BY <1>2, <1>4
  <2>2. Head(output_rx) \in Chunk /\ Tail(output_rx) \in Seq(Chunk) /\ output_rx \in Seq(Chunk)
    BY <1>2, <1>4, HeadTailProperties DEF TypeOK
  <2>3. TypeOK'
    BY <1>1, <1>2, <1>4, <2>1, <2>2 DEF TypeOK
  <2>4. ServiceInv'
    BY <1>1, <2>1 DEF IInv, ServiceInv, BridgeGone
  <2>5. ChainInv'
    <3> SUFFICES ASSUME Attached' PROVE \E q \in Seq(Chunk) : Carries(q)' /\ InOrder(Chain(q))'
      BY DEF ChainInv
    <3>1. PICK q \in Seq(Chunk) : Carries(q) /\ InOrder(Chain(q))
      BY <1>1 DEF IInv, ChainInv, Attached
    <3>2. Carries(q)'
      BY <1>1, <3>1 DEF Carries
    <3>3. InHand(service) = <<>> /\ InHand(service)' = <<Head(output_rx)>>
          /\ InHand(bridge)' = InHand(bridge)
      BY <1>1, <2>1 DEF InHand
    <3>4. <<Head(output_rx)>> \o Tail(output_rx) = <<>> \o output_rx
      BY <1>4, <2>2, MoveFirst
    <3>5. Chain(q)' = Chain(q)
      BY <1>1, <1>4, <3>3, <3>4, Zenon DEF Chain
    <3> QED
      BY <1>1, <3>1, <3>2, <3>5, ChainStays
  <2> QED
    BY <1>3, <2>3, <2>4, <2>5 DEF IInv
<1>5. CASE /\ OutputEnded
           /\ service' = [service EXCEPT !.output_closed = TRUE]
           /\ output_rx' = output_rx
  <2>1. /\ DOMAIN service' = DOMAIN service /\ service'.at = service.at
        /\ service'.message = service.message /\ service'.child_exit = service.child_exit
        /\ service'.output_closed = TRUE
    BY <1>2, <1>5
  <2>2. TypeOK'
    BY <1>1, <1>2, <1>5, <2>1 DEF TypeOK
  <2>3. output_rx = <<>> /\ \A s \in Streams : ~pipes[s].read /\ pipes[s].data = <<>>
    BY <1>1, <1>5 DEF OutputEnded, IInv, ServiceInv
  <2>4. ServiceInv'
    BY <1>1, <1>5, <2>1, <2>3 DEF IInv, ServiceInv, BridgeGone
  <2>5. ChainInv'
    <3> SUFFICES ASSUME Attached' PROVE \E q \in Seq(Chunk) : Carries(q)' /\ InOrder(Chain(q))'
      BY DEF ChainInv
    <3>1. PICK q \in Seq(Chunk) : Carries(q) /\ InOrder(Chain(q))
      BY <1>1 DEF IInv, ChainInv, Attached
    <3>2. Carries(q)'
      BY <1>1, <3>1 DEF Carries
    <3>3. InHand(service)' = InHand(service) /\ InHand(bridge)' = InHand(bridge)
      BY <1>1, <2>1 DEF InHand
    <3>4. Chain(q)' = Chain(q)
      BY <1>1, <1>5, <3>3, Zenon DEF Chain
    <3> QED
      BY <1>1, <3>1, <3>2, <3>4, ChainStays
  <2> QED
    BY <1>3, <2>2, <2>4, <2>5 DEF IInv
<1> QED
  BY <1>4, <1>5 DEF ReceiveOutput

LEMMA SendOutputIInv == IInv /\ SendOutput => IInv'
<1> SUFFICES ASSUME IInv, SendOutput PROVE IInv'
  OBVIOUS
<1>1. /\ UNCHANGED <<child, wrote, pipes, stdin, output_rx, to_service, bridge, inbox, delivered,
                     client>>
      /\ service.at = "send" /\ ~BridgeGone
      /\ to_bridge' = [to_bridge EXCEPT !.queue = Append(@, service.message)]
      /\ service' = [service EXCEPT !.at = "select", !.message = NoMessage]
  BY DEF SendOutput, SendMessage, outside, channel
<1>2. /\ TypeOK /\ service.message \in Chunk /\ to_bridge.open
      /\ DOMAIN service = {"at", "message", "child_exit", "output_closed", "input"}
      /\ DOMAIN to_bridge = {"queue", "open", "reset"}
  BY <1>1 DEF IInv, TypeOK, ServiceInv
<1>3. /\ DOMAIN service' = DOMAIN service /\ service'.at = "select"
      /\ service'.child_exit = service.child_exit
      /\ service'.output_closed = service.output_closed
  BY <1>1, <1>2
<1>4. /\ DOMAIN to_bridge' = DOMAIN to_bridge /\ to_bridge'.open = to_bridge.open
      /\ to_bridge'.queue = Append(to_bridge.queue, service.message)
  BY <1>1, <1>2, Zenon
<1>5. TypeOK'
  <2>1. to_bridge'.queue \in Seq(Chunk \cup {ExitStatus})
    BY <1>2, <1>4, AppendProperties DEF TypeOK
  <2> QED
    BY <1>1, <1>2, <1>3, <1>4, <2>1 DEF TypeOK
<1>6. ServiceInv'
  BY <1>1, <1>2, <1>3, <1>4 DEF IInv, ServiceInv, BridgeGone
<1>7. BridgeInvariant' /\ PipeInv'
  BY <1>1, <1>3 DEF IInv, BridgeInvariant, BridgeGone, Closed, PipeInv
<1>8. ChainInv'
  <2> SUFFICES ASSUME Attached' PROVE \E q \in Seq(Chunk) : Carries(q)' /\ InOrder(Chain(q))'
    BY DEF ChainInv
  <2>1. PICK q \in Seq(Chunk) : Carries(q) /\ InOrder(Chain(q))
    BY <1>1 DEF IInv, ChainInv, Attached
  <2>2. PICK m \in Chunk : m = service.message
    BY <1>2
  <2>3. Append(q, m) \in Seq(Chunk)
    BY AppendProperties
  <2>4. Carries(Append(q, m))'
    BY <1>1, <1>2, <1>4, <2>1, <2>2 DEF Carries
  <2>5. InHand(service) = <<m>> /\ InHand(service)' = <<>> /\ InHand(bridge)' = InHand(bridge)
    BY <1>1, <1>3, <2>2 DEF InHand
  <2>6. Append(q, m) \o (<<>> \o output_rx) = q \o (<<m>> \o output_rx)
    BY <1>2, MoveLast DEF TypeOK
  <2>7. Chain(Append(q, m))' = Chain(q)
    BY <1>1, <2>5, <2>6, Zenon DEF Chain
  <2>8. InOrder(Chain(Append(q, m)))'
    BY <1>1, <2>1, <2>7, ChainStays
  <2> QED
    BY <2>3, <2>4, <2>8, Zenon
<1> QED
  BY <1>5, <1>6, <1>7, <1>8 DEF IInv

LEMMA ReceiveExitIInv == IInv /\ ReceiveExit => IInv'
<1> SUFFICES ASSUME IInv, ReceiveExit PROVE IInv'
  OBVIOUS
<1>1. /\ UNCHANGED <<child, wrote, pipes, stdin, output_rx, to_bridge, to_service, bridge, inbox,
                     delivered, client>>
      /\ service.at = "select" /\ child = "reaped"
      /\ service' = [service EXCEPT !.child_exit = TRUE]
  BY DEF ReceiveExit, outside, stream, channel
<1>2. TypeOK /\ DOMAIN service = {"at", "message", "child_exit", "output_closed", "input"}
  BY DEF IInv, TypeOK
<1>3. /\ DOMAIN service' = DOMAIN service /\ service'.at = service.at
      /\ service'.message = service.message /\ service'.child_exit = TRUE
      /\ service'.output_closed = service.output_closed
  BY <1>1, <1>2
<1>4. TypeOK'
  BY <1>1, <1>2, <1>3 DEF TypeOK
<1>5. ServiceInv'
  BY <1>1, <1>3 DEF IInv, ServiceInv, BridgeGone
<1>6. BridgeInvariant' /\ PipeInv'
  BY <1>1, <1>3 DEF IInv, BridgeInvariant, BridgeGone, Closed, PipeInv
<1>7. ChainInv'
  <2> SUFFICES ASSUME Attached' PROVE \E q \in Seq(Chunk) : Carries(q)' /\ InOrder(Chain(q))'
    BY DEF ChainInv
  <2>1. PICK q \in Seq(Chunk) : Carries(q) /\ InOrder(Chain(q))
    BY <1>1 DEF IInv, ChainInv, Attached
  <2>2. Carries(q)'
    BY <1>1, <2>1 DEF Carries
  <2>3. InHand(service)' = InHand(service) /\ InHand(bridge)' = InHand(bridge)
    BY <1>1, <1>3 DEF InHand
  <2>4. Chain(q)' = Chain(q)
    BY <1>1, <2>3, Zenon DEF Chain
  <2> QED
    BY <1>1, <2>1, <2>2, <2>4, ChainStays
<1> QED
  BY <1>4, <1>5, <1>6, <1>7 DEF IInv

\* Without a listener the child is killed before the loop is left.
LEMMA SendFailsIInv == IInv /\ SendFails => IInv'
<1> SUFFICES ASSUME IInv, SendFails PROVE IInv'
  OBVIOUS
<1>1. /\ UNCHANGED <<output_rx, to_bridge, bridge, inbox, delivered, client>>
      /\ service.at = "send" /\ BridgeGone
      /\ service' = [service EXCEPT !.at = "finish", !.message = NoMessage]
  BY DEF SendFails, SendRefused, channel
<1>2. TypeOK /\ DOMAIN service = {"at", "message", "child_exit", "output_closed", "input"}
  BY DEF IInv, TypeOK
<1>3. /\ DOMAIN service' = DOMAIN service /\ service'.at = "finish"
      /\ service'.child_exit = service.child_exit
      /\ service'.output_closed = service.output_closed
  BY <1>1, <1>2
<1>4. PipesStay /\ ChildStays /\ wrote' = wrote /\ child' # "running"
  BY <1>2, KillStays DEF SendFails
<1>5. TypeOK'
  <2>1. \A s \in Streams : DOMAIN pipes'[s] = {"data", "held", "read"} /\ pipes'[s].data \in Seq(Nat)
    BY <1>2, <1>4 DEF TypeOK, PipesStay
  <2> QED
    BY <1>1, <1>2, <1>3, <1>4, <2>1 DEF TypeOK, PipesStay, ChildStays
<1>6. ServiceInv'
  <2>1. service'.output_closed =>
          output_rx' = <<>> /\ \A s \in Streams : ~pipes'[s].read /\ pipes'[s].data = <<>>
    BY <1>1, <1>3, <1>4 DEF IInv, ServiceInv, PipesStay
  <2>2. \A s \in Streams : ~pipes'[s].read => pipes'[s].data = <<>> /\ ~pipes'[s].held
    BY <1>1, <1>4 DEF IInv, ServiceInv, PipesStay
  <2>3. /\ service'.child_exit => child' = "reaped"
        /\ bridge'.at = "closed" /\ to_bridge'.open
    BY <1>1, <1>3, <1>4 DEF IInv, ServiceInv, BridgeGone, ChildStays
  <2> QED
    BY <1>3, <1>4, <2>1, <2>2, <2>3 DEF ServiceInv, BridgeGone
<1>7. BridgeInvariant'
  BY <1>1, <1>3 DEF IInv, BridgeInvariant, BridgeGone, Closed
<1>8. PipeInv'
  BY <1>4 DEF IInv, PipeInv, PipesStay
<1>9. ChainInv'
  BY <1>1 DEF ChainInv, Attached, BridgeGone
<1> QED
  BY <1>5, <1>6, <1>7, <1>8, <1>9 DEF IInv

\* The exit status follows all of the output.
LEMMA ShutdownIInv == IInv /\ ShutdownStream => IInv'
<1> SUFFICES ASSUME IInv, ShutdownStream PROVE IInv'
  OBVIOUS
<1>1. /\ UNCHANGED <<child, wrote, pipes, stdin, output_rx, to_service, bridge, inbox, delivered,
                     client>>
      /\ service' = [service EXCEPT !.at = "abort"]
  BY DEF ShutdownStream, SendStatusAndShutdown, outside, channel
<1>2. /\ TypeOK
      /\ DOMAIN service = {"at", "message", "child_exit", "output_closed", "input"}
      /\ DOMAIN to_bridge = {"queue", "open", "reset"}
  BY DEF IInv, TypeOK
<1>3. /\ DOMAIN service' = DOMAIN service /\ service'.at = "abort"
      /\ service'.child_exit = service.child_exit
      /\ service'.output_closed = service.output_closed
  BY <1>1, <1>2
<1>4. /\ service.at \in {"finish", "select"} /\ to_bridge.open /\ child # "running"
      /\ BridgeGone \/ (service.at = "select" /\ service.output_closed /\ service.child_exit)
  BY DEF ShutdownStream, LoopEnds, IInv, ServiceInv
<1>5. /\ DOMAIN to_bridge' = DOMAIN to_bridge /\ to_bridge'.open = FALSE
      /\ to_bridge'.queue \in {to_bridge.queue, Append(to_bridge.queue, ExitStatus)}
      /\ ~BridgeGone => to_bridge'.queue = Append(to_bridge.queue, ExitStatus)
  BY <1>2, <1>4, Zenon DEF ShutdownStream, SendStatusAndShutdown
<1>6. TypeOK'
  <2>1. to_bridge'.queue \in Seq(Chunk \cup {ExitStatus})
    <3>1. to_bridge.queue \in Seq(Chunk \cup {ExitStatus})
      BY <1>2 DEF TypeOK
    <3>2. Append(to_bridge.queue, ExitStatus) \in Seq(Chunk \cup {ExitStatus})
      BY <3>1, AppendProperties
    <3> QED
      BY <1>5, <3>1, <3>2
  <2> QED
    BY <1>1, <1>2, <1>3, <1>5, <2>1 DEF TypeOK
<1>7. ServiceInv'
  BY <1>1, <1>3, <1>4, <1>5 DEF IInv, ServiceInv, BridgeGone
<1>8. BridgeInvariant' /\ PipeInv'
  BY <1>1, <1>3 DEF IInv, BridgeInvariant, BridgeGone, Closed, PipeInv
<1>9. ChainInv'
  <2> SUFFICES ASSUME Attached' PROVE \E q \in Seq(Chunk) : Carries(q)' /\ InOrder(Chain(q))'
    BY DEF ChainInv
  <2>1. PICK q \in Seq(Chunk) : Carries(q) /\ InOrder(Chain(q))
    BY <1>1 DEF IInv, ChainInv, Attached
  <2>2. ~BridgeGone
    BY <1>1 DEF Attached, BridgeGone
  <2>3. Carries(q)'
    BY <1>1, <1>4, <1>5, <2>1, <2>2, Zenon DEF Carries
  <2>4. InHand(service)' = InHand(service) /\ InHand(bridge)' = InHand(bridge)
    BY <1>1, <1>3, <1>4 DEF InHand
  <2>5. Chain(q)' = Chain(q)
    BY <1>1, <2>4, Zenon DEF Chain
  <2> QED
    BY <1>1, <2>1, <2>3, <2>5, ChainStays
<1> QED
  BY <1>6, <1>7, <1>8, <1>9 DEF IInv

LEMMA DropStreamIInv == IInv /\ DropStream => IInv'
<1> SUFFICES ASSUME IInv, DropStream PROVE IInv'
  OBVIOUS
<1>1. /\ UNCHANGED <<child, wrote, pipes, stdin, to_service, bridge, inbox, delivered, client>>
      /\ service.at = "abort" /\ output_rx' = <<>>
      /\ service' = [service EXCEPT !.at = "done", !.input = FALSE]
      /\ to_bridge' = [to_bridge EXCEPT !.reset = to_service.queue # <<>>]
  BY DEF DropStream, AbortInputAndDrop, outside, channel
<1>2. /\ TypeOK
      /\ DOMAIN service = {"at", "message", "child_exit", "output_closed", "input"}
      /\ DOMAIN to_bridge = {"queue", "open", "reset"}
  BY DEF IInv, TypeOK
<1>3. /\ DOMAIN service' = DOMAIN service /\ service'.at = "done"
      /\ service'.child_exit = service.child_exit
      /\ service'.output_closed = service.output_closed
  BY <1>1, <1>2
<1>4. /\ DOMAIN to_bridge' = DOMAIN to_bridge /\ to_bridge'.open = to_bridge.open
      /\ to_bridge'.queue = to_bridge.queue /\ ~to_bridge.open
  BY <1>1, <1>2 DEF IInv, ServiceInv
<1>5. TypeOK'
  BY <1>1, <1>2, <1>3, <1>4 DEF TypeOK
<1>6. ServiceInv'
  BY <1>1, <1>3, <1>4 DEF IInv, ServiceInv, BridgeGone
<1>7. BridgeInvariant' /\ PipeInv'
  BY <1>1, <1>3 DEF IInv, BridgeInvariant, BridgeGone, Closed, PipeInv
<1>8. ChainInv'
  <2> SUFFICES ASSUME Attached' PROVE \E q \in Seq(Chunk) : Carries(q)' /\ InOrder(Chain(q))'
    BY DEF ChainInv
  <2>1. PICK q \in Seq(Chunk) : Carries(q) /\ InOrder(Chain(q))
    BY <1>1 DEF IInv, ChainInv, Attached
  <2>2. output_rx = <<>>
    BY <1>1, <1>4 DEF IInv, ServiceInv, Attached, BridgeGone
  <2>3. Carries(q)'
    BY <1>1, <1>4, <2>1 DEF Carries
  <2>4. InHand(service)' = InHand(service) /\ InHand(bridge)' = InHand(bridge)
    BY <1>1, <1>3 DEF InHand
  <2>5. Chain(q)' = Chain(q)
    BY <1>1, <2>2, <2>4 DEF Chain
  <2> QED
    BY <1>1, <2>1, <2>3, <2>5, ChainStays
<1> QED
  BY <1>5, <1>6, <1>7, <1>8 DEF IInv

-----------------------------------------------------------------------------
\* A chunk that is written is the next of its stream, at the end of its pipe.
LEMMA ChildWritesIInv ==
    ASSUME IInv, NEW s \in Streams, ChildWrites(s)
    PROVE  IInv'
<1>1. /\ UNCHANGED <<child, stdin, output_rx, service, to_bridge, to_service, bridge, inbox,
                     delivered, client>>
      /\ pipes[s].held /\ pipes[s].read
      /\ wrote' = [wrote EXCEPT ![s] = @ + 1]
      /\ pipes' = [pipes EXCEPT ![s].data = Append(@, wrote[s] + 1)]
  BY DEF ChildWrites, executor, stream, channel
<1>2. TypeOK /\ wrote \in [Streams -> Nat] /\ DOMAIN pipes = Streams
      /\ \A t \in Streams : DOMAIN pipes[t] = {"data", "held", "read"} /\ pipes[t].data \in Seq(Nat)
  BY DEF IInv, TypeOK
<1>4. /\ wrote' \in [Streams -> Nat] /\ wrote'[s] = wrote[s] + 1 /\ wrote[s] \in Nat
      /\ \A t \in Streams : t # s => wrote'[t] = wrote[t]
  BY <1>1, <1>2
<1>5. /\ DOMAIN pipes' = Streams /\ \A t \in Streams : t # s => pipes'[t] = pipes[t]
      /\ pipes'[s] = [pipes[s] EXCEPT !.data = Append(pipes[s].data, wrote[s] + 1)]
  BY <1>1, <1>2
<1>6. /\ DOMAIN pipes'[s] = {"data", "held", "read"}
      /\ pipes'[s].held = pipes[s].held /\ pipes'[s].read = pipes[s].read
      /\ pipes'[s].data = Append(pipes[s].data, wrote[s] + 1)
  BY <1>2, <1>5
<1>7. /\ pipes'[s].data \in Seq(Nat) /\ Pending(pipes'[s].data, wrote'[s])
      /\ Len(pipes'[s].data) = Len(pipes[s].data) + 1 /\ Len(pipes[s].data) \in Nat
  <2>1. Pending(pipes[s].data, wrote[s])
    BY DEF IInv, PipeInv
  <2> QED
    BY <1>2, <1>4, <1>6, <2>1, PendingAppend
<1>8. TypeOK'
  <2>1. \A t \in Streams : DOMAIN pipes'[t] = {"data", "held", "read"} /\ pipes'[t].data \in Seq(Nat)
    BY <1>2, <1>5, <1>6, <1>7, Zenon
  <2> QED
    BY <1>1, <1>2, <1>4, <1>5, <2>1 DEF TypeOK
<1>9. ServiceInv'
  <2>1. ~service.output_closed
    BY <1>1 DEF IInv, ServiceInv
  <2>2. service.at # "done" =>
          \A t \in Streams : ~pipes'[t].read => pipes'[t].data = <<>> /\ ~pipes'[t].held
    BY <1>1, <1>5, <1>6 DEF IInv, ServiceInv
  <2> QED
    BY <1>1, <2>1, <2>2 DEF IInv, ServiceInv, BridgeGone
<1>10. BridgeInvariant'
  BY <1>1 DEF IInv, BridgeInvariant, BridgeGone, Closed
<1>11. PipeInv'
  BY <1>4, <1>5, <1>7, Zenon DEF IInv, PipeInv
<1>12. ChainInv'
  <2> SUFFICES ASSUME Attached' PROVE \E q \in Seq(Chunk) : Carries(q)' /\ InOrder(Chain(q))'
    BY DEF ChainInv
  <2>1. PICK q \in Seq(Chunk) : Carries(q) /\ InOrder(Chain(q))
    BY <1>1 DEF IInv, ChainInv, Attached
  <2>2. Carries(q)' /\ Chain(q)' = Chain(q)
    BY <1>1, <2>1 DEF Carries, Chain, InHand
  <2>3. PICK all : all = Chain(q)
    OBVIOUS
  <2>4. ASSUME NEW t \in Streams
        PROVE  Count(all, t, Len(all)) + Len(pipes'[t].data) = wrote'[t]
    <3>1. Count(all, t, Len(all)) + Len(pipes[t].data) = wrote[t]
      BY <2>1, <2>3 DEF InOrder
    <3>2. CASE t # s
      BY <1>4, <1>5, <3>1, <3>2
    <3>3. CASE t = s
      <4>1. Len(all) \in Nat
        <5>1. Attached
          BY <1>1 DEF Attached
        <5> QED
          BY <2>3, <5>1, ChainType
      <4>2. Count(all, t, Len(all)) \in Nat
        BY <4>1, CountType, Zenon
      <4>3. PICK c \in Nat, k \in Nat, w \in Nat :
               /\ c = Count(all, s, Len(all)) /\ k = Len(pipes[s].data) /\ w = wrote[s]
        BY <1>4, <1>7, <3>3, <4>2
      <4>4. c + k = w /\ Len(pipes'[s].data) = k + 1 /\ wrote'[s] = w + 1
        BY <1>4, <1>7, <3>1, <3>3, <4>3
      <4>5. c + (k + 1) = w + 1
        BY <4>4
      <4> QED
        BY <3>3, <4>3, <4>4, <4>5
    <3> QED
      BY <3>2, <3>3
  <2>5. InOrder(Chain(q))'
    BY <2>1, <2>2, <2>3, <2>4 DEF InOrder
  <2> QED
    BY <2>2, <2>5
<1> QED
  BY <1>8, <1>9, <1>10, <1>11, <1>12 DEF IInv

\* A chunk that is read goes from the beginning of its pipe to the end of the chain.
ChunkRead(s) ==
    /\ pipes[s].read /\ pipes[s].data # <<>> /\ service.at # "done"
    /\ pipes' = [pipes EXCEPT ![s].data = Tail(@)]
    /\ output_rx' = Append(output_rx, Output(s, Head(pipes[s].data)))
    /\ UNCHANGED <<child, wrote, stdin, service, stream, bridge, channel>>

LEMMA ChunkReadIInv ==
    ASSUME IInv, NEW s \in Streams, ChunkRead(s)
    PROVE  IInv'
<1>1. /\ UNCHANGED <<child, wrote, stdin, service, to_bridge, to_service, bridge, inbox,
                     delivered, client>>
      /\ pipes[s].read /\ pipes[s].data # <<>> /\ service.at # "done"
      /\ output_rx' = Append(output_rx, Output(s, Head(pipes[s].data)))
  BY DEF ChunkRead, stream, channel
<1>2. TypeOK /\ wrote \in [Streams -> Nat] /\ DOMAIN pipes = Streams
      /\ \A t \in Streams : DOMAIN pipes[t] = {"data", "held", "read"} /\ pipes[t].data \in Seq(Nat)
  BY DEF IInv, TypeOK
<1>3. PICK data \in Seq(Nat) : data = pipes[s].data
  BY <1>2
<1>4. PICK w \in Nat : w = wrote[s]
  BY <1>2
<1>5. /\ Head(data) \in Nat /\ Tail(data) \in Seq(Nat) /\ Pending(Tail(data), w)
      /\ Len(Tail(data)) \in Nat /\ Len(data) = Len(Tail(data)) + 1
      /\ Head(data) + Len(Tail(data)) = w
  <2>1. Pending(data, w) /\ data # <<>>
    BY <1>1, <1>3, <1>4 DEF IInv, PipeInv
  <2> QED
    BY <2>1, PendingTail
<1>6. /\ DOMAIN pipes' = Streams /\ \A t \in Streams : t # s => pipes'[t] = pipes[t]
      /\ pipes'[s] = [pipes[s] EXCEPT !.data = Tail(data)]
  BY <1>2, <1>3 DEF ChunkRead
<1>7. /\ DOMAIN pipes'[s] = {"data", "held", "read"}
      /\ pipes'[s].held = pipes[s].held /\ pipes'[s].read = pipes[s].read
      /\ pipes'[s].data = Tail(data)
  BY <1>2, <1>6
<1>8. PICK m \in Chunk : m = Output(s, Head(data)) /\ m.kind = s /\ m.n = Head(data)
  BY <1>5, OutputChunk
<1>9. output_rx' = Append(output_rx, m) /\ output_rx' \in Seq(Chunk) /\ output_rx \in Seq(Chunk)
  BY <1>1, <1>2, <1>3, <1>8, AppendProperties DEF TypeOK
<1>10. TypeOK'
  <2>1. \A t \in Streams : DOMAIN pipes'[t] = {"data", "held", "read"} /\ pipes'[t].data \in Seq(Nat)
    BY <1>2, <1>5, <1>6, <1>7, Zenon
  <2> QED
    BY <1>1, <1>2, <1>6, <1>9, <2>1 DEF TypeOK
<1>11. ServiceInv'
  <2>1. ~service.output_closed
    BY <1>1 DEF IInv, ServiceInv
  <2>2. \A t \in Streams : ~pipes'[t].read => pipes'[t].data = <<>> /\ ~pipes'[t].held
    BY <1>1, <1>6, <1>7 DEF IInv, ServiceInv
  <2> QED
    BY <1>1, <2>1, <2>2 DEF IInv, ServiceInv, BridgeGone
<1>12. BridgeInvariant'
  BY <1>1 DEF IInv, BridgeInvariant, BridgeGone, Closed
<1>13. PipeInv'
  <2>1. \A t \in Streams : t # s => Pending(pipes'[t].data, wrote'[t])
    BY <1>1, <1>6 DEF IInv, PipeInv
  <2>2. Pending(pipes'[s].data, wrote'[s])
    BY <1>1, <1>4, <1>5, <1>7
  <2> QED
    BY <2>1, <2>2 DEF PipeInv
<1>14. PICK k \in Nat : k = Len(Tail(data))
  BY <1>5, Zenon
<1>15. ChainInv'
  <2> SUFFICES ASSUME Attached' PROVE \E q \in Seq(Chunk) : Carries(q)' /\ InOrder(Chain(q))'
    BY DEF ChainInv
  <2>1. Attached
    BY <1>1 DEF Attached
  <2>2. PICK q \in Seq(Chunk) : Carries(q) /\ InOrder(Chain(q))
    BY <2>1 DEF IInv, ChainInv
  <2>3. Carries(q)'
    BY <1>1, <2>2 DEF Carries
  <2>4. PICK all \in Seq(Chunk) : all = Chain(q) /\ Len(all) \in Nat
    BY <2>1, ChainType
  <2>5. Chain(q)' = Append(all, m)
    <3>1. PICK a \in Seq(Chunk) : a = InHand(bridge) /\ InHand(bridge)' = a
      BY <1>1, <2>1, ChainType, Zenon DEF InHand
    <3>2. PICK b \in Seq(Chunk) : b = InHand(service) /\ InHand(service)' = b
      BY <1>1, <2>1, ChainType, Zenon DEF InHand
    <3>3. PICK d \in Seq(Chunk), e \in Seq(Chunk) : d = delivered /\ e = output_rx
      BY <2>1, ChainType, Zenon
    <3>4. d \o (a \o (q \o (b \o Append(e, m)))) = Append(d \o (a \o (q \o (b \o e))), m)
      <4>1. \A x, y \in Seq(Chunk) :
               x \o y \in Seq(Chunk) /\ x \o Append(y, m) = Append(x \o y, m)
        BY AppendLasts, Zenon
      <4>2. PICK u \in Seq(Chunk) : u = b \o e
        BY <4>1, Zenon
      <4>3. PICK v \in Seq(Chunk) : v = q \o u
        BY <4>1, Zenon
      <4>4. PICK x \in Seq(Chunk) : x = a \o v
        BY <4>1, Zenon
      <4>5. /\ b \o Append(e, m) = Append(u, m) /\ q \o Append(u, m) = Append(v, m)
            /\ a \o Append(v, m) = Append(x, m) /\ d \o Append(x, m) = Append(d \o x, m)
        BY <4>1, <4>2, <4>3, <4>4, Zenon
      <4> QED
        BY <4>2, <4>3, <4>4, <4>5, Zenon
    <3>5. Chain(q)' = d \o (a \o (q \o (b \o Append(e, m))))
      BY <1>1, <1>9, <3>1, <3>2, <3>3, Zenon DEF Chain
    <3>6. all = d \o (a \o (q \o (b \o e)))
      BY <2>4, <3>1, <3>2, <3>3 DEF Chain
    <3> QED
      BY <3>4, <3>5, <3>6
  <2>6. ASSUME NEW t \in Streams
        PROVE  Count(all, t, Len(all)) + Len(pipes[t].data) = wrote[t]
               /\ Count(all, t, Len(all)) \in Nat
    BY <2>2, <2>4, CountType, Zenon DEF InOrder
  <2>7. m.n = Count(all, m.kind, Len(all)) + 1
    <3>1. PICK c \in Nat : c = Count(all, s, Len(all))
      BY <2>6
    <3>2. PICK h \in Nat : h = Head(data)
      BY <1>5
    <3>3. c + (k + 1) = w /\ h + k = w
      BY <1>3, <1>4, <1>5, <1>14, <2>6, <3>1, <3>2
    <3>4. h = c + 1
      BY <3>3
    <3> QED
      BY <1>8, <3>1, <3>2, <3>4
  <2>8. PICK new : new = Append(all, m)
    BY Zenon
  <2>9. /\ Numbered(new) /\ Len(new) = Len(all) + 1
        /\ \A t \in Streams : Count(new, t, Len(all) + 1)
              = Count(all, t, Len(all)) + (IF m.kind = t THEN 1 ELSE 0)
    BY <2>2, <2>4, <2>7, <2>8, NumberedAppend DEF InOrder
  <2>10. ASSUME NEW t \in Streams PROVE Count(new, t, Len(new)) + Len(pipes'[t].data) = wrote'[t]
    <3>1. PICK c \in Nat : c = Count(all, t, Len(all))
      BY <2>6
    <3>2. CASE t # s
      <4>1. Count(new, t, Len(new)) = c + 0
        BY <1>8, <2>9, <3>1, <3>2
      <4>2. c + 0 = c /\ pipes'[t] = pipes[t] /\ wrote' = wrote
        BY <1>1, <1>6, <3>2
      <4> QED
        BY <2>6, <3>1, <4>1, <4>2
    <3>3. CASE t = s
      <4>1. Count(new, t, Len(new)) = c + 1 /\ Len(pipes'[t].data) = k
        BY <1>7, <1>8, <1>14, <2>9, <3>1, <3>3, Zenon
      <4>2. c + (k + 1) = w /\ wrote'[t] = w
        BY <1>1, <1>3, <1>4, <1>5, <1>14, <2>6, <3>1, <3>3
      <4>3. (c + 1) + k = w
        BY <4>2
      <4> QED
        BY <4>1, <4>2, <4>3
    <3> QED
      BY <3>2, <3>3
  <2>11. InOrder(Chain(q))'
    BY <2>5, <2>8, <2>9, <2>10 DEF InOrder
  <2> QED
    BY <2>3, <2>11
<1> QED
  BY <1>10, <1>11, <1>12, <1>13, <1>15 DEF IInv

\* A reader ends with its pipe, which nothing can be written to any more.
LEMMA ReadProcessStreamIInv ==
    ASSUME IInv, NEW s \in Streams, ReadProcessStream(s)
    PROVE  IInv'
<1>1. CASE /\ pipes[s].data # <<>> /\ service.at # "done"
           /\ pipes' = [pipes EXCEPT ![s].data = Tail(@)]
           /\ output_rx' = Append(output_rx, Output(s, Head(pipes[s].data)))
  BY <1>1, ChunkReadIInv, Zenon DEF ReadProcessStream, ChunkRead
<1>2. CASE /\ \/ pipes[s].data # <<>> /\ service.at = "done"
              \/ pipes[s].data = <<>> /\ ~pipes[s].held
           /\ pipes' = [pipes EXCEPT ![s].read = FALSE]
           /\ UNCHANGED output_rx
  <2>1. /\ UNCHANGED <<child, wrote, stdin, service, to_bridge, to_service, bridge, inbox,
                       delivered, client, output_rx>>
        /\ pipes[s].read
    BY <1>2 DEF ReadProcessStream, stream, channel
  <2>2. TypeOK /\ DOMAIN pipes = Streams
        /\ \A t \in Streams : DOMAIN pipes[t] = {"data", "held", "read"}
    BY DEF IInv, TypeOK
  <2>3. /\ DOMAIN pipes' = Streams /\ \A t \in Streams : t # s => pipes'[t] = pipes[t]
        /\ pipes'[s] = [pipes[s] EXCEPT !.read = FALSE]
    BY <1>2, <2>2
  <2>4. /\ DOMAIN pipes'[s] = {"data", "held", "read"} /\ pipes'[s].read = FALSE
        /\ pipes'[s].held = pipes[s].held /\ pipes'[s].data = pipes[s].data
    BY <2>2, <2>3
  <2>5. \A t \in Streams : DOMAIN pipes'[t] = DOMAIN pipes[t] /\ pipes'[t].data = pipes[t].data
    BY <2>2, <2>3, <2>4
  <2>6. TypeOK'
    BY <2>1, <2>2, <2>3, <2>5 DEF TypeOK
  <2>7. ServiceInv'
    <3>1. ~service.output_closed
      BY <2>1 DEF IInv, ServiceInv
    <3>2. service.at # "done" =>
            \A t \in Streams : ~pipes'[t].read => pipes'[t].data = <<>> /\ ~pipes'[t].held
      BY <1>2, <2>3, <2>4 DEF IInv, ServiceInv
    <3> QED
      BY <2>1, <3>1, <3>2 DEF IInv, ServiceInv, BridgeGone
  <2>8. BridgeInvariant'
    BY <2>1 DEF IInv, BridgeInvariant, BridgeGone, Closed
  <2>9. PipeInv'
    BY <2>1, <2>5 DEF IInv, PipeInv
  <2>10. ChainInv'
    <3> SUFFICES ASSUME Attached' PROVE \E q \in Seq(Chunk) : Carries(q)' /\ InOrder(Chain(q))'
      BY DEF ChainInv
    <3>1. PICK q \in Seq(Chunk) : Carries(q) /\ InOrder(Chain(q))
      BY <2>1 DEF IInv, ChainInv, Attached
    <3>2. Carries(q)' /\ Chain(q)' = Chain(q)
      BY <2>1, <3>1 DEF Carries, Chain, InHand
    <3>3. PICK all : all = Chain(q)
      OBVIOUS
    <3>4. InOrder(all)'
      BY <2>1, <2>5, <3>1, <3>3 DEF InOrder
    <3>5. InOrder(Chain(q))'
      BY <3>2, <3>3, <3>4 DEF InOrder
    <3> QED
      BY <3>2, <3>5
  <2> QED
    BY <2>6, <2>7, <2>8, <2>9, <2>10 DEF IInv
<1> QED
  BY <1>1, <1>2 DEF ReadProcessStream

-----------------------------------------------------------------------------
\* The bridge takes the next message of the service stream: the exit status comes last.
LEMMA ReadMessageIInv ==
    ASSUME IInv, ReadMessage, UNCHANGED <<outside, output_rx>>
    PROVE  IInv'
<1>1. /\ UNCHANGED <<child, wrote, pipes, stdin, output_rx, service, to_service, inbox, delivered,
                     client>>
      /\ bridge.at = "read" /\ to_bridge.queue # <<>>
      /\ to_bridge' = [to_bridge EXCEPT !.queue = Tail(@)]
  BY DEF ReadMessage, outside, channel
<1>2. /\ TypeOK
      /\ DOMAIN bridge = {"at", "message", "exit_status", "input"}
      /\ DOMAIN to_bridge = {"queue", "open", "reset"}
  BY DEF IInv, TypeOK
<1>3. PICK m \in Chunk \cup {ExitStatus}, rest \in Seq(Chunk \cup {ExitStatus}) :
         m = Head(to_bridge.queue) /\ rest = Tail(to_bridge.queue)
  <2>1. to_bridge.queue \in Seq(Chunk \cup {ExitStatus})
    BY <1>2 DEF TypeOK
  <2>2. /\ Head(to_bridge.queue) \in Chunk \cup {ExitStatus}
        /\ Tail(to_bridge.queue) \in Seq(Chunk \cup {ExitStatus})
    BY <1>1, <2>1, HeadTailProperties
  <2> QED
    BY <2>2, Zenon
<1>4. /\ DOMAIN to_bridge' = DOMAIN to_bridge /\ to_bridge'.open = to_bridge.open
      /\ to_bridge'.queue = rest
  BY <1>1, <1>2, <1>3
<1>5. PipeInv'
  BY <1>1 DEF IInv, PipeInv
<1>6. \A c \in Chunk : c # ExitStatus
  BY EndsAreNoChunks
<1>7. CASE m = ExitStatus
  <2>1. /\ DOMAIN bridge' = DOMAIN bridge /\ bridge'.at = "read" /\ bridge'.exit_status = TRUE
        /\ bridge'.message = bridge.message
    BY <1>1, <1>2, <1>3, <1>7 DEF ReadMessage
  <2>2. TypeOK'
    BY <1>1, <1>2, <1>4, <2>1 DEF TypeOK
  <2>3. ServiceInv' /\ BridgeInvariant'
    BY <1>1, <1>4, <2>1 DEF IInv, ServiceInv, BridgeInvariant, BridgeGone, Closed
  <2>4. ChainInv'
    <3> SUFFICES ASSUME Attached' PROVE \E q \in Seq(Chunk) : Carries(q)' /\ InOrder(Chain(q))'
      BY DEF ChainInv
    <3>1. PICK q \in Seq(Chunk) : Carries(q) /\ InOrder(Chain(q))
      BY <1>1 DEF IInv, ChainInv, Attached
    <3>2. to_bridge.queue # q
      <4>1. SUFFICES ASSUME to_bridge.queue = q PROVE FALSE
        OBVIOUS
      <4>2. Head(q) \in Chunk
        BY <1>1, <4>1, HeadTailProperties
      <4> QED
        BY <1>3, <1>6, <1>7, <4>1, <4>2
    <3>3. to_bridge.queue = Append(q, ExitStatus) /\ ~to_bridge.open
      BY <3>1, <3>2 DEF Carries
    <3>4. q = <<>> /\ rest = <<>>
      <4>1. q # <<>> => Head(q) \in Chunk
        BY HeadTailProperties
      <4>2. /\ m = IF q = <<>> THEN ExitStatus ELSE Head(q)
            /\ rest = IF q = <<>> THEN <<>> ELSE Append(Tail(q), ExitStatus)
        BY <1>3, <3>3, HeadTailAppend
      <4> QED
        BY <1>6, <1>7, <4>1, <4>2
    <3>5. Carries(q)'
      BY <1>4, <2>1, <3>3, <3>4 DEF Carries
    <3>6. InHand(bridge)' = InHand(bridge) /\ InHand(service)' = InHand(service)
      BY <1>1, <2>1 DEF InHand
    <3>7. Chain(q)' = Chain(q)
      BY <1>1, <3>6 DEF Chain
    <3> QED
      BY <1>1, <3>1, <3>5, <3>7, ChainStays
  <2> QED
    BY <1>5, <2>2, <2>3, <2>4 DEF IInv
<1>8. CASE m \in Chunk
  <2>1. /\ DOMAIN bridge' = DOMAIN bridge /\ bridge'.at = "send" /\ bridge'.message = m
        /\ bridge'.exit_status = bridge.exit_status
    BY <1>1, <1>2, <1>3, <1>6, <1>8, Zenon DEF ReadMessage
  <2>2. TypeOK'
    BY <1>1, <1>2, <1>4, <1>8, <2>1 DEF TypeOK
  <2>3. ServiceInv' /\ BridgeInvariant'
    BY <1>1, <1>4, <2>1 DEF IInv, ServiceInv, BridgeInvariant, BridgeGone, Closed
  <2>4. ChainInv'
    <3> SUFFICES ASSUME Attached' PROVE \E q \in Seq(Chunk) : Carries(q)' /\ InOrder(Chain(q))'
      BY DEF ChainInv
    <3>1. Attached
      BY <1>1 DEF Attached
    <3>2. PICK q \in Seq(Chunk) : Carries(q) /\ InOrder(Chain(q))
      BY <3>1 DEF IInv, ChainInv
    <3>3. /\ Head(Append(q, ExitStatus)) = IF q = <<>> THEN ExitStatus ELSE Head(q)
          /\ Tail(Append(q, ExitStatus)) = IF q = <<>> THEN <<>> ELSE Append(Tail(q), ExitStatus)
      BY HeadTailAppend
    <3>4. q # <<>> /\ m = Head(q)
      BY <1>1, <1>3, <1>6, <1>8, <3>2, <3>3 DEF Carries
    <3>5. Tail(q) \in Seq(Chunk)
      BY <3>4, HeadTailProperties
    <3>6. Carries(Tail(q))'
      BY <1>3, <1>4, <2>1, <3>2, <3>3, <3>4, Zenon DEF Carries
    <3>7. InHand(bridge) = <<>> /\ InHand(bridge)' = <<m>> /\ InHand(service)' = InHand(service)
      BY <1>1, <2>1 DEF InHand
    <3>8. PICK t \in Seq(Chunk) : t = InHand(service) \o output_rx
      BY <3>1, ChainType, ConcatProperties, Zenon
    <3>9. <<m>> \o (Tail(q) \o t) = <<>> \o (q \o t)
      BY <3>4, MoveHead
    <3>10. Chain(Tail(q))' = Chain(q)
      BY <1>1, <3>7, <3>8, <3>9, Zenon DEF Chain
    <3>11. InOrder(Chain(Tail(q)))'
      BY <1>1, <3>2, <3>10, ChainStays
    <3> QED
      BY <3>5, <3>6, <3>11, Zenon
  <2> QED
    BY <1>5, <2>2, <2>3, <2>4 DEF IInv
<1> QED
  BY <1>7, <1>8

\* A chunk shown to a client that is there is the next of the chain.
LEMMA SendDataIInv ==
    ASSUME IInv, SendData, UNCHANGED <<outside, output_rx>>
    PROVE  IInv'
<1>1. /\ UNCHANGED <<child, wrote, pipes, stdin, output_rx, service, to_bridge, to_service, inbox>>
      /\ bridge.at = "send"
      /\ bridge' = [bridge EXCEPT !.at = "read", !.message = NoMessage]
  BY DEF SendData, outside, stream
<1>2. /\ TypeOK
      /\ DOMAIN bridge = {"at", "message", "exit_status", "input"}
      /\ DOMAIN client = {"session", "sent", "eof", "unread"}
  BY DEF IInv, TypeOK
<1>3. PICK m \in Chunk : m = bridge.message
  BY <1>1, <1>2 DEF TypeOK
<1>4. /\ DOMAIN bridge' = DOMAIN bridge /\ bridge'.at = "read"
      /\ bridge'.exit_status = bridge.exit_status
  BY <1>1, <1>2
<1>5. delivered \in Seq(Chunk)
  BY <1>1 DEF IInv, BridgeInvariant, BridgeGone
<1>6. /\ DOMAIN client' = DOMAIN client /\ client'.session = client.session
      /\ \/ client.session = "open" /\ delivered' = Append(delivered, m)
         \/ client.session = "closed" /\ delivered' = delivered
  BY <1>2, <1>3 DEF SendData
<1>7. delivered' \in Seq(Chunk)
  BY <1>5, <1>6, AppendProperties
<1>8. TypeOK'
  <2>1. delivered' \in Seq(Chunk \cup Ends)
    BY <1>7, SeqMonotonic
  <2> QED
    BY <1>1, <1>2, <1>4, <1>6, <2>1 DEF TypeOK
<1>9. ServiceInv' /\ PipeInv'
  BY <1>1, <1>4 DEF IInv, ServiceInv, BridgeGone, PipeInv
<1>10. BridgeInvariant'
  BY <1>4, <1>7 DEF BridgeInvariant, BridgeGone
<1>11. ChainInv'
  <2> SUFFICES ASSUME Attached' PROVE \E q \in Seq(Chunk) : Carries(q)' /\ InOrder(Chain(q))'
    BY DEF ChainInv
  <2>1. Attached /\ delivered' = Append(delivered, m)
    BY <1>1, <1>6 DEF Attached
  <2>2. PICK q \in Seq(Chunk) : Carries(q) /\ InOrder(Chain(q))
    BY <2>1 DEF IInv, ChainInv
  <2>3. Carries(q)'
    BY <1>1, <1>4, <2>2 DEF Carries
  <2>4. InHand(bridge) = <<m>> /\ InHand(bridge)' = <<>> /\ InHand(service)' = InHand(service)
    BY <1>1, <1>3, <1>4 DEF InHand
  <2>5. PICK u \in Seq(Chunk) : u = InHand(service) \o output_rx
    BY <2>1, ChainType, ConcatProperties, Zenon
  <2>6. PICK t \in Seq(Chunk) : t = q \o u
    BY ConcatProperties, Zenon
  <2>7. Append(delivered, m) \o (<<>> \o t) = delivered \o (<<m>> \o t)
    BY <1>5, MoveLast
  <2>8. Chain(q)' = Chain(q)
    BY <1>1, <2>1, <2>4, <2>5, <2>6, <2>7, Zenon DEF Chain
  <2> QED
    BY <1>1, <2>2, <2>3, <2>8, ChainStays
<1> QED
  BY <1>8, <1>9, <1>10, <1>11 DEF IInv

\* While only chunks were sent, the channel is not closed.
LEMMA StillOpen == delivered \in Seq(Chunk) => ~Closed
<1> SUFFICES ASSUME delivered \in Seq(Chunk), delivered # <<>>
             PROVE  delivered[Len(delivered)] # Close
  BY DEF Closed
<1>1. Len(delivered) \in 1 .. Len(delivered)
  BY LenProperties, EmptySeq
<1>2. delivered[Len(delivered)] \in Chunk
  BY <1>1, ElementOfSeq
<1> QED
  BY <1>2, EndsAreNoChunks

\* The bridge closes the channel of a client that is there only after the end of the stream.
LEMMA CloseChannelIInv ==
    ASSUME IInv, CloseChannel, UNCHANGED <<outside, output_rx>>
    PROVE  IInv'
<1>1. /\ UNCHANGED <<child, wrote, pipes, stdin, output_rx, service, to_bridge, inbox, client>>
      /\ bridge.at \in {"read", "send"}
      /\ bridge' = [bridge EXCEPT !.at = "closed", !.input = FALSE, !.message = NoMessage]
  BY DEF CloseChannel, StreamEnded, outside
<1>2. TypeOK /\ DOMAIN bridge = {"at", "message", "exit_status", "input"}
  BY DEF IInv, TypeOK
<1>3. DOMAIN bridge' = DOMAIN bridge /\ bridge'.at = "closed"
  BY <1>1, <1>2
<1>4. delivered \in Seq(Chunk)
  BY <1>1 DEF IInv, BridgeInvariant, BridgeGone
<1>5. PICK e \in {<<>>, <<ExitStatus>>} :
         client.session = "open" => delivered' = delivered \o e \o <<Eof, Close>>
  BY Zenon DEF CloseChannel
<1>6. CASE client.session = "open"
  <2>1. delivered' \in Seq(Chunk \cup Ends) /\ Closed'
    <3>1. PICK d \in Seq(Chunk) : d = delivered
      BY <1>4
    <3>2. /\ d \o e \o <<Eof, Close>> \in Seq(Chunk \cup Ends)
          /\ d \o e \o <<Eof, Close>> # <<>>
          /\ LET r == d \o e \o <<Eof, Close>> IN r[Len(r)] = Close
      BY LastIsClose, Zenon
    <3> QED
      BY <1>5, <1>6, <3>1, <3>2, Zenon DEF Closed
  <2>2. service.output_closed
    <3>1. ~to_bridge.open /\ bridge.at # "closed"
      BY <1>1, <1>6 DEF CloseChannel, StreamEnded
    <3> QED
      BY <3>1 DEF IInv, ServiceInv, BridgeGone
  <2> QED
    BY <1>1, <1>2, <1>3, <2>1, <2>2
       DEF IInv, TypeOK, ServiceInv, BridgeInvariant, BridgeGone, PipeInv, ChainInv, Attached
<1>7. CASE client.session # "open"
  <2>1. delivered' = delivered
    BY <1>7 DEF CloseChannel
  <2>2. ~Closed'
    BY <1>4, <2>1, StillOpen DEF Closed
  <2> QED
    BY <1>1, <1>2, <1>3, <1>7, <2>1, <2>2
       DEF IInv, TypeOK, ServiceInv, BridgeInvariant, BridgeGone, PipeInv, ChainInv, Attached
<1> QED
  BY <1>6, <1>7

LEMMA ReadFailsIInv ==
    ASSUME IInv, ReadFails, UNCHANGED <<outside, output_rx>>
    PROVE  IInv'
<1>1. /\ UNCHANGED <<child, wrote, pipes, stdin, output_rx, service, to_bridge, to_service, inbox,
                     delivered, client>>
      /\ bridge.at = "read" /\ bridge' = [bridge EXCEPT !.at = "failed"]
  BY DEF ReadFails, StreamEnded, outside, stream, channel
<1>2. TypeOK /\ DOMAIN bridge = {"at", "message", "exit_status", "input"}
  BY DEF IInv, TypeOK
<1>3. DOMAIN bridge' = DOMAIN bridge /\ bridge'.at = "failed"
  BY <1>1, <1>2
<1>4. TypeOK'
  BY <1>1, <1>2, <1>3 DEF TypeOK
<1> QED
  BY <1>1, <1>3, <1>4
     DEF IInv, ServiceInv, BridgeInvariant, BridgeGone, PipeInv, ChainInv, Attached

-----------------------------------------------------------------------------
LEMMA InputIsASideStep == ASSUME IInv, InputTask PROVE SideStep
<1>1. /\ TypeOK
      /\ DOMAIN service = {"at", "message", "child_exit", "output_closed", "input"}
  BY DEF IInv, TypeOK
<1>2. UNCHANGED <<output_rx, to_bridge, bridge, delivered, client>>
  BY DEF InputTask, HandleInput, InputEnds, stream, channel
<1>3. service' \in {service, EndInput}
  BY DEF InputTask, HandleInput, InputEnds
<1>4. SameService
  BY <1>1, <1>3 DEF SameService, EndInput
<1>5. SameStream /\ SameBridge /\ ClientStays
  BY <1>1, <1>2 DEF SameStream, SameBridge, ClientStays, TypeOK
<1>6. Kill \/ UNCHANGED <<child, wrote, pipes>>
  BY DEF InputTask, HandleInput, InputEnds, outside
<1>7. PipesStay /\ ChildStays /\ wrote' = wrote
  <2>1. CASE Kill
    BY <1>1, <2>1, KillStays
  <2>2. CASE UNCHANGED <<child, wrote, pipes>>
    BY <1>1, <2>2 DEF TypeOK, PipesStay, ChildStays
  <2> QED
    BY <1>6, <2>1, <2>2
<1> QED
  BY <1>2, <1>4, <1>5, <1>7 DEF SideStep

\* What the child does apart from its output, and the collecting of its exit code.
ChildStep == Wait \/ ChildReads \/ ChildClosesStdin \/ ChildExits \/ \E s \in Streams : PipeReleased(s)

LEMMA ChildStepIsASideStep == ASSUME IInv, ChildStep PROVE SideStep
<1>1. /\ TypeOK /\ DOMAIN pipes = Streams
      /\ \A s \in Streams : DOMAIN pipes[s] = {"data", "held", "read"}
  BY DEF IInv, TypeOK
<1>2. UNCHANGED <<output_rx, service, to_bridge, bridge, delivered, client>>
  BY DEF ChildStep, Wait, ChildReads, ChildClosesStdin, ChildExits, PipeReleased,
         executor, stream, channel
<1>3. SameService /\ SameStream /\ SameBridge /\ ClientStays
  BY <1>1, <1>2 DEF SameService, SameStream, SameBridge, ClientStays, TypeOK
<1>4. PipesStay /\ ChildStays /\ wrote' = wrote
  <2>1. CASE Wait
    BY <1>1, <2>1 DEF Wait, PipesStay, ChildStays
  <2>2. CASE ChildReads \/ ChildClosesStdin
    BY <1>1, <2>2 DEF ChildReads, ChildClosesStdin, PipesStay, ChildStays, TypeOK
  <2>3. CASE ChildExits
    BY <1>1, <2>3, ChildEndsStays DEF ChildExits
  <2>4. ASSUME NEW s \in Streams, PipeReleased(s) PROVE PipesStay /\ ChildStays /\ wrote' = wrote
    <3>1. UNCHANGED <<child, wrote>> /\ pipes' = [pipes EXCEPT ![s].held = FALSE]
      BY <2>4 DEF PipeReleased
    <3>2. /\ DOMAIN pipes' = Streams /\ \A t \in Streams : t # s => pipes'[t] = pipes[t]
          /\ pipes'[s] = [pipes[s] EXCEPT !.held = FALSE]
      BY <1>1, <3>1
    <3>3. /\ DOMAIN pipes'[s] = DOMAIN pipes[s] /\ pipes'[s].held = FALSE
          /\ pipes'[s].data = pipes[s].data /\ pipes'[s].read = pipes[s].read
      BY <1>1, <3>2
    <3>4. PipesStay
      BY <3>2, <3>3, Zenon DEF PipesStay
    <3> QED
      BY <1>1, <3>1, <3>4 DEF ChildStays, TypeOK
  <2> QED
    BY <2>1, <2>2, <2>3, <2>4 DEF ChildStep
<1> QED
  BY <1>2, <1>3, <1>4 DEF SideStep

\* What the client does, and the forwarding of its input.
ClientStep == (ForwardTask \/ Client) /\ UNCHANGED <<outside, output_rx>>

LEMMA ClientStepIsASideStep == ASSUME IInv, ClientStep PROVE SideStep
<1>1. /\ TypeOK
      /\ DOMAIN to_bridge = {"queue", "open", "reset"}
      /\ DOMAIN bridge = {"at", "message", "exit_status", "input"}
      /\ DOMAIN client = {"session", "sent", "eof", "unread"}
      /\ client.session \in {"open", "closed", "dropped"}
  BY DEF IInv, TypeOK
<1>2. UNCHANGED <<child, wrote, pipes, output_rx>>
  BY DEF ClientStep, outside
<1>3. PipesStay /\ ChildStays
  BY <1>1, <1>2 DEF TypeOK, PipesStay, ChildStays
<1>4. CASE ForwardTask
  <2>1. UNCHANGED <<service, delivered, client>>
    BY <1>4 DEF ForwardTask, ForwardInput, ForwardEnds, channel
  <2>2. SameService /\ ClientStays
    BY <1>1, <2>1 DEF SameService, ClientStays
  <2>3. SameStream
    BY <1>1, <1>4 DEF ForwardTask, ForwardInput, ForwardEnds, SameStream
  <2>4. \E input : bridge' = [bridge EXCEPT !.input = input]
    BY <1>4, Zenon DEF ForwardTask, ForwardInput, ForwardEnds
  <2>5. SameBridge
    BY <1>1, <2>4 DEF SameBridge
  <2> QED
    BY <1>2, <1>3, <2>1, <2>2, <2>3, <2>5 DEF SideStep
<1>5. CASE Client
  <2>1. UNCHANGED <<service, to_bridge, bridge, delivered>>
    BY <1>5, Zenon DEF Client, ClientSends, ClientCloses, ClientDrops, ClientReads, stream
  <2>2. SameService /\ SameStream /\ SameBridge
    BY <2>1 DEF SameService, SameStream, SameBridge
  <2>3. ClientStays
    <3>1. ASSUME NEW message \in Inputs, ClientSends(message) PROVE ClientStays
      BY <1>1, <3>1 DEF ClientSends, ClientStays
    <3>2. CASE ClientCloses
      BY <1>1, <3>2 DEF ClientCloses, ClientStays
    <3>3. CASE ClientDrops
      BY <1>1, <3>3 DEF ClientDrops, ClientStays
    <3>4. CASE ClientReads
      BY <1>1, <3>4 DEF ClientReads, ClientStays
    <3> QED
      BY <1>5, <3>1, <3>2, <3>3, <3>4 DEF Client
  <2> QED
    BY <1>2, <1>3, <2>1, <2>2, <2>3 DEF SideStep
<1> QED
  BY <1>4, <1>5 DEF ClientStep

\* The steps that are left, one task at a time.
LEMMA NextIInv == IInv /\ [Next]_vars => IInv'
<1> SUFFICES ASSUME IInv, [Next]_vars PROVE IInv'
  OBVIOUS
<1>1. CASE ServiceTask
  BY <1>1, ReceiveOutputIInv, ReceiveExitIInv, SendOutputIInv, SendFailsIInv, ShutdownIInv,
     DropStreamIInv DEF ServiceTask
<1>2. CASE InputTask
  BY <1>2, InputIsASideStep, SideStepIInv
<1>3. CASE Bridge
  BY <1>3, ReadMessageIInv, SendDataIInv, CloseChannelIInv, ReadFailsIInv DEF Bridge, BridgeTask
<1>4. CASE ChildStep
  BY <1>4, ChildStepIsASideStep, SideStepIInv
<1>5. CASE ClientStep
  BY <1>5, ClientStepIsASideStep, SideStepIInv
<1>6. ASSUME NEW s \in Streams, ReadProcessStream(s) PROVE IInv'
  BY <1>6, ReadProcessStreamIInv
<1>7. ASSUME NEW s \in Streams, ChildWrites(s) PROVE IInv'
  BY <1>7, ChildWritesIInv
<1>8. CASE UNCHANGED vars
  <2>1. SideStep
    <3>1. UNCHANGED <<child, wrote, pipes, output_rx, service, to_bridge, bridge, delivered, client>>
      BY <1>8 DEF vars, outside, bridge_vars, stream, channel
    <3> QED
      BY <3>1 DEF IInv, TypeOK, SideStep, SameService, SameStream, SameBridge, ClientStays,
                  PipesStay, ChildStays
  <2> QED
    BY <2>1, SideStepIInv
<1> QED
  BY <1>1, <1>2, <1>3, <1>4, <1>5, <1>6, <1>7, <1>8 DEF Next, Forward, ChildStep, ClientStep

(* The inductive invariant of a request without a terminal, whatever the      *)
(* sizes of its pipes, of the service stream and of the client's window.      *)
THEOREM Invariance == Spec => []IInv
BY InitIInv, NextIInv, PTL DEF Spec

(* start_piped_process_service never returns with its child running: it saw   *)
(* the exit, or it killed the child when the listener no longer took output.  *)
THEOREM ChildIsDead == Spec => []NoChildLeftBehind
<1>1. IInv => NoChildLeftBehind
  BY DEF IInv, ServiceInv, NoChildLeftBehind
<1> QED
  BY <1>1, Invariance, PTL

-----------------------------------------------------------------------------
\* Steps the client does not see.
Unseen ==
    /\ UNCHANGED <<wrote, delivered>>
    /\ child' = "reaped" <=> child = "reaped"
    /\ client'.session = client.session
    /\ bridge'.at = "closed" <=> bridge.at = "closed"
    /\ bridge'.at = "failed" <=> bridge.at = "failed"

LEMMA UnseenStutters == Unseen => UNCHANGED Session!session_vars
<1> SUFFICES ASSUME Unseen PROVE UNCHANGED Session!session_vars
  OBVIOUS
<1>1. wrote' = wrote /\ delivered' = delivered /\ (child' # "reaped") = (child # "reaped")
  BY DEF Unseen
<1>2. SessionState' = SessionState
  BY DEF Unseen, SessionState
<1> QED
  BY <1>1, <1>2 DEF Session!session_vars

\* A step beside the output ends the session at most for a client that leaves.
LEMMA SideStepRefines ==
    ASSUME SideStep, child' = "reaped" => child = "reaped"
    PROVE  Session!Cut \/ UNCHANGED Session!session_vars
<1>1. /\ UNCHANGED <<wrote, delivered>> /\ bridge'.at = bridge.at
      /\ client'.session = "open" => client.session = "open"
      /\ child' = "reaped" <=> child = "reaped"
  BY DEF SideStep, SameBridge, ClientStays, ChildStays
<1>2. (child' # "reaped") = (child # "reaped")
  BY <1>1
<1>3. SessionState' = SessionState \/ (SessionState = "live" /\ SessionState' = "cut")
  BY <1>1 DEF SessionState
<1> QED
  BY <1>1, <1>2, <1>3 DEF Session!Cut, Session!session_vars

\* The chunks the client has been shown, counted as ProcessSession counts them.
LEMMA ShownIsCount ==
    ASSUME NEW s, delivered \in Seq(Chunk)
    PROVE  Session!Shown(s) = Count(delivered, s, Len(delivered))
<1>1. DOMAIN delivered = 1 .. Len(delivered)
  BY LenProperties
<1>2. PICK I : I = {i \in DOMAIN delivered : delivered[i].kind = s}
  BY Zenon
<1>3. I = {j \in 1 .. Len(delivered) : delivered[j].kind = s}
  BY <1>1, <1>2
<1>4. Session!Shown(s) = Cardinality(I)
  BY <1>2 DEF Session!Shown, Session!Cardinality, Cardinality
<1>5. Count(delivered, s, Len(delivered)) = Cardinality(I)
  BY <1>3 DEF Count
<1> QED
  BY <1>4, <1>5

\* What is shown next is the next chunk of its stream, and it was written.
LEMMA SendDataRefines ==
    ASSUME IInv, SendData, UNCHANGED <<outside, output_rx>>
    PROVE  (\E s \in Streams : Session!Show(s)) \/ UNCHANGED Session!session_vars
<1>1. /\ UNCHANGED <<child, wrote>> /\ bridge.at = "send"
      /\ bridge' = [bridge EXCEPT !.at = "read", !.message = NoMessage]
  BY DEF SendData, outside
<1>2. /\ TypeOK
      /\ DOMAIN bridge = {"at", "message", "exit_status", "input"}
      /\ DOMAIN client = {"session", "sent", "eof", "unread"}
  BY DEF IInv, TypeOK
<1>3. bridge'.at = "read" /\ client'.session = client.session
  BY <1>1, <1>2 DEF SendData
<1>4. CASE client.session = "closed" /\ delivered' = delivered
  <2>1. Unseen
    BY <1>1, <1>3, <1>4 DEF Unseen
  <2> QED
    BY <2>1, UnseenStutters
<1>5. CASE client.session = "open" /\ delivered' = Append(delivered, bridge.message)
  <2>1. PICK m \in Chunk : m = bridge.message
    BY <1>1, <1>2 DEF TypeOK
  <2>2. Attached
    BY <1>1, <1>5 DEF Attached
  <2>3. PICK q \in Seq(Chunk) : InOrder(Chain(q))
    BY <2>2 DEF IInv, ChainInv
  <2>4. PICK d \in Seq(Chunk) : d = delivered
    BY <2>2, ChainType
  <2>5. PICK u \in Seq(Chunk) : u = InHand(service) \o output_rx
    BY <2>2, ChainType, ConcatProperties, Zenon
  <2>6. PICK t \in Seq(Chunk) : t = q \o u
    BY ConcatProperties, Zenon
  <2>7. PICK all : all = d \o (<<m>> \o t)
    BY Zenon
  <2>8. Chain(q) = all
    <3>1. InHand(bridge) = <<m>>
      BY <1>1, <2>1 DEF InHand
    <3> QED
      BY <2>4, <2>5, <2>6, <2>7, <3>1 DEF Chain
  <2>9. PICK s \in Streams : s = m.kind
    BY DEF Chunk
  <2>10. m.n = Count(d, s, Len(d)) + 1 /\ Count(all, s, Len(all)) > Count(d, s, Len(d))
    BY <2>3, <2>7, <2>8, <2>9, NumberedNext DEF InOrder
  <2>11. Count(all, s, Len(all)) + Len(pipes[s].data) = wrote[s]
    BY <2>3, <2>8 DEF InOrder
  <2>12. Session!Shown(s) = Count(d, s, Len(d))
    BY <2>4, ShownIsCount
  <2>13. Session!Shown(s) < wrote[s]
    <3>1. Len(pipes[s].data) \in Nat
      BY <1>2, LenProperties DEF TypeOK
    <3>2. Count(d, s, Len(d)) \in Nat /\ Len(all) \in Nat
      <4>1. Len(d) \in Nat
        BY LenProperties
      <4>2. all \in Seq(Chunk)
        BY <2>2, <2>8, ChainType
      <4> QED
        BY <4>1, <4>2, CountType, LenProperties, Zenon
    <3>3. Count(all, s, Len(all)) \in Nat
      BY <3>2, CountType, Zenon
    <3>4. PICK x \in Nat, y \in Nat, k \in Nat :
             /\ x = Count(d, s, Len(d)) /\ y = Count(all, s, Len(all)) /\ k = Len(pipes[s].data)
      BY <3>1, <3>2, <3>3
    <3>5. y > x => x < y + k
      OBVIOUS
    <3> QED
      BY <2>10, <2>11, <2>12, <3>4, <3>5
  <2>14. delivered' = Append(delivered, Session!Message(s, Session!Shown(s) + 1))
    <3>1. m = [kind |-> m.kind, n |-> m.n]
      BY DEF Chunk
    <3> QED
      BY <1>5, <2>1, <2>9, <2>10, <2>12, <3>1 DEF Session!Message
  <2>15. SessionState = "live" /\ SessionState' = "live"
    BY <1>1, <1>3, <1>5 DEF SessionState
  <2>16. Session!Show(s)
    BY <1>1, <2>13, <2>14, <2>15 DEF Session!Show
  <2> QED
    BY <2>16
<1> QED
  BY <1>4, <1>5 DEF SendData

\* At the end of the stream of a child that is dead, all of the output has been shown.
LEMMA CloseChannelRefines ==
    ASSUME IInv, CloseChannel, UNCHANGED <<outside, output_rx>>
    PROVE  Session!Complete \/ UNCHANGED Session!session_vars
<1>1. /\ UNCHANGED <<child, wrote, client>> /\ bridge.at \in {"read", "send"}
      /\ bridge' = [bridge EXCEPT !.at = "closed", !.input = FALSE, !.message = NoMessage]
  BY DEF CloseChannel, StreamEnded, outside
<1>2. TypeOK /\ DOMAIN bridge = {"at", "message", "exit_status", "input"}
  BY DEF IInv, TypeOK
<1>3. bridge'.at = "closed"
  BY <1>1, <1>2
<1>4. delivered \in Seq(Chunk)
  BY <1>1 DEF IInv, BridgeInvariant, BridgeGone
<1>5. CASE client.session # "open"
  <2>1. delivered' = delivered
    BY <1>5 DEF CloseChannel
  <2>2. ~Closed
    BY <1>4, StillOpen
  <2>3. SessionState = "cut" /\ SessionState' = "cut"
    BY <1>1, <1>5, <2>1, <2>2 DEF SessionState, Closed
  <2>4. (child' # "reaped") = (child # "reaped")
    BY <1>1
  <2> QED
    BY <1>1, <2>1, <2>3, <2>4 DEF Session!session_vars
<1>6. CASE client.session = "open"
  <2>1. bridge.at = "read" /\ to_bridge.queue = <<>> /\ ~to_bridge.open
    BY <1>6 DEF CloseChannel, StreamEnded
  <2>2. /\ service.output_closed /\ child = "reaped" /\ output_rx = <<>>
        /\ service.at \in {"abort", "done"} /\ \A s \in Streams : pipes[s].data = <<>>
    BY <2>1 DEF IInv, ServiceInv, BridgeGone
  <2>3. Attached
    BY <1>6, <2>1 DEF Attached
  <2>4. PICK q \in Seq(Chunk) : Carries(q) /\ InOrder(Chain(q))
    BY <2>3 DEF IInv, ChainInv
  <2>5. bridge.exit_status /\ q = <<>>
    <3>1. Append(q, ExitStatus) # <<>>
      <4>1. q \in Seq(Chunk \cup {ExitStatus})
        BY SeqMonotonic
      <4> QED
        BY <4>1, AppendProperties
    <3> QED
      BY <2>1, <2>4, <3>1, Zenon DEF Carries
  <2>6. Chain(q) = delivered
    <3>1. InHand(bridge) = <<>> /\ InHand(service) = <<>>
      BY <2>1, <2>2 DEF InHand
    <3>2. <<>> \o <<>> = <<>> /\ delivered \o <<>> = delivered
      BY <1>4, ConcatEmptySeq
    <3> QED
      BY <2>2, <2>5, <3>1, <3>2 DEF Chain
  <2>7. ASSUME NEW s \in Streams PROVE Session!Shown(s) = wrote[s]
    <3>1. Count(delivered, s, Len(delivered)) + Len(pipes[s].data) = wrote[s]
      BY <2>4, <2>6 DEF InOrder
    <3>2. Len(pipes[s].data) = 0
      BY <2>2
    <3>3. Count(delivered, s, Len(delivered)) \in Nat
      <4>1. Len(delivered) \in Nat
        BY <1>4, LenProperties
      <4> QED
        BY <4>1, CountType, Zenon
    <3>4. Session!Shown(s) = Count(delivered, s, Len(delivered))
      BY <1>4, ShownIsCount
    <3> QED
      BY <3>1, <3>2, <3>3, <3>4
  <2>8. delivered' = delivered \o <<ExitStatus>> \o <<Eof, Close>>
    BY <1>6, <2>5 DEF CloseChannel
  <2>9. delivered' = delivered \o Session!Ending
    <3> DEFINE S == Chunk \cup Ends
    <3>1. PICK d \in Seq(S) : d = delivered
      BY <1>4, SeqMonotonic
    <3>2. PICK x \in S, y \in S, z \in S : x = ExitStatus /\ y = Eof /\ z = Close
      BY DEF Ends
    <3> HIDE DEF S
    <3>3. <<x>> \in Seq(S) /\ <<y, z>> \in Seq(S)
      OBVIOUS
    <3>4. (d \o <<x>>) \o <<y, z>> = d \o (<<x>> \o <<y, z>>)
      BY <3>3, ConcatAssociative
    <3>5. Session!Ending = <<x, y, z>>
      BY <3>2 DEF Session!Ending, Session!Message, ExitStatus, Eof, Close
    <3>6. <<x>> \o <<y, z>> = <<x, y, z>>
      BY OneThenTwo
    <3> QED
      BY <2>8, <3>1, <3>2, <3>4, <3>5, <3>6
  <2>10. Closed'
    <3>1. PICK d \in Seq(Chunk) : d = delivered
      BY <1>4
    <3>2. PICK e \in {<<>>, <<ExitStatus>>} : e = <<ExitStatus>>
      OBVIOUS
    <3>3. /\ d \o e \o <<Eof, Close>> # <<>>
          /\ LET r == d \o e \o <<Eof, Close>> IN r[Len(r)] = Close
      BY LastIsClose
    <3> QED
      BY <2>8, <3>1, <3>2, <3>3 DEF Closed
  <2>11. SessionState = "live" /\ SessionState' = "complete"
    BY <1>3, <1>6, <2>1, <2>10 DEF SessionState, Closed
  <2>12. (child # "reaped") = FALSE /\ (child' # "reaped") = FALSE
    BY <1>1, <2>2
  <2>13. Session!Complete
    BY <1>1, <2>7, <2>9, <2>11, <2>12 DEF Session!Complete
  <2> QED
    BY <2>13
<1> QED
  BY <1>5, <1>6

\* The executor's service task and the readers are out of the client's sight.
LEMMA ServiceTaskRefines ==
    ASSUME IInv, ServiceTask
    PROVE  UNCHANGED Session!session_vars
<1>1. UNCHANGED <<bridge, delivered, client>>
  BY DEF ServiceTask, ReceiveOutput, ReceiveExit, SendOutput, SendMessage, SendFails, SendRefused,
         ShutdownStream, SendStatusAndShutdown, DropStream, AbortInputAndDrop, channel
<1>2. wrote' = wrote /\ (child' = "reaped" <=> child = "reaped")
  <2>1. CASE SendFails
    BY <2>1 DEF SendFails, Kill, ChildEnds, outside
  <2>2. CASE ReceiveOutput \/ ReceiveExit \/ SendOutput \/ ShutdownStream \/ DropStream
    BY <2>2 DEF ReceiveOutput, ReceiveExit, SendOutput, ShutdownStream, DropStream, outside
  <2> QED
    BY <2>1, <2>2 DEF ServiceTask
<1>3. Unseen
  BY <1>1, <1>2 DEF Unseen
<1> QED
  BY <1>3, UnseenStutters

LEMMA ReadMessageRefines ==
    ASSUME IInv, ReadMessage, UNCHANGED <<outside, output_rx>>
    PROVE  UNCHANGED Session!session_vars
<1>1. UNCHANGED <<child, wrote, delivered, client>> /\ bridge.at = "read"
  BY DEF ReadMessage, outside, channel
<1>2. DOMAIN bridge = {"at", "message", "exit_status", "input"}
  BY DEF IInv, TypeOK
<1>3. bridge'.at \in {"read", "send"}
  BY <1>1, <1>2 DEF ReadMessage
<1>4. Unseen
  BY <1>1, <1>3 DEF Unseen
<1> QED
  BY <1>4, UnseenStutters

LEMMA ReadFailsRefines ==
    ASSUME IInv, ReadFails, UNCHANGED <<outside, output_rx>>
    PROVE  Session!Cut \/ UNCHANGED Session!session_vars
<1>1. /\ UNCHANGED <<child, wrote, delivered, client>> /\ bridge.at = "read"
      /\ bridge' = [bridge EXCEPT !.at = "failed"]
  BY DEF ReadFails, StreamEnded, outside, channel
<1>2. DOMAIN bridge = {"at", "message", "exit_status", "input"}
  BY DEF IInv, TypeOK
<1>3. bridge'.at = "failed"
  BY <1>1, <1>2
<1>4. SessionState' = "cut" /\ SessionState \in {"live", "cut"}
  BY <1>1, <1>3 DEF SessionState
<1>5. (child' # "reaped") = (child # "reaped")
  BY <1>1
<1> QED
  BY <1>1, <1>4, <1>5 DEF Session!Cut, Session!session_vars

\* Nothing is written any more once the channel was closed.
LEMMA ChildWritesRefines ==
    ASSUME IInv, NEW s \in Streams, ChildWrites(s)
    PROVE  Session!Write(s)
<1>1. /\ UNCHANGED <<child, bridge, delivered, client>> /\ pipes[s].read
      /\ wrote' = [wrote EXCEPT ![s] = @ + 1]
  BY DEF ChildWrites, channel
<1>2. ~service.output_closed
  BY <1>1 DEF IInv, ServiceInv
<1>3. SessionState # "complete"
  BY <1>2 DEF IInv, BridgeInvariant, BridgeGone, Closed, SessionState
<1>4. SessionState' = SessionState /\ (child' # "reaped") = (child # "reaped")
  BY <1>1 DEF SessionState
<1> QED
  BY <1>1, <1>3, <1>4 DEF Session!Write

LEMMA ReadProcessStreamRefines ==
    ASSUME NEW s \in Streams, ReadProcessStream(s)
    PROVE  UNCHANGED Session!session_vars
<1>1. Unseen
  BY DEF ReadProcessStream, Unseen, channel
<1> QED
  BY <1>1, UnseenStutters

\* The child is dead for the session when its exit code has been collected.
LEMMA ChildStepRefines ==
    ASSUME IInv, ChildStep
    PROVE  Session!Exit \/ Session!Cut \/ UNCHANGED Session!session_vars
<1>1. CASE Wait
  <2>1. /\ UNCHANGED <<wrote, bridge, delivered, client>>
        /\ child = "exited" /\ child' = "reaped"
    BY <1>1 DEF Wait, channel
  <2>2. (child # "reaped") = TRUE /\ (child' # "reaped") = FALSE /\ SessionState' = SessionState
    BY <2>1 DEF SessionState
  <2> QED
    BY <2>1, <2>2 DEF Session!Exit
<1>2. CASE ~Wait
  <2>1. child' = "reaped" => child = "reaped"
    BY <1>2 DEF ChildStep, ChildReads, ChildClosesStdin, ChildExits, ChildEnds, PipeReleased
  <2> QED
    BY <2>1, ChildStepIsASideStep, SideStepRefines
<1> QED
  BY <1>1, <1>2

\* Every step of the request is a step of the session, or changes nothing in it.
LEMMA NextRefines == IInv /\ [Next]_vars => [Session!Next]_(Session!session_vars)
<1> SUFFICES ASSUME IInv, [Next]_vars PROVE Session!Next \/ UNCHANGED Session!session_vars
  OBVIOUS
<1> USE DEF Session!Next
<1>1. CASE ServiceTask
  BY <1>1, ServiceTaskRefines
<1>2. CASE InputTask
  <2>1. child' = "reaped" => child = "reaped"
    BY <1>2 DEF InputTask, HandleInput, InputEnds, Kill, ChildEnds, outside
  <2> QED
    BY <1>2, <2>1, InputIsASideStep, SideStepRefines
<1>3. CASE Bridge
  BY <1>3, ReadMessageRefines, SendDataRefines, CloseChannelRefines, ReadFailsRefines
     DEF Bridge, BridgeTask
<1>4. CASE ChildStep
  BY <1>4, ChildStepRefines
<1>5. CASE ClientStep
  <2>1. child' = child
    BY <1>5 DEF ClientStep, outside
  <2> QED
    BY <1>5, <2>1, ClientStepIsASideStep, SideStepRefines
<1>6. ASSUME NEW s \in Streams, ReadProcessStream(s) PROVE UNCHANGED Session!session_vars
  BY <1>6, ReadProcessStreamRefines
<1>7. ASSUME NEW s \in Streams, ChildWrites(s) PROVE Session!Write(s)
  BY <1>7, ChildWritesRefines
<1>8. CASE UNCHANGED vars
  <2>1. Unseen
    BY <1>8 DEF vars, outside, bridge_vars, channel, Unseen
  <2> QED
    BY <2>1, UnseenStutters
<1> QED
  BY <1>1, <1>2, <1>3, <1>4, <1>5, <1>6, <1>7, <1>8 DEF Next, Forward, ChildStep, ClientStep

(* The pipes, the readers, the service task, the stream and the bridge        *)
(* implement ProcessSession: start_piped_process_service and                  *)
(* bridge_process_channel show the client what was written, in order, and     *)
(* close a channel the client still holds only after all of it and the exit   *)
(* status.                                                                    *)
THEOREM SessionIsKept == Spec => SessionSpec
<1>1. Init => Session!Init
  <2> SUFFICES ASSUME Init PROVE Session!Init
    OBVIOUS
  <2>1. /\ wrote = [s \in Streams |-> 0] /\ delivered = <<>> /\ child = "running"
        /\ client = [session |-> "open", sent |-> 0, eof |-> FALSE, unread |-> 0]
        /\ bridge = [at |-> "read", message |-> NoMessage, exit_status |-> FALSE, input |-> TRUE]
    BY DEF Init, BridgeInit
  <2>2. SessionState = "live" /\ (child # "reaped") = TRUE
    BY <2>1 DEF SessionState
  <2> QED
    BY <2>1, <2>2 DEF Session!Init
<1> QED
  BY <1>1, NextRefines, Invariance, PTL DEF Spec, SessionSpec, Session!Spec
=============================================================================
