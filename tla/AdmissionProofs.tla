-------------------------- MODULE AdmissionProofs ---------------------------
(***************************************************************************)
(* Theorems about the admission controller, for every configuration.  What *)
(* prune_before computes comes first, for every sequence of instants and   *)
(* limit; then what each method does to a state, one lemma per method; then *)
(* the inductive invariant and the theorems.                               *)
(***************************************************************************)
EXTENDS Admission, TLAPS, SequenceTheorems, FiniteSetTheorems

\* Every nonempty set of naturals has a least element.
LEMMA NatMin ==
    ASSUME NEW T, T \subseteq Nat, T # {}
    PROVE  \E x \in T : \A y \in T : x <= y
<1> DEFINE R == {ss \in Nat \X Nat : ss[1] < ss[2]}
<1>1. R = OpToRel(<, Nat)
  BY DEF OpToRel
<1>2. IsWellFoundedOn(R, Nat)
  BY <1>1, NatLessThanWellFounded, Zenon
<1> HIDE DEF R
<1>3. \E x \in T : \A y \in T : ~ (<<y, x>> \in R)
  BY <1>2, WFMin, Zenon
<1>4. PICK x \in T : \A y \in T : ~ (<<y, x>> \in R)
  BY <1>3
<1>5. \A y \in T : y < x => <<y, x>> \in R
  BY DEF R
<1>6. \A y \in T : ~ (y < x)
  BY <1>4, <1>5, Zenon
<1> QED
  BY <1>4, <1>6

\* FirstKept finds the first value that is not older than the limit.
LEMMA FirstKeptSpec ==
    ASSUME NEW s \in Seq(Nat), NEW oldest \in Int
    PROVE  /\ FirstKept(s, oldest) \in 1 .. Len(s) + 1
           /\ \A j \in 1 .. FirstKept(s, oldest) - 1 : s[j] < oldest
           /\ FirstKept(s, oldest) <= Len(s) => s[FirstKept(s, oldest)] >= oldest
<1> DEFINE T == {i \in 1 .. Len(s) + 1 : i <= Len(s) => s[i] >= oldest}
<1>1. T \subseteq Nat /\ Len(s) + 1 \in T
  BY LenProperties
<1>2. PICK x \in T : \A y \in T : x <= y
  BY <1>1, NatMin, Zenon
<1>3. \A j \in 1 .. x - 1 : s[j] < oldest
  <2> SUFFICES ASSUME NEW j \in 1 .. x - 1
               PROVE  s[j] < oldest
    OBVIOUS
  <2>1. j \notin T /\ j \in 1 .. Len(s) + 1 /\ j <= Len(s)
    BY <1>2
  <2>2. s[j] \in Nat
    BY <2>1, ElementOfSeq
  <2> QED
    BY <2>1, <2>2
<1> QED
  BY <1>2, <1>3, Zenon DEF FirstKept

\* FirstKept is determined by what it finds.
LEMMA FirstKeptUnique ==
    ASSUME NEW s \in Seq(Nat), NEW oldest \in Int, NEW i \in 1 .. Len(s) + 1,
           \A j \in 1 .. i - 1 : s[j] < oldest,
           i <= Len(s) => s[i] >= oldest
    PROVE  FirstKept(s, oldest) = i
<1> DEFINE k == FirstKept(s, oldest)
<1>1. /\ k \in 1 .. Len(s) + 1
      /\ \A j \in 1 .. k - 1 : s[j] < oldest
      /\ k <= Len(s) => s[k] >= oldest
  BY FirstKeptSpec
<1> HIDE DEF k
<1>2. Len(s) \in Nat /\ \A j \in 1 .. Len(s) : s[j] \in Nat
  BY LenProperties, ElementOfSeq
<1>3. ~ (k < i)
  BY <1>1, <1>2
<1>4. ~ (i < k)
  BY <1>1, <1>2
<1> QED
  BY <1>1, <1>2, <1>3, <1>4 DEF k

\* prune_before leaves the suffix from the first value kept.
LEMMA PruneBeforeSpec ==
    ASSUME NEW s \in Seq(Nat), NEW oldest \in Int
    PROVE  LET p == PruneBefore(s, oldest)
               k == FirstKept(s, oldest)
           IN  /\ p \in Seq(Nat)
               /\ Len(p) = Len(s) + 1 - k
               /\ \A i \in 1 .. Len(p) : p[i] = s[k + i - 1]
<1> DEFINE k == FirstKept(s, oldest)
<1>1. k \in 1 .. Len(s) + 1 /\ Len(s) \in Nat
  BY FirstKeptSpec, LenProperties
<1> HIDE DEF k
<1>2. \A i \in k .. Len(s) : s[i] \in Nat
  BY <1>1, ElementOfSeq
<1>3. /\ SubSeq(s, k, Len(s)) \in Seq(Nat)
      /\ Len(SubSeq(s, k, Len(s))) = IF k <= Len(s) THEN Len(s) - k + 1 ELSE 0
      /\ \A i \in 1 .. Len(s) - k + 1 : SubSeq(s, k, Len(s))[i] = s[k + i - 1]
  BY <1>1, <1>2, SubSeqProperties
<1> QED
  BY <1>1, <1>3 DEF PruneBefore, k

\* A later limit prunes what an earlier one left as if it had come first.
LEMMA PruneTwice ==
    ASSUME NEW s \in Seq(Nat), NEW o1 \in Int, NEW o2 \in Int, o1 <= o2
    PROVE  PruneBefore(PruneBefore(s, o1), o2) = PruneBefore(s, o2)
<1> DEFINE p == PruneBefore(s, o1)
           k1 == FirstKept(s, o1)
           k2 == FirstKept(s, o2)
           q == PruneBefore(p, o2)
           r == PruneBefore(s, o2)
<1>1. /\ k1 \in 1 .. Len(s) + 1 /\ k2 \in 1 .. Len(s) + 1
      /\ \A j \in 1 .. k1 - 1 : s[j] < o1
      /\ \A j \in 1 .. k2 - 1 : s[j] < o2
      /\ k1 <= Len(s) => s[k1] >= o1
      /\ k2 <= Len(s) => s[k2] >= o2
  BY FirstKeptSpec
<1>2. p \in Seq(Nat) /\ Len(p) = Len(s) + 1 - k1
      /\ \A i \in 1 .. Len(p) : p[i] = s[k1 + i - 1]
  BY PruneBeforeSpec
<1>3. r \in Seq(Nat) /\ Len(r) = Len(s) + 1 - k2
      /\ \A i \in 1 .. Len(r) : r[i] = s[k2 + i - 1]
  BY PruneBeforeSpec
<1>4. Len(s) \in Nat /\ \A j \in 1 .. Len(s) : s[j] \in Nat
  BY LenProperties, ElementOfSeq
<1> HIDE DEF p, k1, k2, r
<1>5. k1 <= k2
  BY <1>1, <1>4
<1>6. FirstKept(p, o2) = k2 - k1 + 1
  <2> DEFINE d == k2 - k1 + 1
  <2>1. d \in 1 .. Len(p) + 1
    BY <1>1, <1>2, <1>4, <1>5
  <2>2. \A j \in 1 .. d - 1 : p[j] < o2
    <3> SUFFICES ASSUME NEW j \in 1 .. d - 1
                 PROVE  p[j] < o2
      OBVIOUS
    <3>1. j \in 1 .. Len(p) /\ k1 + j - 1 \in 1 .. k2 - 1
      BY <1>1, <1>2, <1>4, <1>5
    <3>2. p[j] = s[k1 + j - 1]
      BY <1>2, <3>1
    <3> QED
      BY <1>1, <3>1, <3>2
  <2>3. d <= Len(p) => p[d] >= o2
    <3> SUFFICES ASSUME d <= Len(p)
                 PROVE  p[d] >= o2
      OBVIOUS
    <3>1. d \in 1 .. Len(p) /\ k1 + d - 1 = k2 /\ k2 <= Len(s)
      BY <1>1, <1>2, <1>4, <1>5, <2>1
    <3>2. p[d] = s[k2]
      BY <1>2, <3>1
    <3> QED
      BY <1>1, <3>1, <3>2
  <2> HIDE DEF d
  <2>4. FirstKept(p, o2) = d
    BY <1>2, <2>1, <2>2, <2>3, FirstKeptUnique, Zenon
  <2> QED
    BY <2>4 DEF d
<1>7. q \in Seq(Nat) /\ Len(q) = Len(p) + 1 - (k2 - k1 + 1)
      /\ \A i \in 1 .. Len(q) : q[i] = p[(k2 - k1 + 1) + i - 1]
  BY <1>2, <1>6, PruneBeforeSpec
<1> HIDE DEF q
<1>8. Len(q) = Len(r)
  BY <1>1, <1>2, <1>3, <1>4, <1>7
<1>9. \A i \in 1 .. Len(q) : q[i] = r[i]
  <2> SUFFICES ASSUME NEW i \in 1 .. Len(q)
               PROVE  q[i] = r[i]
    OBVIOUS
  <2>1. q[i] = p[(k2 - k1 + 1) + i - 1] /\ r[i] = s[k2 + i - 1]
    BY <1>3, <1>7, <1>8
  <2>2. /\ (k2 - k1 + 1) + i - 1 \in 1 .. Len(p)
        /\ k1 + ((k2 - k1 + 1) + i - 1) - 1 = k2 + i - 1
    BY <1>1, <1>2, <1>4, <1>5, <1>7
  <2> QED
    BY <1>2, <2>1, <2>2
<1>10. q = r
  BY <1>3, <1>7, <1>8, <1>9, SeqEqual, Zenon
<1> QED
  BY <1>10 DEF p, q, r

\* A value the limit allows survives at the end of the pruned sequence.
LEMMA PruneAppend ==
    ASSUME NEW s \in Seq(Nat), NEW t \in Nat, NEW oldest \in Int, oldest <= t
    PROVE  PruneBefore(Append(s, t), oldest) = Append(PruneBefore(s, oldest), t)
<1> DEFINE a == Append(s, t)
           k == FirstKept(s, oldest)
           p == PruneBefore(s, oldest)
           q == PruneBefore(a, oldest)
           r == Append(p, t)
<1>1. /\ k \in 1 .. Len(s) + 1
      /\ \A j \in 1 .. k - 1 : s[j] < oldest
      /\ k <= Len(s) => s[k] >= oldest
  BY FirstKeptSpec
<1>2. /\ p \in Seq(Nat) /\ Len(p) = Len(s) + 1 - k
      /\ \A i \in 1 .. Len(p) : p[i] = s[k + i - 1]
  BY PruneBeforeSpec
<1>3. Len(s) \in Nat
  BY LenProperties
<1>4. /\ a \in Seq(Nat) /\ Len(a) = Len(s) + 1
      /\ \A i \in 1 .. Len(s) : a[i] = s[i]
      /\ a[Len(s) + 1] = t
  BY AppendProperties
<1> HIDE DEF a, k, p
<1>5. /\ r \in Seq(Nat) /\ Len(r) = Len(p) + 1
      /\ \A i \in 1 .. Len(p) : r[i] = p[i]
      /\ r[Len(p) + 1] = t
  BY <1>2, AppendProperties
<1>6. FirstKept(a, oldest) = k
  <2>1. k \in 1 .. Len(a) + 1
    BY <1>1, <1>3, <1>4
  <2>2. \A j \in 1 .. k - 1 : a[j] < oldest
    <3> SUFFICES ASSUME NEW j \in 1 .. k - 1
                 PROVE  a[j] < oldest
      OBVIOUS
    <3>1. j \in 1 .. Len(s)
      BY <1>1, <1>3
    <3> QED
      BY <1>1, <1>4, <3>1, Zenon
  <2>3. k <= Len(a) => a[k] >= oldest
    <3>1. CASE k <= Len(s)
      <4>1. k \in 1 .. Len(s)
        BY <1>1, <1>3, <3>1
      <4> QED
        BY <1>1, <1>4, <3>1, <4>1
    <3>2. CASE k = Len(s) + 1
      BY <1>4, <3>2
    <3> QED
      BY <1>1, <1>3, <3>1, <3>2
  <2> QED
    BY <1>4, <2>1, <2>2, <2>3, FirstKeptUnique, Zenon
<1>7. /\ q \in Seq(Nat) /\ Len(q) = Len(a) + 1 - k
      /\ \A i \in 1 .. Len(q) : q[i] = a[k + i - 1]
  BY <1>4, <1>6, PruneBeforeSpec
<1> HIDE DEF q, r
<1>8. Len(q) = Len(r)
  BY <1>1, <1>2, <1>3, <1>4, <1>5, <1>7
<1>9. \A i \in 1 .. Len(q) : q[i] = r[i]
  <2> SUFFICES ASSUME NEW i \in 1 .. Len(q)
               PROVE  q[i] = r[i]
    OBVIOUS
  <2>1. q[i] = a[k + i - 1]
    BY <1>7
  <2>2. CASE i \in 1 .. Len(p)
    <3>1. k + i - 1 \in 1 .. Len(s)
      BY <1>1, <1>2, <1>3, <2>2
    <3> QED
      BY <1>2, <1>4, <1>5, <2>1, <2>2, <3>1, Zenon
  <2>3. CASE i = Len(p) + 1
    <3>1. k + i - 1 = Len(s) + 1
      BY <1>1, <1>2, <1>3, <2>3
    <3> QED
      BY <1>4, <1>5, <2>1, <2>3, <3>1
  <2> QED
    BY <1>1, <1>2, <1>3, <1>4, <1>7, <2>2, <2>3, SMTT(30)
<1>10. q = r
  BY <1>5, <1>7, <1>8, <1>9, SeqEqual, Zenon
<1> QED
  BY <1>10 DEF a, p, q, r

\* prune_before of nothing is nothing.
LEMMA PruneEmpty == \A oldest \in Int : PruneBefore(<<>>, oldest) = <<>>
<1> SUFFICES ASSUME NEW oldest \in Int
             PROVE  PruneBefore(<<>>, oldest) = <<>>
  OBVIOUS
<1>1. <<>> \in Seq(Nat) /\ Len(<<>>) = 0
  OBVIOUS
<1>2. FirstKept(<<>>, oldest) \in 1 .. Len(<<>>) + 1
  BY <1>1, FirstKeptSpec, Zenon
<1>3. FirstKept(<<>>, oldest) = 1
  BY <1>1, <1>2
<1> QED
  BY <1>1, <1>3, SubSeqEmpty DEF PruneBefore

-----------------------------------------------------------------------------
USE DEF Never

\* What a refresh of an entry may do to it.  An entry that is dropped had no live
\* connection, no ban that still runs and no failure that still counts.
Count(peer) == IF peer = NoPeer THEN 0 ELSE peer.unauthenticated_connections

Failures(peer) == IF peer = NoPeer THEN <<>> ELSE peer.auth_failures

RefreshedTo(peer, fresh, count, t) ==
    /\ fresh \in PeerState \cup {NoPeer}
    /\ Count(fresh) = count
    /\ peer # NoPeer /\ peer.banned_until > t =>
          fresh # NoPeer /\ fresh.banned_until = peer.banned_until
    /\ PruneBefore(Failures(fresh), t - BanWindow)
          = PruneBefore(Failures(peer), t - BanWindow)
    /\ fresh # NoPeer =>
          /\ peer # NoPeer
          /\ fresh.tokens = peer.tokens
          /\ fresh.last_refill = peer.last_refill
          /\ fresh.opened = peer.opened
          /\ fresh.granted = peer.granted

\* What the assumptions on the configuration say, collected.
LEMMA Constants ==
    /\ MaxGlobal \in Nat /\ MaxPerIp \in Nat /\ MaxPerSubnet \in Nat
    /\ PerMinute \in Nat /\ Burst \in Nat /\ BanThreshold \in Nat
    /\ BanWindow \in Nat /\ BanDuration \in Nat /\ MaxTime \in Nat
    /\ Minute \in Nat /\ Minute > 0
    /\ subnet_key \in [Ips -> Subnets]
    /\ NoGuard \notin Ips
    /\ NoPeer \notin PeerState
    /\ IsFiniteSet(Conns)
BY AdmissionConstants, SlotConstants

\* The failures of an entry, or of none, are a sequence of instants.
LEMMA FailuresType ==
    ASSUME NEW peer \in PeerState \cup {NoPeer}
    PROVE  Failures(peer) \in Seq(Nat)
BY Constants DEF Failures, PeerState

\* cleanup_peer refreshes an entry or drops one that carries nothing.
LEMMA RetainedSpec ==
    ASSUME NEW peer \in PeerState \cup {NoPeer}, NEW t \in Nat
    PROVE  RefreshedTo(peer, Retained(peer, t), Count(peer), t)
<1>1. CASE peer = NoPeer
  BY <1>1 DEF Retained, RefreshedTo, Count
<1>2. CASE peer # NoPeer
  <2> DEFINE fresh == RefreshTransientState(peer, t)
             pruned == PruneBefore(peer.auth_failures, t - BanWindow)
             until == IF peer.banned_until # Never /\ peer.banned_until <= t
                      THEN Never ELSE peer.banned_until
  <2>1. peer \in PeerState /\ t - BanWindow \in Int
    BY <1>2, Constants
  <2>2. pruned \in Seq(Nat) /\ PruneBefore(pruned, t - BanWindow) = pruned
    BY <2>1, PruneBeforeSpec, PruneTwice DEF PeerState
  <2>3. fresh = [peer EXCEPT !.banned_until = until, !.auth_failures = pruned]
    BY DEF RefreshTransientState
  <2> HIDE DEF pruned
  <2>4. /\ fresh \in PeerState
        /\ fresh.auth_failures = pruned
        /\ fresh.banned_until = until
        /\ fresh.unauthenticated_connections = peer.unauthenticated_connections
        /\ fresh.tokens = peer.tokens
        /\ fresh.last_refill = peer.last_refill
        /\ fresh.opened = peer.opened
        /\ fresh.granted = peer.granted
    BY <2>1, <2>2, <2>3, Zenon DEF PeerState
  <2> HIDE DEF fresh
  <2>5. fresh # NoPeer
    BY <2>4, Constants
  <2>6. CASE CanBeRemoved(fresh)
    <3>1. Retained(peer, t) = NoPeer
      BY <1>2, <2>6 DEF Retained, fresh
    <3>2. peer.unauthenticated_connections = 0 /\ pruned = <<>> /\ until = Never
      BY <2>4, <2>6 DEF CanBeRemoved
    <3>3. ~ (peer.banned_until > t)
      BY <2>1, <3>2 DEF PeerState
    <3>4. PruneBefore(<<>>, t - BanWindow) = <<>>
      BY <2>1, PruneEmpty
    <3> QED
      BY <1>2, <3>1, <3>2, <3>3, <3>4 DEF RefreshedTo, Count, Failures, pruned
  <2>7. CASE ~CanBeRemoved(fresh)
    <3>1. Retained(peer, t) = fresh
      BY <1>2, <2>7 DEF Retained, fresh
    <3>2. peer.banned_until > t => until = peer.banned_until
      BY <2>1 DEF PeerState
    <3> QED
      BY <1>2, <2>2, <2>4, <2>5, <3>1, <3>2 DEF RefreshedTo, Count, Failures, pruned
  <2> QED
    BY <2>6, <2>7
<1> QED
  BY <1>1, <1>2

\* Two refreshes at one instant are a refresh.
LEMMA RefreshedTrans ==
    ASSUME NEW p, NEW q, NEW r, NEW n, NEW t,
           RefreshedTo(p, q, n, t), RefreshedTo(q, r, Count(q), t)
    PROVE  RefreshedTo(p, r, n, t)
BY DEF RefreshedTo

\* An entry left alone is refreshed.
LEMMA RefreshedRefl ==
    ASSUME NEW p \in PeerState \cup {NoPeer}, NEW t
    PROVE  RefreshedTo(p, p, Count(p), t)
BY DEF RefreshedTo

-----------------------------------------------------------------------------
\* The same for a whole state: what maybe_cleanup_peers and cleanup_peer may do.
CleanedTo(st, clean, t) ==
    /\ clean \in AdmissionState
    /\ clean.unauthenticated_connections = st.unauthenticated_connections
    /\ clean.per_subnet = st.per_subnet
    /\ \A k \in Ips :
         RefreshedTo(st.per_peer[k], clean.per_peer[k], Count(st.per_peer[k]), t)

\* What the table holds for an address is an entry or none.
LEMMA PeerType ==
    ASSUME NEW st \in AdmissionState, NEW ip \in Ips
    PROVE  st.per_peer[ip] \in PeerState \cup {NoPeer}
BY DEF AdmissionState

\* The sweep of maybe_cleanup_peers refreshes every entry.
LEMMA MaybeCleanupSpec ==
    ASSUME NEW st \in AdmissionState, NEW t \in Nat
    PROVE  CleanedTo(st, MaybeCleanupPeers(st, t), t)
<1>1. CASE t - st.last_peer_sweep < Minute
  BY <1>1, RefreshedRefl, PeerType DEF MaybeCleanupPeers, CleanedTo
<1>2. CASE ~ (t - st.last_peer_sweep < Minute)
  <2> DEFINE swept == [ip \in Ips |-> Retained(st.per_peer[ip], t)]
             clean == MaybeCleanupPeers(st, t)
  <2>1. \A k \in Ips :
          RefreshedTo(st.per_peer[k], swept[k], Count(st.per_peer[k]), t)
    BY RetainedSpec, PeerType
  <2>2. \A k \in Ips : swept[k] \in PeerState \cup {NoPeer}
    BY <2>1 DEF RefreshedTo
  <2>3. swept \in [Ips -> PeerState \cup {NoPeer}]
    BY <2>2
  <2>4. clean = [st EXCEPT !.per_peer = swept, !.last_peer_sweep = t]
    BY <1>2 DEF MaybeCleanupPeers
  <2> HIDE DEF swept, clean
  <2>5. clean \in AdmissionState
    BY <2>3, <2>4, Zenon DEF AdmissionState
  <2>6. /\ clean.per_peer = swept
        /\ clean.unauthenticated_connections = st.unauthenticated_connections
        /\ clean.per_subnet = st.per_subnet
    BY <2>4 DEF AdmissionState
  <2> QED
    BY <2>1, <2>5, <2>6 DEF CleanedTo, clean
<1> QED
  BY <1>1, <1>2

\* cleanup_peer refreshes the entry of its address and leaves the others.
LEMMA CleanupPeerSpec ==
    ASSUME NEW st \in AdmissionState, NEW ip \in Ips, NEW t \in Nat
    PROVE  CleanedTo(st, CleanupPeer(st, ip, t), t)
<1> DEFINE peers == [st.per_peer EXCEPT ![ip] = Retained(st.per_peer[ip], t)]
           clean == CleanupPeer(st, ip, t)
<1>1. RefreshedTo(st.per_peer[ip], Retained(st.per_peer[ip], t),
                  Count(st.per_peer[ip]), t)
  BY RetainedSpec, PeerType
<1>2. peers \in [Ips -> PeerState \cup {NoPeer}]
  BY <1>1 DEF RefreshedTo, AdmissionState
<1>3. \A k \in Ips :
        RefreshedTo(st.per_peer[k], peers[k], Count(st.per_peer[k]), t)
  <2> SUFFICES ASSUME NEW k \in Ips
               PROVE  RefreshedTo(st.per_peer[k], peers[k], Count(st.per_peer[k]), t)
    OBVIOUS
  <2>1. CASE k = ip
    BY <1>1, <2>1 DEF AdmissionState
  <2>2. CASE k # ip
    <3>1. peers[k] = st.per_peer[k]
      BY <2>2 DEF AdmissionState
    <3> QED
      BY <3>1, RefreshedRefl, PeerType
  <2> QED
    BY <2>1, <2>2
<1>4. clean = [st EXCEPT !.per_peer = peers]
  BY DEF CleanupPeer
<1> HIDE DEF peers, clean
<1>5. clean \in AdmissionState
  BY <1>2, <1>4 DEF AdmissionState
<1>6. /\ clean.per_peer = peers
      /\ clean.unauthenticated_connections = st.unauthenticated_connections
      /\ clean.per_subnet = st.per_subnet
  BY <1>4 DEF AdmissionState
<1> QED
  BY <1>3, <1>5, <1>6 DEF CleanedTo, clean

\* Both clean-ups, as try_acquire and record_auth_failure begin.
LEMMA CleanedSpec ==
    ASSUME NEW st \in AdmissionState, NEW ip \in Ips, NEW t \in Nat
    PROVE  CleanedTo(st, Cleaned(st, ip, t), t)
<1> DEFINE swept == MaybeCleanupPeers(st, t)
<1>1. CleanedTo(st, swept, t)
  BY MaybeCleanupSpec
<1>2. CleanedTo(swept, Cleaned(st, ip, t), t)
  BY <1>1, CleanupPeerSpec DEF CleanedTo, Cleaned
<1> HIDE DEF swept
<1>3. \A k \in Ips : Count(swept.per_peer[k]) = Count(st.per_peer[k])
  BY <1>1 DEF CleanedTo, RefreshedTo
<1>4. \A k \in Ips :
        RefreshedTo(st.per_peer[k], Cleaned(st, ip, t).per_peer[k],
                    Count(st.per_peer[k]), t)
  <2> SUFFICES ASSUME NEW k \in Ips
               PROVE  RefreshedTo(st.per_peer[k], Cleaned(st, ip, t).per_peer[k],
                                  Count(st.per_peer[k]), t)
    OBVIOUS
  <2>1. RefreshedTo(st.per_peer[k], swept.per_peer[k], Count(st.per_peer[k]), t)
    BY <1>1 DEF CleanedTo
  <2>2. RefreshedTo(swept.per_peer[k], Cleaned(st, ip, t).per_peer[k],
                    Count(swept.per_peer[k]), t)
    BY <1>2 DEF CleanedTo
  <2> QED
    BY <2>1, <2>2, RefreshedTrans
<1> QED
  BY <1>1, <1>2, <1>4 DEF CleanedTo

-----------------------------------------------------------------------------
\* The instants of an entry are ordered and its bucket is within its rate.
PeerGood(peer, t) ==
    peer # NoPeer =>
        /\ peer.opened <= peer.last_refill
        /\ peer.last_refill <= t
        /\ peer.tokens + peer.granted * Minute
             <= Burst * Minute + (peer.last_refill - peer.opened) * PerMinute

\* What any call but record_auth_failure may do to an entry.
Follows(peer, next, count, t) ==
    /\ next \in PeerState \cup {NoPeer}
    /\ PeerGood(next, t)
    /\ Count(next) = count
    /\ peer # NoPeer /\ peer.banned_until > t =>
          next # NoPeer /\ next.banned_until = peer.banned_until
    /\ PruneBefore(Failures(next), t - BanWindow)
          = PruneBefore(Failures(peer), t - BanWindow)

\* A refresh of a good entry is an allowed change of it.
LEMMA RefreshedFollows ==
    ASSUME NEW p, NEW r, NEW n, NEW t, RefreshedTo(p, r, n, t), PeerGood(p, t)
    PROVE  Follows(p, r, n, t)
BY DEF RefreshedTo, Follows, PeerGood

\* Allowed changes of an entry compose.
LEMMA FollowsTrans ==
    ASSUME NEW p, NEW q, NEW r, NEW n, NEW m, NEW t,
           Follows(p, q, n, t), Follows(q, r, m, t)
    PROVE  Follows(p, r, m, t)
BY DEF Follows

\* Products of naturals, where the solver needs help.
LEMMA Distribute ==
    ASSUME NEW a \in Nat, NEW b \in Nat, NEW p \in Nat
    PROVE  (a + b) * p = a * p + b * p /\ a * p \in Nat /\ b * p \in Nat
OBVIOUS

\* entry(ip).or_insert_with(PeerState::new) changes nothing that is tracked.
LEMMA PeerEntrySpec ==
    ASSUME NEW st \in AdmissionState, NEW ip \in Ips, NEW t \in Nat,
           PeerGood(st.per_peer[ip], t)
    PROVE  /\ PeerEntry(st, ip, t) \in PeerState
           /\ PeerEntry(st, ip, t) # NoPeer
           /\ Failures(PeerEntry(st, ip, t)) = Failures(st.per_peer[ip])
           /\ Follows(st.per_peer[ip], PeerEntry(st, ip, t),
                      Count(st.per_peer[ip]), t)
<1> DEFINE peer == st.per_peer[ip]
<1>1. peer \in PeerState \cup {NoPeer}
  BY PeerType
<1> HIDE DEF peer
<1>2. CASE peer # NoPeer
  <2>1. PeerEntry(st, ip, t) = peer /\ peer \in PeerState
    BY <1>1, <1>2 DEF PeerEntry, peer
  <2> QED
    BY <2>1, <1>2 DEF Follows, peer
<1>3. CASE peer = NoPeer
  <2> DEFINE new == PeerStateNew(t)
  <2>1. PeerEntry(st, ip, t) = new
    BY <1>3 DEF PeerEntry, peer
  <2>2. Burst * Minute \in Nat /\ 0 * PerMinute = 0 /\ 0 * Minute = 0
    BY Constants
  <2>3. /\ new \in PeerState
        /\ new.unauthenticated_connections = 0
        /\ new.auth_failures = <<>>
        /\ new.tokens = Burst * Minute
        /\ new.last_refill = t
        /\ new.opened = t
        /\ new.granted = 0
    BY <2>2 DEF PeerStateNew, PeerState
  <2> HIDE DEF new
  <2>4. new # NoPeer
    BY <2>3, Constants
  <2>5. PeerGood(new, t)
    BY <2>2, <2>3, t - t = 0 DEF PeerGood
  <2>6. Follows(NoPeer, new, 0, t)
    BY <2>3, <2>4, <2>5 DEF Follows, Count, Failures
  <2> QED
    BY <1>3, <2>1, <2>3, <2>4, <2>6 DEF peer, Count, Failures
<1> QED
  BY <1>2, <1>3

\* The refill of the bucket stays within burst and rate (TokenBucket).
LEMMA RefillSpec ==
    ASSUME NEW peer \in PeerState, NEW t \in Nat, PeerGood(peer, t)
    PROVE  /\ Refill(peer, t) \in PeerState
           /\ Follows(peer, Refill(peer, t), Count(peer), t)
           /\ PeerGood(Refill(peer, t), t)
           /\ Refill(peer, t).unauthenticated_connections
                = peer.unauthenticated_connections
<1> DEFINE d == t - peer.last_refill
           e == peer.last_refill - peer.opened
           filled == peer.tokens + d * PerMinute
           tokens == IF filled <= Burst * Minute THEN filled ELSE Burst * Minute
           full == Refill(peer, t)
<1>1. peer # NoPeer
  BY Constants
<1>2. /\ peer.last_refill \in Nat /\ peer.opened \in Nat
      /\ peer.tokens \in Nat /\ peer.granted \in Nat
  BY DEF PeerState
<1>3. d \in Nat /\ e \in Nat /\ e + d = t - peer.opened
  BY <1>1, <1>2 DEF PeerGood
<1> HIDE DEF d, e
<1>4. /\ (e + d) * PerMinute = e * PerMinute + d * PerMinute
      /\ e * PerMinute \in Nat /\ d * PerMinute \in Nat
  BY <1>3, Constants, Distribute
<1>5. Burst * Minute \in Nat /\ peer.granted * Minute \in Nat
  BY <1>2, Constants
<1>6. tokens \in Nat /\ tokens <= peer.tokens + d * PerMinute
  BY <1>2, <1>4, <1>5
<1>7. full = [peer EXCEPT !.tokens = tokens, !.last_refill = t]
  BY DEF Refill, d
<1> HIDE DEF tokens, full
<1>8. /\ full \in PeerState
      /\ full.unauthenticated_connections = peer.unauthenticated_connections
      /\ full.auth_failures = peer.auth_failures
      /\ full.banned_until = peer.banned_until
      /\ full.tokens = tokens
      /\ full.last_refill = t
      /\ full.opened = peer.opened
      /\ full.granted = peer.granted
  BY <1>6, <1>7, Zenon DEF PeerState
<1>9. full # NoPeer
  BY <1>8, Constants
<1>10. peer.tokens + peer.granted * Minute <= Burst * Minute + e * PerMinute
  BY <1>1 DEF PeerGood, e
<1>11. tokens + peer.granted * Minute <= Burst * Minute + (t - peer.opened) * PerMinute
  BY <1>2, <1>3, <1>4, <1>5, <1>6, <1>10
<1>12. PeerGood(full, t)
  BY <1>1, <1>2, <1>8, <1>11 DEF PeerGood
<1> QED
  BY <1>1, <1>8, <1>9, <1>12 DEF Follows, Count, Failures, full

-----------------------------------------------------------------------------
\* The calls on a whole state.
StateGood(st, t) == st \in AdmissionState /\ \A k \in Ips : PeerGood(st.per_peer[k], t)

MovesTo(st, next, t) ==
    /\ next \in AdmissionState
    /\ \A k \in Ips :
         Follows(st.per_peer[k], next.per_peer[k], Count(next.per_peer[k]), t)

\* Allowed changes of the whole table compose.
LEMMA MovesTrans ==
    ASSUME NEW st, NEW mid, NEW next, NEW t, MovesTo(st, mid, t), MovesTo(mid, next, t)
    PROVE  MovesTo(st, next, t)
<1> SUFFICES ASSUME NEW k \in Ips
             PROVE  Follows(st.per_peer[k], next.per_peer[k],
                            Count(next.per_peer[k]), t)
  BY DEF MovesTo
<1>1. /\ Follows(st.per_peer[k], mid.per_peer[k], Count(mid.per_peer[k]), t)
      /\ Follows(mid.per_peer[k], next.per_peer[k], Count(next.per_peer[k]), t)
  BY DEF MovesTo
<1> QED
  BY <1>1, FollowsTrans

\* A clean-up is an allowed change and moves no counter.
LEMMA CleanedMoves ==
    ASSUME NEW st, NEW clean, NEW t, StateGood(st, t), CleanedTo(st, clean, t)
    PROVE  /\ MovesTo(st, clean, t)
           /\ StateGood(clean, t)
           /\ \A k \in Ips : Count(clean.per_peer[k]) = Count(st.per_peer[k])
<1>1. \A k \in Ips :
        Follows(st.per_peer[k], clean.per_peer[k], Count(st.per_peer[k]), t)
  BY RefreshedFollows DEF StateGood, CleanedTo
<1>2. \A k \in Ips : /\ Count(clean.per_peer[k]) = Count(st.per_peer[k])
                     /\ PeerGood(clean.per_peer[k], t)
  BY <1>1 DEF Follows
<1> QED
  BY <1>1, <1>2 DEF StateGood, MovesTo, CleanedTo

\* Replacing the entry of one address by one that follows it.
LEMMA OneMoves ==
    ASSUME NEW st, NEW next, NEW ip \in Ips, NEW t, NEW peer,
           StateGood(st, t), next \in AdmissionState,
           next.per_peer[ip] = peer,
           \A k \in Ips : k # ip => next.per_peer[k] = st.per_peer[k],
           Follows(st.per_peer[ip], peer, Count(peer), t)
    PROVE  /\ MovesTo(st, next, t)
           /\ \A k \in Ips : k # ip =>
                 Count(next.per_peer[k]) = Count(st.per_peer[k])
           /\ Count(next.per_peer[ip]) = Count(peer)
<1>1. st \in AdmissionState /\ st.per_peer \in [Ips -> PeerState \cup {NoPeer}]
  BY DEF StateGood, AdmissionState
<1>2. \A k \in Ips : k # ip =>
        Follows(st.per_peer[k], next.per_peer[k], Count(next.per_peer[k]), t)
  BY <1>1 DEF StateGood, Follows
<1> QED
  BY <1>2 DEF MovesTo

\* try_acquire that admits: one more in each counter of the address.
LEMMA AdmittedSpec ==
    ASSUME NEW st, NEW ip \in Ips, NEW t \in Nat, StateGood(st, t),
           Verdict(st, ip, t) = "Admit"
    PROVE  LET next == Admitted(st, ip, t)
           IN  /\ MovesTo(st, next, t)
               /\ next.unauthenticated_connections = st.unauthenticated_connections + 1
               /\ \A s \in Subnets : next.per_subnet[s]
                    = st.per_subnet[s] + (IF s = subnet_key[ip] THEN 1 ELSE 0)
               /\ \A k \in Ips : k # ip =>
                     Count(next.per_peer[k]) = Count(st.per_peer[k])
               /\ Count(next.per_peer[ip]) = Count(st.per_peer[ip]) + 1
<1> DEFINE entry == PeerEntry(st, ip, t)
           peer == Refill(entry, t)
           more == [peer EXCEPT !.tokens = @ - Minute,
                                !.granted = @ + 1,
                                !.unauthenticated_connections = @ + 1]
           next == Admitted(st, ip, t)
<1>1. st \in AdmissionState /\ PeerGood(st.per_peer[ip], t)
  BY DEF StateGood
<1>2. /\ entry \in PeerState /\ entry # NoPeer /\ PeerGood(entry, t)
      /\ Follows(st.per_peer[ip], entry, Count(st.per_peer[ip]), t)
      /\ Count(entry) = Count(st.per_peer[ip])
  BY <1>1, PeerEntrySpec, Zenon DEF Follows
<1>3. /\ peer \in PeerState /\ Follows(entry, peer, Count(entry), t)
      /\ PeerGood(peer, t)
      /\ Count(peer) = Count(entry)
  BY <1>2, RefillSpec DEF Follows
<1>4. Follows(st.per_peer[ip], peer, Count(st.per_peer[ip]), t)
  BY <1>2, <1>3, FollowsTrans
<1>5. ~ (peer.tokens < Minute)
  BY DEF Verdict
<1>6. next = [st EXCEPT !.unauthenticated_connections = @ + 1,
                        !.per_subnet[subnet_key[ip]] = @ + 1,
                        !.per_peer[ip] = more]
  BY DEF Admitted
<1> HIDE DEF entry, peer
<1>7. peer # NoPeer
  BY <1>3, Constants
<1>8. peer.tokens - Minute \in Nat /\ peer.granted \in Nat /\ peer.tokens \in Nat
  BY <1>3, <1>5, Constants DEF PeerState
<1>9. /\ more \in PeerState
      /\ more.unauthenticated_connections = peer.unauthenticated_connections + 1
      /\ more.auth_failures = peer.auth_failures
      /\ more.banned_until = peer.banned_until
      /\ more.tokens = peer.tokens - Minute
      /\ more.granted = peer.granted + 1
      /\ more.last_refill = peer.last_refill
      /\ more.opened = peer.opened
  <2> DEFINE left == peer.tokens - Minute
             given == peer.granted + 1
             live == peer.unauthenticated_connections + 1
  <2>1. more = [peer EXCEPT !.tokens = left, !.granted = given,
                            !.unauthenticated_connections = live]
    OBVIOUS
  <2>2. left \in Nat /\ given \in Nat /\ live \in Nat
    BY <1>3, <1>8 DEF PeerState
  <2> HIDE DEF left, given, live, more
  <2>3. /\ more \in PeerState
        /\ more.unauthenticated_connections = live
        /\ more.auth_failures = peer.auth_failures
        /\ more.banned_until = peer.banned_until
        /\ more.tokens = left
        /\ more.granted = given
        /\ more.last_refill = peer.last_refill
        /\ more.opened = peer.opened
    BY <1>3, <2>1, <2>2, Zenon DEF PeerState
  <2> QED
    BY <2>3 DEF left, given, live
<1> HIDE DEF more, next
<1>10. more # NoPeer
  BY <1>9, Constants
<1>11. (peer.granted + 1) * Minute = peer.granted * Minute + Minute
       /\ peer.granted * Minute \in Nat
  BY <1>8, Constants, Distribute, 1 * Minute = Minute
<1>12. more.tokens + more.granted * Minute = peer.tokens + peer.granted * Minute
  BY <1>8, <1>9, <1>11, Constants
<1>13. PeerGood(more, t)
  BY <1>3, <1>7, <1>9, <1>12 DEF PeerGood
<1>14. Count(more) = Count(st.per_peer[ip]) + 1
  BY <1>2, <1>3, <1>7, <1>9, <1>10 DEF Count
<1>15. Follows(st.per_peer[ip], more, Count(more), t)
  BY <1>4, <1>7, <1>9, <1>10, <1>13 DEF Follows, Failures
<1>16. subnet_key[ip] \in Subnets
  BY Constants
<1>17. /\ next \in AdmissionState
       /\ next.per_peer = [st.per_peer EXCEPT ![ip] = more]
       /\ next.unauthenticated_connections = st.unauthenticated_connections + 1
       /\ next.per_subnet = [st.per_subnet EXCEPT ![subnet_key[ip]] = @ + 1]
  <2> DEFINE total == st.unauthenticated_connections + 1
             subnets == [st.per_subnet EXCEPT ![subnet_key[ip]] = @ + 1]
             peers == [st.per_peer EXCEPT ![ip] = more]
  <2>1. total \in Nat /\ subnets \in [Subnets -> Nat]
    BY <1>1, <1>16 DEF AdmissionState
  <2>2. peers \in [Ips -> PeerState \cup {NoPeer}]
    BY <1>1, <1>9 DEF AdmissionState
  <2>3. next = [st EXCEPT !.unauthenticated_connections = total,
                          !.per_subnet = subnets, !.per_peer = peers]
    BY <1>6
  <2> HIDE DEF total, subnets, peers
  <2>4. /\ next \in AdmissionState
        /\ next.per_peer = peers
        /\ next.unauthenticated_connections = total
        /\ next.per_subnet = subnets
    BY <1>1, <2>1, <2>2, <2>3, Zenon DEF AdmissionState
  <2> QED
    BY <2>4 DEF total, subnets, peers
<1>18. /\ MovesTo(st, next, t)
       /\ \A k \in Ips : k # ip => Count(next.per_peer[k]) = Count(st.per_peer[k])
       /\ Count(next.per_peer[ip]) = Count(more)
  <2>1. /\ next \in AdmissionState
        /\ next.per_peer[ip] = more
        /\ \A k \in Ips : k # ip => next.per_peer[k] = st.per_peer[k]
    BY <1>1, <1>17 DEF AdmissionState
  <2> QED
    BY <1>15, <2>1, OneMoves, Zenon
<1>19. \A s \in Subnets : next.per_subnet[s]
         = st.per_subnet[s] + (IF s = subnet_key[ip] THEN 1 ELSE 0)
  BY <1>1, <1>16, <1>17 DEF AdmissionState
<1> QED
  BY <1>14, <1>17, <1>18, <1>19, Zenon DEF next

\* try_acquire that refuses changes no counter.
LEMMA RefusedSpec ==
    ASSUME NEW st, NEW ip \in Ips, NEW t \in Nat, StateGood(st, t)
    PROVE  LET next == Refused(st, ip, t)
           IN  /\ MovesTo(st, next, t)
               /\ next.unauthenticated_connections = st.unauthenticated_connections
               /\ next.per_subnet = st.per_subnet
               /\ \A k \in Ips : Count(next.per_peer[k]) = Count(st.per_peer[k])
<1>1. CASE Verdict(st, ip, t) # "ConnectionRateLimited"
  <2>1. Refused(st, ip, t) = st
    BY <1>1 DEF Refused
  <2>2. MovesTo(st, st, t)
    BY PeerType DEF MovesTo, StateGood, Follows
  <2> QED
    BY <2>1, <2>2
<1>2. CASE Verdict(st, ip, t) = "ConnectionRateLimited"
  <2> DEFINE entry == PeerEntry(st, ip, t)
             peer == Refill(entry, t)
             next == Refused(st, ip, t)
  <2>1. st \in AdmissionState /\ PeerGood(st.per_peer[ip], t)
    BY DEF StateGood
  <2>2. /\ entry \in PeerState /\ entry # NoPeer /\ PeerGood(entry, t)
        /\ Follows(st.per_peer[ip], entry, Count(st.per_peer[ip]), t)
        /\ Count(entry) = Count(st.per_peer[ip])
    BY <2>1, PeerEntrySpec DEF Follows
  <2>3. /\ peer \in PeerState /\ Follows(entry, peer, Count(entry), t)
        /\ Count(peer) = Count(entry)
    BY <2>2, RefillSpec DEF Follows
  <2>4. Follows(st.per_peer[ip], peer, Count(peer), t)
    BY <2>2, <2>3, FollowsTrans
  <2>5. next = [st EXCEPT !.per_peer[ip] = peer]
    BY <1>2 DEF Refused
  <2> HIDE DEF entry, peer, next
  <2>6. /\ next \in AdmissionState
        /\ next.per_peer[ip] = peer
        /\ \A k \in Ips : k # ip => next.per_peer[k] = st.per_peer[k]
        /\ next.unauthenticated_connections = st.unauthenticated_connections
        /\ next.per_subnet = st.per_subnet
    BY <2>1, <2>3, <2>5, Zenon DEF AdmissionState
  <2> QED
    BY <2>2, <2>3, <2>4, <2>6, OneMoves, Zenon DEF next
<1> QED
  BY <1>1, <1>2

\* record_auth_failure: the failures still counting and one more, or a ban.
LEMMA FailureSpec ==
    ASSUME NEW st, NEW ip \in Ips, NEW t \in Nat, StateGood(st, t)
    PROVE  LET next == FailureRecorded(st, ip, t)
               counting == PruneBefore(Failures(st.per_peer[ip]), t - BanWindow)
               bans == FailureBans(st, ip, t)
           IN  /\ StateGood(next, t)
               /\ next.unauthenticated_connections = st.unauthenticated_connections
               /\ next.per_subnet = st.per_subnet
               /\ \A k \in Ips : Count(next.per_peer[k]) = Count(st.per_peer[k])
               /\ \A k \in Ips : k # ip => next.per_peer[k] = st.per_peer[k]
               /\ next.per_peer[ip] # NoPeer
               /\ bans <=> Len(counting) + 1 >= BanThreshold
               /\ bans => /\ next.per_peer[ip].banned_until = t + BanDuration
                          /\ Failures(next.per_peer[ip]) = <<>>
               /\ ~bans =>
                     /\ Failures(next.per_peer[ip]) = Append(counting, t)
                     /\ st.per_peer[ip] # NoPeer /\ st.per_peer[ip].banned_until > t =>
                          next.per_peer[ip].banned_until = st.per_peer[ip].banned_until
<1> DEFINE entry == PeerEntry(st, ip, t)
           counting == PruneBefore(Failures(st.per_peer[ip]), t - BanWindow)
           grown == Append(counting, t)
           bans == FailureBans(st, ip, t)
           failures == IF bans THEN <<>> ELSE grown
           until == IF bans THEN t + BanDuration ELSE entry.banned_until
           failed == [entry EXCEPT !.auth_failures = failures, !.banned_until = until]
           next == FailureRecorded(st, ip, t)
<1>1. st \in AdmissionState /\ PeerGood(st.per_peer[ip], t)
  BY DEF StateGood
<1>2. /\ entry \in PeerState /\ entry # NoPeer /\ PeerGood(entry, t)
      /\ Follows(st.per_peer[ip], entry, Count(st.per_peer[ip]), t)
      /\ Count(entry) = Count(st.per_peer[ip])
      /\ entry.auth_failures = Failures(st.per_peer[ip])
  BY <1>1, PeerEntrySpec, Zenon DEF Follows, Failures
<1>3. counting \in Seq(Nat) /\ t - BanWindow \in Int
  BY <1>1, Constants, FailuresType, PeerType, PruneBeforeSpec
<1>4. FailuresWith(st, ip, t) = grown
  BY <1>2 DEF FailuresWith
<1> HIDE DEF counting, entry
<1>5. grown \in Seq(Nat) /\ Len(grown) = Len(counting) + 1
  BY <1>3
<1>6. bans <=> Len(counting) + 1 >= BanThreshold
  BY <1>4, <1>5 DEF FailureBans
<1>7. failures \in Seq(Nat) /\ until \in Nat \cup {Never}
  BY <1>2, <1>5, Constants DEF PeerState
<1>8. next = [st EXCEPT !.per_peer[ip] = failed]
  <2>1. CASE bans
    BY <2>1 DEF FailureRecorded, entry
  <2>2. CASE ~bans
    <3>1. failed = [entry EXCEPT !.auth_failures = grown]
      BY <1>2, <2>2, Zenon DEF PeerState
    <3> QED
      BY <1>4, <2>2, <3>1, Zenon DEF FailureRecorded, entry
  <2> QED
    BY <2>1, <2>2
<1> HIDE DEF failures, until
<1>9. /\ failed \in PeerState
      /\ failed.unauthenticated_connections = entry.unauthenticated_connections
      /\ failed.auth_failures = failures
      /\ failed.banned_until = until
      /\ failed.tokens = entry.tokens
      /\ failed.granted = entry.granted
      /\ failed.last_refill = entry.last_refill
      /\ failed.opened = entry.opened
  BY <1>2, <1>7, Zenon DEF PeerState
<1> HIDE DEF failed, next
<1>10. failed # NoPeer
  BY <1>9, Constants
<1>11. PeerGood(failed, t) /\ Count(failed) = Count(st.per_peer[ip])
  BY <1>2, <1>9, <1>10 DEF PeerGood, Count
<1>12. /\ next \in AdmissionState
       /\ next.per_peer[ip] = failed
       /\ \A k \in Ips : k # ip => next.per_peer[k] = st.per_peer[k]
       /\ next.unauthenticated_connections = st.unauthenticated_connections
       /\ next.per_subnet = st.per_subnet
  BY <1>1, <1>8, <1>9 DEF AdmissionState
<1>13. StateGood(next, t)
       /\ \A k \in Ips : Count(next.per_peer[k]) = Count(st.per_peer[k])
  BY <1>11, <1>12 DEF StateGood
<1>14. bans => failed.banned_until = t + BanDuration /\ Failures(failed) = <<>>
  BY <1>9, <1>10 DEF failures, until, Failures
<1>15. ~bans => /\ Failures(failed) = grown
                /\ st.per_peer[ip] # NoPeer /\ st.per_peer[ip].banned_until > t =>
                     failed.banned_until = st.per_peer[ip].banned_until
  BY <1>2, <1>9, <1>10 DEF failures, until, Failures, Follows
<1> HIDE DEF bans
<1> QED
  BY <1>6, <1>10, <1>12, <1>13, <1>14, <1>15, Zenon DEF next, counting, bans

\* release: one less in each counter of the address, clean-up included.
LEMMA ReleasedSpec ==
    ASSUME NEW st, NEW ip \in Ips, NEW t \in Nat, StateGood(st, t)
    PROVE  LET next == Released(st, ip, t)
           IN  /\ MovesTo(st, next, t)
               /\ next.unauthenticated_connections
                    = Decremented(st.unauthenticated_connections)
               /\ next.per_subnet
                    = [st.per_subnet EXCEPT ![subnet_key[ip]] = Decremented(@)]
               /\ \A k \in Ips : k # ip =>
                     Count(next.per_peer[k]) = Count(st.per_peer[k])
               /\ Count(next.per_peer[ip]) = Decremented(Count(st.per_peer[ip]))
<1> DEFINE swept == MaybeCleanupPeers(st, t)
           peer == swept.per_peer[ip]
           less == IF peer = NoPeer THEN NoPeer
                   ELSE [peer EXCEPT !.unauthenticated_connections = Decremented(@)]
           total == Decremented(swept.unauthenticated_connections)
           subnets == [swept.per_subnet EXCEPT ![subnet_key[ip]] = Decremented(@)]
           peers == [swept.per_peer EXCEPT ![ip] = less]
           fewer == [swept EXCEPT !.unauthenticated_connections = total,
                                  !.per_subnet = subnets, !.per_peer = peers]
           next == Released(st, ip, t)
<1>1. CleanedTo(st, swept, t)
  BY MaybeCleanupSpec DEF StateGood
<1>2. next = CleanupPeer(fewer, ip, t)
  BY DEF Released
<1> HIDE DEF swept
<1>3. /\ MovesTo(st, swept, t)
      /\ StateGood(swept, t)
      /\ \A k \in Ips : Count(swept.per_peer[k]) = Count(st.per_peer[k])
      /\ swept.unauthenticated_connections = st.unauthenticated_connections
      /\ swept.per_subnet = st.per_subnet
  BY <1>1, CleanedMoves DEF CleanedTo
<1>4. swept \in AdmissionState /\ PeerGood(peer, t) /\ peer \in PeerState \cup {NoPeer}
  BY <1>3, PeerType DEF StateGood
<1>5. \A n \in Nat : Decremented(n) \in Nat
  BY DEF Decremented
<1>6. total \in Nat /\ subnets \in [Subnets -> Nat]
  BY <1>4, <1>5, Constants DEF AdmissionState
<1> HIDE DEF peer
<1>7. less \in PeerState \cup {NoPeer} /\ Count(less) = Decremented(Count(peer))
      /\ Follows(peer, less, Count(less), t)
  <2>1. CASE peer = NoPeer
    BY <1>4, <2>1 DEF Count, Decremented, Follows, PeerGood
  <2>2. CASE peer # NoPeer
    <3> DEFINE n == Decremented(peer.unauthenticated_connections)
    <3>1. peer \in PeerState /\ n \in Nat
      BY <1>4, <1>5, <2>2, Zenon DEF PeerState
    <3>2. less = [peer EXCEPT !.unauthenticated_connections = n]
      BY <2>2
    <3> HIDE DEF n, less
    <3>3. /\ less \in PeerState
          /\ less.unauthenticated_connections = n
          /\ less.auth_failures = peer.auth_failures
          /\ less.banned_until = peer.banned_until
          /\ less.tokens = peer.tokens
          /\ less.granted = peer.granted
          /\ less.last_refill = peer.last_refill
          /\ less.opened = peer.opened
      BY <3>1, <3>2, Zenon DEF PeerState
    <3>4. less # NoPeer
      BY <3>3, Constants
    <3> QED
      BY <1>4, <2>2, <3>3, <3>4 DEF Follows, PeerGood, Count, Failures, n
  <2> QED
    BY <2>1, <2>2
<1> HIDE DEF less
<1>8. peers \in [Ips -> PeerState \cup {NoPeer}]
      /\ peers[ip] = less
      /\ \A k \in Ips : k # ip => peers[k] = swept.per_peer[k]
  BY <1>4, <1>7 DEF AdmissionState
<1> HIDE DEF peers, subnets, total
<1>9. /\ fewer \in AdmissionState
      /\ fewer.per_peer = peers
      /\ fewer.unauthenticated_connections = total
      /\ fewer.per_subnet = subnets
  BY <1>4, <1>6, <1>8, Zenon DEF AdmissionState
<1> HIDE DEF fewer
<1>10. /\ fewer.per_peer[ip] = less
       /\ \A k \in Ips : k # ip => fewer.per_peer[k] = swept.per_peer[k]
  BY <1>8, <1>9
<1>11. /\ MovesTo(swept, fewer, t)
       /\ \A k \in Ips : k # ip =>
             Count(fewer.per_peer[k]) = Count(swept.per_peer[k])
       /\ Count(fewer.per_peer[ip]) = Count(less)
  BY <1>3, <1>7, <1>9, <1>10, OneMoves, Zenon DEF peer
<1>12. StateGood(fewer, t)
  BY <1>11 DEF MovesTo, StateGood, Follows
<1>13. CleanedTo(fewer, next, t)
  BY <1>2, <1>9, CleanupPeerSpec
<1> HIDE DEF next
<1>14. /\ MovesTo(fewer, next, t)
       /\ \A k \in Ips : Count(next.per_peer[k]) = Count(fewer.per_peer[k])
       /\ next.unauthenticated_connections = total
       /\ next.per_subnet = subnets
  BY <1>9, <1>12, <1>13, CleanedMoves DEF CleanedTo
<1>15. MovesTo(st, next, t)
  BY <1>3, <1>11, <1>14, MovesTrans
<1>16. \A k \in Ips : k # ip => Count(next.per_peer[k]) = Count(st.per_peer[k])
  BY <1>3, <1>11, <1>14
<1>17. Count(next.per_peer[ip]) = Decremented(Count(st.per_peer[ip]))
  BY <1>3, <1>7, <1>11, <1>14 DEF peer
<1>18. total = Decremented(st.unauthenticated_connections)
  BY <1>3 DEF total
<1>19. subnets = [st.per_subnet EXCEPT ![subnet_key[ip]] = Decremented(@)]
  BY <1>3 DEF subnets
<1> QED
  BY <1>14, <1>15, <1>16, <1>17, <1>18, <1>19 DEF next

-----------------------------------------------------------------------------
\* The sets of live guards are finite.
LEMMA HoldersFinite ==
    /\ IsFiniteSet(Holders) /\ Cardinality(Holders) \in Nat
    /\ \A ip : IsFiniteSet(HoldersOf(ip)) /\ Cardinality(HoldersOf(ip)) \in Nat
    /\ \A s : IsFiniteSet(HoldersIn(s)) /\ Cardinality(HoldersIn(s)) \in Nat
<1>1. \A T : T \subseteq Conns => IsFiniteSet(T) /\ Cardinality(T) \in Nat
  BY Constants, FS_Subset, FS_CardinalityType
<1>2. Holders \subseteq Conns
  BY DEF Holders
<1>3. \A ip : HoldersOf(ip) \subseteq Conns
  BY DEF HoldersOf
<1>4. \A s : HoldersIn(s) \subseteq Conns
  BY DEF HoldersIn, Holders
<1> QED
  BY <1>1, <1>2, <1>3, <1>4

\* A guard granted adds its connection to three sets of holders.
LEMMA TakeSlot ==
    ASSUME guard \in [Conns -> Ips \cup {NoGuard}], NEW c \in Conns, NEW ip \in Ips,
           guard[c] = NoGuard, guard' = [guard EXCEPT ![c] = ip]
    PROVE  /\ Cardinality(Holders') = Cardinality(Holders) + 1
           /\ \A k \in Ips : Cardinality(HoldersOf(k)')
                = Cardinality(HoldersOf(k)) + (IF k = ip THEN 1 ELSE 0)
           /\ \A s \in Subnets : Cardinality(HoldersIn(s)')
                = Cardinality(HoldersIn(s)) + (IF s = subnet_key[ip] THEN 1 ELSE 0)
<1>1. NoGuard \notin Ips
  BY Constants
<1>2. Holders' = Holders \cup {c} /\ c \notin Holders
  BY <1>1 DEF Holders
<1>3. /\ HoldersOf(ip)' = HoldersOf(ip) \cup {c} /\ c \notin HoldersOf(ip)
      /\ \A k \in Ips : k # ip => HoldersOf(k)' = HoldersOf(k)
  BY <1>1 DEF HoldersOf
<1>4. guard'[c] = ip /\ \A d \in Conns : d # c => guard'[d] = guard[d]
  OBVIOUS
<1>5. \A s : c \notin HoldersIn(s)
  BY <1>2 DEF HoldersIn
<1>6. HoldersIn(subnet_key[ip])' = HoldersIn(subnet_key[ip]) \cup {c}
  BY <1>1, <1>2, <1>4 DEF HoldersIn, Holders
<1>7. \A s \in Subnets : s # subnet_key[ip] => HoldersIn(s)' = HoldersIn(s)
  BY <1>1, <1>2, <1>4 DEF HoldersIn, Holders
<1>8. Cardinality(Holders') = Cardinality(Holders) + 1
  BY <1>2, HoldersFinite, FS_AddElement, Zenon
<1>9. \A k \in Ips : Cardinality(HoldersOf(k)')
        = Cardinality(HoldersOf(k)) + (IF k = ip THEN 1 ELSE 0)
  <2>1. Cardinality(HoldersOf(ip)') = Cardinality(HoldersOf(ip)) + 1
    BY <1>3, HoldersFinite, FS_AddElement, Zenon
  <2>2. \A k \in Ips : Cardinality(HoldersOf(k)) \in Nat
    BY HoldersFinite
  <2>3. \A k \in Ips : k # ip => Cardinality(HoldersOf(k)') = Cardinality(HoldersOf(k))
    BY <1>3
  <2> QED
    BY <2>1, <2>2, <2>3
<1>10. \A s \in Subnets : Cardinality(HoldersIn(s)')
        = Cardinality(HoldersIn(s)) + (IF s = subnet_key[ip] THEN 1 ELSE 0)
  <2>1. Cardinality(HoldersIn(subnet_key[ip])') = Cardinality(HoldersIn(subnet_key[ip])) + 1
    BY <1>5, <1>6, HoldersFinite, FS_AddElement, Zenon
  <2>2. \A s \in Subnets : Cardinality(HoldersIn(s)) \in Nat
    BY HoldersFinite
  <2> QED
    BY <1>7, <2>1, <2>2
<1> QED
  BY <1>8, <1>9, <1>10

\* A guard given back takes its connection out of them, as release decrements.
LEMMA GiveSlot ==
    ASSUME guard \in [Conns -> Ips \cup {NoGuard}], NEW c \in Conns, NEW ip \in Ips,
           guard[c] = ip, guard' = [guard EXCEPT ![c] = NoGuard]
    PROVE  /\ Cardinality(Holders') = Decremented(Cardinality(Holders))
           /\ \A k \in Ips : Cardinality(HoldersOf(k)') =
                IF k = ip THEN Decremented(Cardinality(HoldersOf(k)))
                ELSE Cardinality(HoldersOf(k))
           /\ \A s \in Subnets : Cardinality(HoldersIn(s)') =
                IF s = subnet_key[ip] THEN Decremented(Cardinality(HoldersIn(s)))
                ELSE Cardinality(HoldersIn(s))
           /\ Cardinality(Holders') <= Cardinality(Holders)
           /\ \A k \in Ips : Cardinality(HoldersOf(k)') <= Cardinality(HoldersOf(k))
           /\ \A s \in Subnets : Cardinality(HoldersIn(s)') <= Cardinality(HoldersIn(s))
<1>1. NoGuard \notin Ips
  BY Constants
<1>2. Holders' = Holders \ {c} /\ c \in Holders
  BY <1>1 DEF Holders
<1>3. /\ HoldersOf(ip)' = HoldersOf(ip) \ {c} /\ c \in HoldersOf(ip)
      /\ \A k \in Ips : k # ip => HoldersOf(k)' = HoldersOf(k)
  BY <1>1 DEF HoldersOf
<1>4. \A d \in Conns : d # c => guard'[d] = guard[d]
  OBVIOUS
<1>5. c \in HoldersIn(subnet_key[ip])
  BY <1>2 DEF HoldersIn
<1>6. HoldersIn(subnet_key[ip])' = HoldersIn(subnet_key[ip]) \ {c}
  BY <1>1, <1>2, <1>4 DEF HoldersIn, Holders
<1>7. \A s \in Subnets : s # subnet_key[ip] => HoldersIn(s)' = HoldersIn(s)
  BY <1>1, <1>2, <1>4 DEF HoldersIn, Holders
<1>8. ASSUME NEW T, IsFiniteSet(T), c \in T
      PROVE  Cardinality(T \ {c}) = Decremented(Cardinality(T))
             /\ Cardinality(T \ {c}) <= Cardinality(T)
  <2>1. Cardinality(T) \in Nat /\ Cardinality(T) # 0
    BY <1>8, FS_CardinalityType, FS_EmptySet
  <2>2. Cardinality(T \ {c}) = Cardinality(T) - 1
    BY <1>8, FS_RemoveElement, Zenon
  <2> QED
    BY <2>1, <2>2 DEF Decremented
<1>9. /\ Cardinality(Holders') = Decremented(Cardinality(Holders))
      /\ Cardinality(Holders') <= Cardinality(Holders)
  BY <1>2, <1>8, HoldersFinite
<1>10. /\ Cardinality(HoldersOf(ip)') = Decremented(Cardinality(HoldersOf(ip)))
       /\ Cardinality(HoldersOf(ip)') <= Cardinality(HoldersOf(ip))
  BY <1>3, <1>8, HoldersFinite
<1>11. /\ Cardinality(HoldersIn(subnet_key[ip])')
            = Decremented(Cardinality(HoldersIn(subnet_key[ip])))
       /\ Cardinality(HoldersIn(subnet_key[ip])') <= Cardinality(HoldersIn(subnet_key[ip]))
  BY <1>5, <1>6, <1>8, HoldersFinite
<1>12. /\ \A k \in Ips : Cardinality(HoldersOf(k)) \in Nat
       /\ \A s \in Subnets : Cardinality(HoldersIn(s)) \in Nat
  BY HoldersFinite
<1> QED
  BY <1>3, <1>7, <1>9, <1>10, <1>11, <1>12

-----------------------------------------------------------------------------
\* The inductive invariant.  A ban that still runs is in the entry of its address,
\* and the failures an entry still counts are those of the history.
BansTracked ==
    \A k \in Ips : banned_at[k] # Never /\ banned_at[k] + BanDuration > now =>
        /\ admission.per_peer[k] # NoPeer
        /\ admission.per_peer[k].banned_until = banned_at[k] + BanDuration

FailuresTracked ==
    \A k \in Ips :
        /\ PruneBefore(failed_at[k], now - BanWindow) = failed_at[k]
        /\ PruneBefore(Failures(admission.per_peer[k]), now - BanWindow) = failed_at[k]

Tracked == StateGood(admission, now) /\ BansTracked /\ FailuresTracked

IInv == TypeOK /\ Tracked /\ SlotsMatchGuards /\ CapsRespected /\ EnoughFailuresBan

\* AdmissionController::new establishes the inductive invariant.
LEMMA InitIInv == Init => IInv
<1> SUFFICES ASSUME Init
             PROVE  IInv
  OBVIOUS
<1>1. admission = AdmissionStateNew /\ now = 0
  BY DEF Init
<1>2. /\ admission \in AdmissionState
      /\ admission.unauthenticated_connections = 0
      /\ \A s \in Subnets : admission.per_subnet[s] = 0
      /\ \A k \in Ips : admission.per_peer[k] = NoPeer
  BY <1>1 DEF AdmissionStateNew, AdmissionState
<1>3. TypeOK
  BY <1>2 DEF Init, TypeOK
<1>4. Tracked
  <2>1. StateGood(admission, now)
    BY <1>2 DEF StateGood, PeerGood
  <2>2. BansTracked
    BY DEF Init, BansTracked
  <2>3. PruneBefore(<<>>, now - BanWindow) = <<>>
    BY <1>1, Constants, PruneEmpty
  <2>4. FailuresTracked
    BY <1>2, <2>3 DEF Init, FailuresTracked, Failures
  <2> QED
    BY <2>1, <2>2, <2>4 DEF Tracked
<1>5. /\ Holders = {}
      /\ \A k \in Ips : HoldersOf(k) = {}
      /\ \A s : HoldersIn(s) = {}
  BY Constants DEF Init, Holders, HoldersOf, HoldersIn
<1>6. SlotsMatchGuards
  BY <1>2, <1>5, FS_EmptySet DEF SlotsMatchGuards, PeerCount
<1>7. CapsRespected
  BY <1>5, FS_EmptySet, Constants DEF CapsRespected, PerIpLimit
<1>8. EnoughFailuresBan
  BY Constants DEF Init, EnoughFailuresBan
<1> QED
  BY <1>3, <1>4, <1>6, <1>7, <1>8 DEF IInv

\* Every call but record_auth_failure keeps what is tracked.
LEMMA MovedTracked ==
    ASSUME Tracked, MovesTo(admission, admission', now),
           UNCHANGED <<now, banned_at, failed_at>>
    PROVE  Tracked'
<1>1. now' = now /\ banned_at' = banned_at /\ failed_at' = failed_at
  OBVIOUS
<1>2. \A k \in Ips : Follows(admission.per_peer[k], admission'.per_peer[k],
                              Count(admission'.per_peer[k]), now)
  BY Zenon DEF MovesTo
<1>3. StateGood(admission, now)'
  BY <1>1, <1>2, Zenon DEF MovesTo, StateGood, Follows
<1>4. BansTracked'
  <2> SUFFICES ASSUME NEW k \in Ips, banned_at[k] # Never,
                      banned_at[k] + BanDuration > now
               PROVE  /\ admission'.per_peer[k] # NoPeer
                      /\ admission'.per_peer[k].banned_until = banned_at[k] + BanDuration
    BY <1>1 DEF BansTracked
  <2>1. /\ admission.per_peer[k] # NoPeer
        /\ admission.per_peer[k].banned_until = banned_at[k] + BanDuration
    BY Zenon DEF Tracked, BansTracked
  <2> QED
    BY <1>2, <2>1 DEF Follows
<1>5. FailuresTracked'
  <2> SUFFICES ASSUME NEW k \in Ips
               PROVE  /\ PruneBefore(failed_at[k], now - BanWindow) = failed_at[k]
                      /\ PruneBefore(Failures(admission'.per_peer[k]), now - BanWindow)
                           = failed_at[k]
    BY <1>1 DEF FailuresTracked
  <2>1. /\ PruneBefore(failed_at[k], now - BanWindow) = failed_at[k]
        /\ PruneBefore(Failures(admission.per_peer[k]), now - BanWindow) = failed_at[k]
    BY DEF Tracked, FailuresTracked
  <2> QED
    BY <1>2, <2>1 DEF Follows
<1> QED
  BY <1>3, <1>4, <1>5 DEF Tracked

\* The passing of time keeps what is tracked: failures only stop counting.
LEMMA TickTracked ==
    ASSUME TypeOK, Tracked, EnoughFailuresBan, Tick
    PROVE  Tracked' /\ EnoughFailuresBan' /\ failed_at' \in [Ips -> Seq(Nat)]
<1> DEFINE o1 == now - BanWindow
           o2 == now + 1 - BanWindow
<1>1. /\ now \in Nat /\ now' = now + 1
      /\ admission' = admission /\ banned_at' = banned_at
      /\ failed_at' = [k \in Ips |-> PruneBefore(failed_at[k], o2)]
      /\ failed_at \in [Ips -> Seq(Nat)] /\ banned_at \in [Ips -> Nat \cup {Never}]
      /\ admission \in AdmissionState
  BY DEF Tick, TypeOK
<1>2. o1 \in Int /\ o2 \in Int /\ o1 <= o2 /\ o2 = now' - BanWindow
  BY <1>1, Constants
<1> HIDE DEF o2
<1>3. ASSUME NEW k \in Ips
      PROVE  /\ failed_at'[k] \in Seq(Nat)
             /\ Len(failed_at'[k]) <= Len(failed_at[k])
             /\ PruneBefore(failed_at'[k], o2) = failed_at'[k]
  <2>1. failed_at[k] \in Seq(Nat) /\ failed_at'[k] = PruneBefore(failed_at[k], o2)
    BY <1>1
  <2>2. /\ PruneBefore(failed_at[k], o2) \in Seq(Nat)
        /\ Len(PruneBefore(failed_at[k], o2))
             = Len(failed_at[k]) + 1 - FirstKept(failed_at[k], o2)
    BY <1>2, <2>1, PruneBeforeSpec
  <2>3. FirstKept(failed_at[k], o2) \in 1 .. Len(failed_at[k]) + 1
    BY <1>2, <2>1, FirstKeptSpec
  <2>4. Len(failed_at'[k]) <= Len(failed_at[k])
    BY <2>1, <2>2, <2>3
  <2>5. PruneBefore(PruneBefore(failed_at[k], o2), o2) = PruneBefore(failed_at[k], o2)
    BY <1>2, <2>1, PruneTwice
  <2> QED
    BY <2>1, <2>2, <2>4, <2>5
<1>4. ASSUME NEW k \in Ips
      PROVE  PruneBefore(Failures(admission.per_peer[k]), o2) = failed_at'[k]
  <2>1. Failures(admission.per_peer[k]) \in Seq(Nat)
    BY <1>1, FailuresType, PeerType
  <2>2. PruneBefore(Failures(admission.per_peer[k]), o1) = failed_at[k]
    BY DEF Tracked, FailuresTracked
  <2>3. PruneBefore(PruneBefore(Failures(admission.per_peer[k]), o1), o2)
          = PruneBefore(Failures(admission.per_peer[k]), o2)
    BY <1>2, <2>1, PruneTwice
  <2> QED
    BY <1>1, <2>2, <2>3
<1>5. FailuresTracked'
  BY <1>1, <1>2, <1>3, <1>4, Zenon DEF FailuresTracked
<1>6. BansTracked'
  BY <1>1, Constants DEF Tracked, BansTracked
<1>7. StateGood(admission, now)'
  <2>1. \A k \in Ips : PeerGood(admission.per_peer[k], now + 1)
    <3> SUFFICES ASSUME NEW k \in Ips, admission.per_peer[k] # NoPeer
                 PROVE  PeerGood(admission.per_peer[k], now + 1)
      BY DEF PeerGood
    <3>1. admission.per_peer[k] \in PeerState
      BY <1>1, PeerType
    <3>2. PeerGood(admission.per_peer[k], now)
      BY DEF Tracked, StateGood
    <3> QED
      BY <1>1, <3>1, <3>2 DEF PeerGood, PeerState
  <2> QED
    BY <1>1, <2>1, Zenon DEF StateGood
<1>8. EnoughFailuresBan'
  <2> SUFFICES ASSUME NEW k \in Ips, BanThreshold > 0
               PROVE  Len(failed_at'[k]) < BanThreshold
    BY DEF EnoughFailuresBan
  <2>1. Len(failed_at[k]) \in Nat /\ Len(failed_at'[k]) \in Nat
    BY <1>1, <1>3
  <2> QED
    BY <1>3, <2>1, Constants DEF EnoughFailuresBan
<1>9. failed_at' \in [Ips -> Seq(Nat)]
  BY <1>1, <1>3, Zenon
<1> QED
  BY <1>5, <1>6, <1>7, <1>8, <1>9, Zenon DEF Tracked

\* Two states with the same counters.
SameCounters(st, next) ==
    /\ next.unauthenticated_connections = st.unauthenticated_connections
    /\ next.per_subnet = st.per_subnet
    /\ \A k \in Ips : Count(next.per_peer[k]) = Count(st.per_peer[k])

\* What a call that starts by cleaning up finds.
LEMMA CleanStart ==
    ASSUME TypeOK, Tracked, NEW ip \in Ips
    PROVE  LET st == Cleaned(admission, ip, now)
           IN  /\ MovesTo(admission, st, now)
               /\ StateGood(st, now)
               /\ SameCounters(admission, st)
<1>1. CleanedTo(admission, Cleaned(admission, ip, now), now)
  BY CleanedSpec DEF TypeOK
<1>2. StateGood(admission, now)
  BY DEF Tracked
<1> QED
  BY <1>1, <1>2, CleanedMoves DEF CleanedTo, SameCounters

\* record_auth_failure adds one failure, or bans at the threshold and forgets them.
LEMMA RecordTracked ==
    ASSUME TypeOK, Tracked, EnoughFailuresBan, NEW c \in Conns, RecordAuthFailure(c)
    PROVE  /\ Tracked'
           /\ EnoughFailuresBan'
           /\ SameCounters(admission, admission')
           /\ banned_at' \in [Ips -> Nat \cup {Never}]
           /\ failed_at' \in [Ips -> Seq(Nat)]
           /\ \A k \in Ips : banned_at'[k] # banned_at[k] =>
                 Len(failed_at[k]) + 1 >= BanThreshold
<1> DEFINE ip == guard[c]
           st == Cleaned(admission, ip, now)
           bans == FailureBans(st, ip, now)
           o == now - BanWindow
           counting == PruneBefore(Failures(st.per_peer[ip]), o)
<1>1. /\ ip \in Ips /\ now \in Nat /\ now' = now
      /\ failed_at \in [Ips -> Seq(Nat)] /\ banned_at \in [Ips -> Nat \cup {Never}]
  BY DEF RecordAuthFailure, TypeOK
<1>2. /\ admission' = FailureRecorded(st, ip, now)
      /\ banned_at' = [banned_at EXCEPT ![ip] = IF bans THEN now ELSE @]
      /\ failed_at' = [failed_at EXCEPT ![ip] = IF bans THEN <<>> ELSE Append(@, now)]
  BY DEF RecordAuthFailure
<1>3. o \in Int /\ o <= now
  BY <1>1, Constants
<1>4. /\ MovesTo(admission, st, now) /\ StateGood(st, now)
      /\ SameCounters(admission, st)
  BY <1>1, CleanStart, Zenon
<1> HIDE DEF ip, st, bans
<1>5. /\ StateGood(admission', now)
      /\ SameCounters(st, admission')
      /\ \A k \in Ips : k # ip => admission'.per_peer[k] = st.per_peer[k]
      /\ admission'.per_peer[ip] # NoPeer
      /\ bans <=> Len(counting) + 1 >= BanThreshold
      /\ bans => /\ admission'.per_peer[ip].banned_until = now + BanDuration
                 /\ Failures(admission'.per_peer[ip]) = <<>>
      /\ ~bans =>
            /\ Failures(admission'.per_peer[ip]) = Append(counting, now)
            /\ st.per_peer[ip] # NoPeer /\ st.per_peer[ip].banned_until > now =>
                 admission'.per_peer[ip].banned_until = st.per_peer[ip].banned_until
  <2> DEFINE next == FailureRecorded(st, ip, now)
  <2>1. /\ StateGood(next, now)
        /\ next.unauthenticated_connections = st.unauthenticated_connections
        /\ next.per_subnet = st.per_subnet
        /\ \A k \in Ips : Count(next.per_peer[k]) = Count(st.per_peer[k])
        /\ \A k \in Ips : k # ip => next.per_peer[k] = st.per_peer[k]
        /\ next.per_peer[ip] # NoPeer
        /\ bans <=> Len(counting) + 1 >= BanThreshold
        /\ bans => /\ next.per_peer[ip].banned_until = now + BanDuration
                   /\ Failures(next.per_peer[ip]) = <<>>
        /\ ~bans =>
              /\ Failures(next.per_peer[ip]) = Append(counting, now)
              /\ st.per_peer[ip] # NoPeer /\ st.per_peer[ip].banned_until > now =>
                   next.per_peer[ip].banned_until = st.per_peer[ip].banned_until
    <3>1. ip \in Ips /\ now \in Nat /\ StateGood(st, now)
      BY <1>1, <1>4
    <3> QED
      BY <3>1, FailureSpec, Zenon DEF bans
  <2>2. admission' = next
    BY <1>2, Zenon
  <2> HIDE DEF next, counting
  <2> QED
    BY <2>1, <2>2 DEF SameCounters
<1>6. \A k \in Ips :
        /\ PruneBefore(failed_at[k], o) = failed_at[k]
        /\ PruneBefore(Failures(st.per_peer[k]), o) = failed_at[k]
  BY <1>4 DEF Tracked, FailuresTracked, MovesTo, Follows
<1>7. counting = failed_at[ip] /\ counting \in Seq(Nat)
  BY <1>1, <1>6
<1> HIDE DEF counting
<1>8. /\ banned_at' \in [Ips -> Nat \cup {Never}]
      /\ failed_at' \in [Ips -> Seq(Nat)]
      /\ \A k \in Ips : k # ip =>
            banned_at'[k] = banned_at[k] /\ failed_at'[k] = failed_at[k]
      /\ bans => banned_at'[ip] = now /\ failed_at'[ip] = <<>>
      /\ ~bans => banned_at'[ip] = banned_at[ip] /\ failed_at'[ip] = Append(counting, now)
  BY <1>1, <1>2, <1>7, SMTT(30)
<1>9. \A k \in Ips : banned_at'[k] # banned_at[k] =>
        Len(failed_at[k]) + 1 >= BanThreshold
  BY <1>5, <1>7, <1>8, Zenon
<1>10. SameCounters(admission, admission')
  BY <1>4, <1>5, Zenon DEF SameCounters
<1>11. EnoughFailuresBan'
  <2> SUFFICES ASSUME NEW k \in Ips, BanThreshold > 0
               PROVE  Len(failed_at'[k]) < BanThreshold
    BY Zenon DEF EnoughFailuresBan
  <2>1. CASE k # ip
    BY <1>8, <2>1, Zenon DEF EnoughFailuresBan
  <2>2. CASE k = ip /\ bans
    BY <1>8, <2>2
  <2>3. CASE k = ip /\ ~bans
    <3>1. Len(Append(counting, now)) = Len(counting) + 1 /\ Len(counting) \in Nat
      BY <1>1, <1>7
    <3> QED
      BY <1>5, <1>8, <2>3, <3>1, Constants, SMTT(30)
  <2> QED
    BY <2>1, <2>2, <2>3
<1>12. BansTracked'
  <2> SUFFICES ASSUME NEW k \in Ips, banned_at'[k] # Never,
                      banned_at'[k] + BanDuration > now
               PROVE  /\ admission'.per_peer[k] # NoPeer
                      /\ admission'.per_peer[k].banned_until = banned_at'[k] + BanDuration
    BY <1>1, Zenon DEF BansTracked
  <2>1. CASE k = ip /\ bans
    BY <1>5, <1>8, <2>1, Zenon
  <2>2. CASE ~ (k = ip /\ bans)
    <3>1. banned_at'[k] = banned_at[k]
      BY <1>8, <2>2
    <3>2. /\ admission.per_peer[k] # NoPeer
          /\ admission.per_peer[k].banned_until = banned_at[k] + BanDuration
          /\ admission.per_peer[k].banned_until > now
      BY <3>1, Zenon DEF Tracked, BansTracked
    <3>3. /\ st.per_peer[k] # NoPeer
          /\ st.per_peer[k].banned_until = banned_at[k] + BanDuration
          /\ st.per_peer[k].banned_until > now
      BY <1>4, <3>2, Zenon DEF MovesTo, Follows
    <3> QED
      BY <1>5, <2>2, <3>1, <3>3, Zenon
  <2> QED
    BY <2>1, <2>2
<1>13. FailuresTracked'
  <2> SUFFICES ASSUME NEW k \in Ips
               PROVE  /\ PruneBefore(failed_at'[k], o) = failed_at'[k]
                      /\ PruneBefore(Failures(admission'.per_peer[k]), o) = failed_at'[k]
    BY <1>1, Zenon DEF FailuresTracked
  <2>1. CASE k # ip
    BY <1>5, <1>6, <1>8, <2>1, Zenon
  <2>2. CASE k = ip /\ bans
    BY <1>3, <1>5, <1>8, <2>2, PruneEmpty, Zenon
  <2>3. CASE k = ip /\ ~bans
    <3>1. PruneBefore(Append(counting, now), o) = Append(PruneBefore(counting, o), now)
      BY <1>1, <1>3, <1>7, PruneAppend
    <3>2. PruneBefore(counting, o) = counting
      BY <1>1, <1>6, <1>7, Zenon
    <3> QED
      BY <1>5, <1>8, <2>3, <3>1, <3>2, Zenon
  <2> QED
    BY <2>1, <2>2, <2>3, Zenon
<1>14. Tracked'
  BY <1>1, <1>5, <1>12, <1>13, Zenon DEF Tracked
<1> QED
  BY <1>8, <1>9, <1>10, <1>11, <1>14, Zenon

\* A grant finds room under every cap, and a guard given back is counted back.
LEMMA AcquireStep ==
    ASSUME IInv, NEW c \in Conns, NEW ip \in Ips, TryAcquireOk(c, ip)
    PROVE  /\ MovesTo(admission, admission', now)
           /\ SlotsMatchGuards'
           /\ Acquire(c, ip)
           /\ CapsRespected'
           /\ banned_at[ip] = Never \/ now >= banned_at[ip] + BanDuration
<1> DEFINE st == Cleaned(admission, ip, now)
           sub == subnet_key[ip]
<1>1. /\ TypeOK /\ Tracked /\ SlotsMatchGuards /\ CapsRespected
      /\ now \in Nat /\ guard \in [Conns -> Ips \cup {NoGuard}]
      /\ admission \in AdmissionState /\ sub \in Subnets
      /\ banned_at[ip] \in Nat \cup {Never}
  BY Constants DEF IInv, TypeOK
<1>2. /\ guard[c] = NoGuard /\ Verdict(st, ip, now) = "Admit"
      /\ admission' = Admitted(st, ip, now)
      /\ guard' = [guard EXCEPT ![c] = ip]
  BY Zenon DEF TryAcquireOk
<1>3. /\ MovesTo(admission, st, now) /\ StateGood(st, now) /\ SameCounters(admission, st)
  BY <1>1, CleanStart, Zenon
<1> HIDE DEF st, sub
<1>4. /\ MovesTo(st, admission', now)
      /\ admission'.unauthenticated_connections = st.unauthenticated_connections + 1
      /\ \A s \in Subnets : admission'.per_subnet[s]
           = st.per_subnet[s] + (IF s = sub THEN 1 ELSE 0)
      /\ \A k \in Ips : k # ip => Count(admission'.per_peer[k]) = Count(st.per_peer[k])
      /\ Count(admission'.per_peer[ip]) = Count(st.per_peer[ip]) + 1
  <2>1. now \in Nat /\ StateGood(st, now) /\ Verdict(st, ip, now) = "Admit"
    BY <1>1, <1>2, <1>3
  <2> DEFINE next == Admitted(st, ip, now)
  <2>2. /\ MovesTo(st, next, now)
        /\ next.unauthenticated_connections = st.unauthenticated_connections + 1
        /\ \A s \in Subnets : next.per_subnet[s]
             = st.per_subnet[s] + (IF s = sub THEN 1 ELSE 0)
        /\ \A k \in Ips : k # ip => Count(next.per_peer[k]) = Count(st.per_peer[k])
        /\ Count(next.per_peer[ip]) = Count(st.per_peer[ip]) + 1
    BY <2>1, AdmittedSpec, Zenon DEF sub
  <2>3. admission' = next
    BY <1>2
  <2> HIDE DEF next
  <2> QED
    BY <2>2, <2>3
<1>5. MovesTo(admission, admission', now)
  BY <1>3, <1>4, MovesTrans
<1>6. /\ Cardinality(Holders') = Cardinality(Holders) + 1
      /\ \A k \in Ips : Cardinality(HoldersOf(k)')
           = Cardinality(HoldersOf(k)) + (IF k = ip THEN 1 ELSE 0)
      /\ \A s \in Subnets : Cardinality(HoldersIn(s)')
           = Cardinality(HoldersIn(s)) + (IF s = sub THEN 1 ELSE 0)
  BY <1>1, <1>2, TakeSlot, Zenon DEF sub
<1>7. /\ st.unauthenticated_connections = Cardinality(Holders)
      /\ \A s \in Subnets : st.per_subnet[s] = Cardinality(HoldersIn(s))
      /\ \A k \in Ips : Count(st.per_peer[k]) = Cardinality(HoldersOf(k))
  BY <1>1, <1>3, Zenon DEF SlotsMatchGuards, SameCounters, PeerCount, Count
<1>8. st \in AdmissionState /\ st.per_subnet \in [Subnets -> Nat]
  BY <1>3 DEF StateGood, AdmissionState
<1>9. SlotsMatchGuards'
  <2>1. admission'.unauthenticated_connections = Cardinality(Holders')
    BY <1>4, <1>6, <1>7, Zenon
  <2>2. \A s \in Subnets : admission'.per_subnet[s] = Cardinality(HoldersIn(s)')
    <3> SUFFICES ASSUME NEW s \in Subnets
                 PROVE  admission'.per_subnet[s] = Cardinality(HoldersIn(s)')
      OBVIOUS
    <3>1. st.per_subnet[s] \in Nat /\ st.per_subnet[s] = Cardinality(HoldersIn(s))
      BY <1>7, <1>8, Zenon
    <3>2. admission'.per_subnet[s] = st.per_subnet[s] + (IF s = sub THEN 1 ELSE 0)
      BY <1>4, <1>8, <3>1, SMTT(30)
    <3> QED
      BY <1>6, <3>1, <3>2
  <2>3. \A k \in Ips : Count(admission'.per_peer[k]) = Cardinality(HoldersOf(k)')
    BY <1>4, <1>6, <1>7, HoldersFinite, SMTT(30)
  <2> QED
    BY <2>1, <2>2, <2>3, Zenon DEF SlotsMatchGuards, PeerCount, Count
<1>10. /\ Cardinality(Holders) < MaxGlobal
       /\ Cardinality(HoldersIn(sub)) < MaxPerSubnet
       /\ Cardinality(HoldersOf(ip)) < PerIpLimit
  <2>1. st.unauthenticated_connections \in Nat /\ st.per_subnet[sub] \in Nat
    BY <1>1, <1>8, Zenon DEF AdmissionState
  <2>2. st.unauthenticated_connections < MaxGlobal /\ st.per_subnet[sub] < MaxPerSubnet
    BY <1>2, <2>1, Constants DEF Verdict, sub
  <2>3. Count(st.per_peer[ip]) < PerIpLimit
    <3>1. CASE st.per_peer[ip] = NoPeer
      BY <3>1, Constants, SMTT(30) DEF Count, PerIpLimit
    <3>2. CASE st.per_peer[ip] # NoPeer
      <4>1. st.per_peer[ip].unauthenticated_connections \in Nat
        BY <1>8, <3>2, PeerType, Zenon DEF PeerState
      <4>2. ~ (st.per_peer[ip].unauthenticated_connections >= MaxPerIp)
        BY <1>2, <3>2 DEF Verdict
      <4> QED
        BY <3>2, <4>1, <4>2, Constants, SMTT(30) DEF Count, PerIpLimit
    <3> QED
      BY <3>1, <3>2
  <2> QED
    BY <1>1, <1>7, <2>2, <2>3, Zenon
<1>11. Acquire(c, ip)
  BY <1>2, <1>10 DEF Acquire, sub
<1>12. CapsRespected'
  <2>1. Cardinality(Holders') <= MaxGlobal
    BY <1>6, <1>10, HoldersFinite, Constants, SMTT(30)
  <2>2. \A s \in Subnets : Cardinality(HoldersIn(s)') <= MaxPerSubnet
    BY <1>1, <1>6, <1>10, HoldersFinite, Constants, SMTT(30) DEF CapsRespected
  <2>3. PerIpLimit \in Nat
    BY Constants DEF PerIpLimit
  <2>4. \A k \in Ips : Cardinality(HoldersOf(k)') <= PerIpLimit
    BY <1>1, <1>6, <1>10, <2>3, HoldersFinite, SMTT(30) DEF CapsRespected
  <2> QED
    BY <2>1, <2>2, <2>4, Zenon DEF CapsRespected, PerIpLimit
<1>13. banned_at[ip] = Never \/ now >= banned_at[ip] + BanDuration
  <2> SUFFICES ASSUME banned_at[ip] # Never, banned_at[ip] + BanDuration > now
               PROVE  FALSE
    BY <1>1, Constants
  <2>1. /\ admission.per_peer[ip] # NoPeer
        /\ admission.per_peer[ip].banned_until = banned_at[ip] + BanDuration
    BY <1>1, Zenon DEF Tracked, BansTracked
  <2>2. /\ st.per_peer[ip] # NoPeer
        /\ st.per_peer[ip].banned_until = banned_at[ip] + BanDuration
    BY <1>3, <2>1, Zenon DEF MovesTo, Follows
  <2>3. IsBanned(st.per_peer[ip], now)
    BY <1>1, <2>2, Constants DEF IsBanned
  <2> QED
    BY <1>2, <2>2, <2>3, Zenon DEF Verdict
<1> QED
  BY <1>5, <1>9, <1>11, <1>12, <1>13, Zenon

\* release returns the slot of a live guard and no other.
LEMMA ReleaseStep ==
    ASSUME IInv, NEW c \in Conns, guard[c] # NoGuard,
           admission' = Released(admission, guard[c], now),
           guard' = [guard EXCEPT ![c] = NoGuard]
    PROVE  /\ MovesTo(admission, admission', now)
           /\ SlotsMatchGuards'
           /\ CapsRespected'
<1> DEFINE ip == guard[c]
           sub == subnet_key[ip]
<1>1. /\ TypeOK /\ StateGood(admission, now) /\ SlotsMatchGuards /\ CapsRespected
      /\ now \in Nat /\ guard \in [Conns -> Ips \cup {NoGuard}]
      /\ ip \in Ips /\ sub \in Subnets
      /\ admission \in AdmissionState
  BY Constants, Zenon DEF IInv, TypeOK, Tracked
<1> HIDE DEF ip, sub
<1>2. /\ MovesTo(admission, admission', now)
      /\ admission'.unauthenticated_connections
           = Decremented(admission.unauthenticated_connections)
      /\ admission'.per_subnet = [admission.per_subnet EXCEPT ![sub] = Decremented(@)]
      /\ \A k \in Ips : k # ip =>
            Count(admission'.per_peer[k]) = Count(admission.per_peer[k])
      /\ Count(admission'.per_peer[ip]) = Decremented(Count(admission.per_peer[ip]))
  BY <1>1, ReleasedSpec, SMTT(30) DEF sub, ip
<1>3. /\ Cardinality(Holders') = Decremented(Cardinality(Holders))
      /\ \A k \in Ips : Cardinality(HoldersOf(k)') =
           IF k = ip THEN Decremented(Cardinality(HoldersOf(k)))
           ELSE Cardinality(HoldersOf(k))
      /\ \A s \in Subnets : Cardinality(HoldersIn(s)') =
           IF s = sub THEN Decremented(Cardinality(HoldersIn(s)))
           ELSE Cardinality(HoldersIn(s))
      /\ Cardinality(Holders') <= Cardinality(Holders)
      /\ \A k \in Ips : Cardinality(HoldersOf(k)') <= Cardinality(HoldersOf(k))
      /\ \A s \in Subnets : Cardinality(HoldersIn(s)') <= Cardinality(HoldersIn(s))
  BY <1>1, GiveSlot, Zenon DEF sub, ip
<1>4. /\ admission.unauthenticated_connections = Cardinality(Holders)
      /\ \A s \in Subnets : admission.per_subnet[s] = Cardinality(HoldersIn(s))
      /\ \A k \in Ips : Count(admission.per_peer[k]) = Cardinality(HoldersOf(k))
  BY <1>1 DEF SlotsMatchGuards, PeerCount, Count
<1>5. \A s \in Subnets : admission'.per_subnet[s] =
        IF s = sub THEN Decremented(admission.per_subnet[s]) ELSE admission.per_subnet[s]
  BY <1>1, <1>2 DEF AdmissionState
<1>6. SlotsMatchGuards'
  <2>1. admission'.unauthenticated_connections = Cardinality(Holders')
    BY <1>2, <1>3, <1>4, Zenon
  <2>2. \A s \in Subnets : admission'.per_subnet[s] = Cardinality(HoldersIn(s)')
    BY <1>3, <1>4, <1>5
  <2>3. \A k \in Ips : Count(admission'.per_peer[k]) = Cardinality(HoldersOf(k)')
    <3> SUFFICES ASSUME NEW k \in Ips
                 PROVE  Count(admission'.per_peer[k]) = Cardinality(HoldersOf(k)')
      BY Zenon
    <3>1. CASE k = ip
      BY <1>2, <1>3, <1>4, <3>1, Zenon
    <3>2. CASE k # ip
      BY <1>2, <1>3, <1>4, <3>2, Zenon
    <3> QED
      BY <3>1, <3>2
  <2> QED
    BY <2>1, <2>2, <2>3, Zenon DEF SlotsMatchGuards, PeerCount, Count
<1>7. CapsRespected'
  <2>1. PerIpLimit \in Nat
    BY Constants DEF PerIpLimit
  <2>2. /\ Cardinality(Holders') \in Nat
        /\ \A k \in Ips : Cardinality(HoldersOf(k)') \in Nat
        /\ \A s \in Subnets : Cardinality(HoldersIn(s)') \in Nat
    BY <1>3, HoldersFinite, SMTT(30) DEF Decremented
  <2> QED
    BY <1>1, <1>3, <2>1, <2>2, HoldersFinite, Constants DEF CapsRespected, PerIpLimit
<1> QED
  BY <1>2, <1>6, <1>7

\* A step that leaves guards and counters alone keeps the slots.
LEMMA SlotsStay ==
    ASSUME SlotsMatchGuards, CapsRespected, guard' = guard,
           SameCounters(admission, admission')
    PROVE  SlotsMatchGuards' /\ CapsRespected'
<1>1. /\ Holders' = Holders
      /\ \A k : HoldersOf(k)' = HoldersOf(k)
      /\ \A s : HoldersIn(s)' = HoldersIn(s)
  BY DEF Holders, HoldersOf, HoldersIn
<1> QED
  BY <1>1 DEF SlotsMatchGuards, CapsRespected, SameCounters, PeerCount, Count, PerIpLimit

\* mark_authenticated and the drop of a guard both release it exactly once.
LEMMA GuardReleases ==
    ASSUME NEW c \in Conns, MarkAuthenticated(c) \/ DropGuard(c)
    PROVE  /\ guard[c] # NoGuard
           /\ admission' = Released(admission, guard[c], now)
           /\ guard' = [guard EXCEPT ![c] = NoGuard]
           /\ UNCHANGED <<now, banned_at, failed_at>>
<1>1. GuardRelease(Held(c), now)
        = [admission |-> Released(admission, guard[c], now),
           peer_ip |-> guard[c], released |-> TRUE]
  BY Zenon DEF GuardRelease, Held
<1>2. GuardRelease(GuardRelease(Held(c), now), now) = GuardRelease(Held(c), now)
  BY <1>1 DEF GuardRelease
<1> QED
  BY <1>1, <1>2 DEF MarkAuthenticated, DropGuard

\* Every step of the controller keeps the inductive invariant.
LEMMA NextIInv == IInv /\ [Next]_vars => IInv'
<1> SUFFICES ASSUME IInv, [Next]_vars
             PROVE  IInv'
  OBVIOUS
<1> USE DEF IInv
<1>0. /\ now \in Nat /\ admission \in AdmissionState
      /\ guard \in [Conns -> Ips \cup {NoGuard}]
      /\ banned_at \in [Ips -> Nat \cup {Never}]
      /\ failed_at \in [Ips -> Seq(Nat)]
  BY DEF TypeOK
<1>1. CASE Tick
  <2>1. Tracked' /\ EnoughFailuresBan' /\ failed_at' \in [Ips -> Seq(Nat)]
    BY <1>1, TickTracked
  <2>2. now' = now + 1 /\ UNCHANGED <<admission, guard, banned_at>>
    BY <1>1 DEF Tick
  <2>3. SlotsMatchGuards' /\ CapsRespected'
    BY <2>2, SlotsStay DEF SameCounters
  <2>4. TypeOK'
    BY <1>0, <2>1, <2>2 DEF TypeOK
  <2> QED
    BY <2>1, <2>3, <2>4
<1>2. ASSUME MovesTo(admission, admission', now), UNCHANGED <<now, banned_at, failed_at>>,
             guard' \in [Conns -> Ips \cup {NoGuard}], SlotsMatchGuards', CapsRespected'
      PROVE  IInv'
  <2>1. Tracked'
    BY <1>2, MovedTracked
  <2>2. TypeOK'
    BY <1>0, <1>2 DEF TypeOK, MovesTo
  <2>3. EnoughFailuresBan'
    BY <1>2 DEF EnoughFailuresBan
  <2> QED
    BY <1>2, <2>1, <2>2, <2>3
<1>3. ASSUME NEW c \in Conns, NEW ip \in Ips, TryAcquireOk(c, ip)
      PROVE  IInv'
  <2>1. /\ MovesTo(admission, admission', now) /\ SlotsMatchGuards' /\ CapsRespected'
    BY <1>3, AcquireStep
  <2>2. /\ guard' \in [Conns -> Ips \cup {NoGuard}]
        /\ UNCHANGED <<now, banned_at, failed_at>>
    BY <1>0, <1>3 DEF TryAcquireOk
  <2> QED
    BY <1>2, <2>1, <2>2
<1>4. ASSUME NEW ip \in Ips, TryAcquireErr(ip)
      PROVE  IInv'
  <2> DEFINE st == Cleaned(admission, ip, now)
  <2>1. /\ admission' = Refused(st, ip, now)
        /\ UNCHANGED <<now, guard, banned_at, failed_at>>
    BY <1>4 DEF TryAcquireErr
  <2>2. /\ MovesTo(admission, st, now) /\ StateGood(st, now)
        /\ SameCounters(admission, st)
    BY CleanStart
  <2> HIDE DEF st
  <2>3. MovesTo(st, admission', now) /\ SameCounters(st, admission')
    BY <1>0, <2>1, <2>2, RefusedSpec, Zenon DEF SameCounters
  <2>4. MovesTo(admission, admission', now)
    BY <2>2, <2>3, MovesTrans
  <2>5. SlotsMatchGuards' /\ CapsRespected'
    BY <2>1, <2>2, <2>3, SlotsStay DEF SameCounters
  <2> QED
    BY <1>0, <1>2, <2>1, <2>4, <2>5
<1>5. ASSUME NEW c \in Conns, RecordAuthFailure(c)
      PROVE  IInv'
  <2>1. /\ Tracked' /\ EnoughFailuresBan' /\ SameCounters(admission, admission')
        /\ banned_at' \in [Ips -> Nat \cup {Never}]
        /\ failed_at' \in [Ips -> Seq(Nat)]
    BY <1>5, RecordTracked
  <2>2. now' = now /\ guard' = guard
    BY <1>5 DEF RecordAuthFailure
  <2>3. SlotsMatchGuards' /\ CapsRespected'
    BY <2>1, <2>2, SlotsStay, Zenon
  <2>4. TypeOK'
    BY <1>0, <2>1, <2>2, Zenon DEF TypeOK, Tracked, StateGood
  <2> QED
    BY <2>1, <2>3, <2>4, Zenon
<1>6. ASSUME NEW c \in Conns, MarkAuthenticated(c) \/ DropGuard(c)
      PROVE  IInv'
  <2>1. /\ guard[c] # NoGuard /\ admission' = Released(admission, guard[c], now)
        /\ guard' = [guard EXCEPT ![c] = NoGuard]
        /\ UNCHANGED <<now, banned_at, failed_at>>
    BY <1>6, GuardReleases
  <2>2. MovesTo(admission, admission', now) /\ SlotsMatchGuards' /\ CapsRespected'
    BY <2>1, ReleaseStep, Zenon
  <2>3. guard' \in [Conns -> Ips \cup {NoGuard}]
    BY <1>0, <2>1
  <2> QED
    BY <1>2, <2>1, <2>2, <2>3, Zenon
<1>7. CASE UNCHANGED vars
  <2>1. now' = now /\ admission' = admission /\ guard' = guard
        /\ banned_at' = banned_at /\ failed_at' = failed_at
    BY <1>7 DEF vars
  <2>2. SlotsMatchGuards' /\ CapsRespected'
    BY <2>1, SlotsStay DEF SameCounters
  <2> QED
    BY <2>1, <2>2 DEF TypeOK, Tracked, BansTracked, FailuresTracked, EnoughFailuresBan
<1> QED
  BY <1>1, <1>3, <1>4, <1>5, <1>6, <1>7 DEF Next

-----------------------------------------------------------------------------
\* The inductive invariant holds throughout every behaviour of the controller.
THEOREM Invariance == Spec => []IInv
BY InitIInv, NextIInv, PTL DEF Spec

\* Every variable of the controller keeps its type, for every configuration.
THEOREM TypeCorrect == Spec => []TypeOK
<1>1. IInv => TypeOK
  BY DEF IInv
<1> QED
  BY <1>1, Invariance, PTL

\* The three counters of AdmissionState are always the guards that live: a slot is
\* neither leaked by a clean-up nor returned twice (admission.rs:81-114, 248-294).
THEOREM SlotsNeverLeak == Spec => []SlotsMatchGuards
<1>1. IInv => SlotsMatchGuards
  BY DEF IInv
<1> QED
  BY <1>1, Invariance, PTL

\* try_acquire keeps the live unauthenticated connections within every cap.
THEOREM CapsHold == Spec => []CapsRespected
<1>1. IInv => CapsRespected
  BY DEF IInv
<1> QED
  BY <1>1, Invariance, PTL

\* No clean-up forgets a failure that still counts towards a ban.
THEOREM FailuresAreKept == Spec => []EnoughFailuresBan
<1>1. IInv => EnoughFailuresBan
  BY DEF IInv
<1> QED
  BY <1>1, Invariance, PTL

\* The token bucket bounds what an address is granted while its entry lives.
THEOREM RateBounded == Spec => []RateBoundWhileTracked
<1>1. IInv => RateBoundWhileTracked
  BY DEF IInv, Tracked, StateGood, PeerGood, RateBoundWhileTracked
<1> QED
  BY <1>1, Invariance, PTL

\* While a ban runs, try_acquire admits nothing from its address, whatever was
\* swept, released or recorded since the ban was issued.
THEOREM BansAreServed == Spec => BanHolds
<1> DEFINE Step == \A c \in Conns :
              guard[c] = NoGuard /\ guard'[c] # NoGuard =>
                  \/ banned_at[guard'[c]] = Never
                  \/ now >= banned_at[guard'[c]] + BanDuration
<1>1. IInv /\ [Next]_vars => [Step]_vars
  <2> SUFFICES ASSUME IInv, Next, NEW c \in Conns,
                      guard[c] = NoGuard, guard'[c] # NoGuard
               PROVE  \/ banned_at[guard'[c]] = Never
                      \/ now >= banned_at[guard'[c]] + BanDuration
    OBVIOUS
  <2>0. guard \in [Conns -> Ips \cup {NoGuard}]
    BY DEF IInv, TypeOK
  <2>1. ASSUME NEW d \in Conns, NEW ip \in Ips, TryAcquireOk(d, ip)
        PROVE  \/ banned_at[guard'[c]] = Never
               \/ now >= banned_at[guard'[c]] + BanDuration
    <3>1. banned_at[ip] = Never \/ now >= banned_at[ip] + BanDuration
      BY <2>1, AcquireStep
    <3>2. guard'[c] = ip
      BY <2>0, <2>1, Zenon DEF TryAcquireOk
    <3> QED
      BY <3>1, <3>2
  <2>2. ~Tick /\ (\A ip \in Ips : ~TryAcquireErr(ip))
        /\ (\A d \in Conns : ~RecordAuthFailure(d) /\ ~MarkAuthenticated(d)
                             /\ ~DropGuard(d))
    BY <2>0 DEF Tick, TryAcquireErr, RecordAuthFailure, MarkAuthenticated, DropGuard
  <2> QED
    BY <2>1, <2>2, Zenon DEF Next
<1> QED
  BY <1>1, Invariance, PTL DEF Spec, BanHolds

\* A ban is issued only when the failures within the window reach the threshold.
THEOREM BansAreEarned == Spec => BanIsEarned
<1> DEFINE Step == \A ip \in Ips :
              banned_at'[ip] # banned_at[ip] => Len(failed_at[ip]) + 1 >= BanThreshold
<1>1. IInv /\ [Next]_vars => [Step]_vars
  <2> SUFFICES ASSUME IInv, Next, NEW ip \in Ips, banned_at'[ip] # banned_at[ip]
               PROVE  Len(failed_at[ip]) + 1 >= BanThreshold
    OBVIOUS
  <2>1. PICK c \in Conns : RecordAuthFailure(c)
    BY DEF Next, Tick, TryAcquireOk, TryAcquireErr, MarkAuthenticated, DropGuard
  <2> QED
    BY <2>1, RecordTracked DEF IInv
<1> QED
  BY <1>1, Invariance, PTL DEF Spec, BanIsEarned

\* The controller implements the abstract slots: every step of it is a grant that
\* finds room, a release, or nothing that the rest of the daemon can see.
THEOREM ImplementsSlots == Spec => SlotsSpec
<1>1. Init => SlotsInit
  BY Zenon DEF Init, SlotsInit
<1>2. IInv /\ [Next]_vars => [SlotsNext]_guard
  <2> SUFFICES ASSUME IInv, [Next]_vars, guard' # guard
               PROVE  SlotsNext
    OBVIOUS
  <2>1. ASSUME NEW c \in Conns, NEW ip \in Ips, TryAcquireOk(c, ip)
        PROVE  SlotsNext
    BY <2>1, AcquireStep DEF SlotsNext
  <2>2. ASSUME NEW c \in Conns, MarkAuthenticated(c) \/ DropGuard(c)
        PROVE  SlotsNext
    BY <2>2, GuardReleases DEF SlotsNext, Release
  <2> QED
    BY <2>1, <2>2, Zenon DEF Next, Tick, TryAcquireErr, RecordAuthFailure, vars
<1> QED
  BY <1>1, <1>2, Invariance, PTL DEF Spec, SlotsSpec
=============================================================================
